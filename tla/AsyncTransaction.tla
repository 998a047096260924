-------------------------- MODULE AsyncTransaction --------------------------
(***************************************************************************)
(* RDM transactions with retries                                           *)
(* (rdm_dmx_async/transaction/async_transaction.py, correlator.py,         *)
(* policy.py).                                                             *)
(*                                                                         *)
(* Several transactions run as asyncio tasks and share one number pool.  A *)
(* step of this module is what a task does between two awaits.  The wire   *)
(* operation a transaction awaits is left open: it may answer anything, or *)
(* fail, or take longer than policy.timeout.                               *)
(***************************************************************************)
EXTENDS TxnAllocator, Sequences, FiniteSets

CONSTANTS
    Transaction,       \* the tasks that execute transactions
    MaxAttempts,       \* policy.max_attempts
    MaxPolls,          \* policy.max_ack_timer_polls
    RetryDelay,        \* policy.delay_between_attempts > 0
    Permanent,         \* policy.permanent_failures
    DefinedReason,     \* the values of the NAKReason enumeration
    NakData,           \* the parameter data of the NAKs devices send
    Correlated         \* the operation returns answers to its own number only,
                       \* as RDME120Protocol does; otherwise to any number

ASSUME PolicyAssumption ==
    /\ MaxAttempts \in Nat \ {0}
    /\ MaxPolls \in Nat \ {0}
    /\ RetryDelay \in BOOLEAN
    /\ Correlated \in BOOLEAN
    /\ DefinedReason \subseteq Nat
    /\ Permanent \subseteq DefinedReason
    /\ NakData \subseteq Seq(Nat)

VARIABLES
    pc,                \* what the task of t is awaiting
    state,             \* TransactionState
    attempt_index,     \* the loop variable of execute()
    poll_index,        \* the loop variable of _poll_queued_message(), from 1
    current,           \* txn_number of the current attempt
    asked,             \* txn_number of the last request, of an attempt or a poll
    allocated,         \* allocated_txn_numbers
    response,          \* the ACK_TIMER being followed up, or the answer that decided
    attempts,          \* the list of Attempt records
    result             \* how execute() ended

taskVars == <<pc, state, attempt_index, poll_index, current, asked, allocated,
              response, attempts, result>>
vars == <<next_number, in_use, taskVars>>

-----------------------------------------------------------------------------
Awaiting == {"operation", "ack_delay", "poll", "retry_delay"}
PC == {"idle", "done"} \union Awaiting

State == {"CREATED", "IN_PROGRESS", "RETRYING", "SUCCEEDED", "FAILED"}

Result == {"none", "success", "permanent", "exhausted", "raised", "cancelled"}

(* Parameter data matters in a NAK only, where it holds the reason.  A     *)
(* device may write any byte for the number, also 0, which no request has. *)
Response ==
    [type : {"ACK", "ACK_TIMER", "ACK_OVERFLOW"}, number : Numbers \union {0}, data : {<<>>}]
        \union [type : {"NAK"}, number : Numbers \union {0}, data : NakData]

NoResponse == [type |-> "NONE", number |-> 0, data |-> <<>>]

(* Of an Attempt record: how it ended.                                     *)
Attempt == [success : BOOLEAN, late : BOOLEAN]

(* What the operation of t may answer to the request numbered n.           *)
Answers(n) == {r \in Response : Correlated => r.number = n}

Active == {t \in Transaction : pc[t] \in Awaiting}

(* The numbers the pool has reserved for t.                                *)
Reserved(t) == IF t \in Active THEN allocated[t] ELSE {}

(* Mutant of IsLate: numbers are compared by size, as if none wrapped.      *)
IsLateByOrder(t, r) == r.number < current[t] /\ r.number \in allocated[t]

(* classify_response raises ValueError for a number out of range.          *)
Unclassifiable(r) == r.number \notin Numbers

(* LateResponseClassifier.classify_response: an answer to an earlier       *)
(* number of the same transaction is LATE.  An answer to a number the      *)
(* transaction never had is ANOMALOUS, which is logged and changes nothing.*)
IsLate(t, r) == r.number # current[t] /\ r.number \in allocated[t]

(* The success that _execute_attempt records.  The ValueError of an answer *)
(* that cannot be classified is swallowed there: the answer is kept and    *)
(* the attempt has failed.  Answers to polls are not classified.           *)
Succeeds(t, r, late) ==
    /\ r.type = "ACK"
    /\ ~late
    /\ ~(pc[t] = "operation" /\ Unclassifiable(r))

(* NAKReason(response.data[0]) raises ValueError for an undefined value.   *)
ReasonUndefined(r) ==
    r.type = "NAK" /\ r.data # <<>> /\ Head(r.data) \notin DefinedReason

(* is_permanent_failure of the reason that execute() reads from a NAK.     *)
IsPermanentFailure(r) ==
    r.type = "NAK" /\ r.data # <<>> /\ Head(r.data) \in Permanent

-----------------------------------------------------------------------------
Init ==
    /\ AllocatorInit(1)
    /\ pc = [t \in Transaction |-> "idle"]
    /\ state = [t \in Transaction |-> "CREATED"]
    /\ attempt_index = [t \in Transaction |-> 0]
    /\ poll_index = [t \in Transaction |-> 0]
    /\ current = [t \in Transaction |-> 0]
    /\ asked = [t \in Transaction |-> 0]
    /\ allocated = [t \in Transaction |-> {}]
    /\ response = [t \in Transaction |-> NoResponse]
    /\ attempts = [t \in Transaction |-> <<>>]
    /\ result = [t \in Transaction |-> "none"]

(* Mutant of End: only the number of the last attempt is released.         *)
EndReleasesCurrent(t, outcome, mine) ==
    /\ ReleaseAll(mine \intersect {current[t]})
    /\ pc' = [pc EXCEPT ![t] = "done"]
    /\ result' = [result EXCEPT ![t] = outcome]
    /\ allocated' = [allocated EXCEPT ![t] = mine]

(* execute() ends: the finally block releases every number of t.           *)
End(t, outcome, mine) ==
    /\ ReleaseAll(mine)
    /\ pc' = [pc EXCEPT ![t] = "done"]
    /\ result' = [result EXCEPT ![t] = outcome]
    /\ allocated' = [allocated EXCEPT ![t] = mine]

(* The top of the loop of execute() with attempt_index = i: _update_state, *)
(* then _execute_attempt up to the await of the operation.  allocate() is  *)
(* called outside the try block of the attempt, so that RuntimeError       *)
(* leaves execute().                                                       *)
StartAttempt(t, i, mine) ==
    /\ state' = [state EXCEPT ![t] = IF i = 0 THEN "IN_PROGRESS" ELSE "RETRYING"]
    /\ attempt_index' = [attempt_index EXCEPT ![t] = i]
    /\ poll_index' = [poll_index EXCEPT ![t] = 0]
    /\ response' = [response EXCEPT ![t] = NoResponse]
    /\ \/ \E n \in Numbers :
            /\ Allocate(n)
            /\ pc' = [pc EXCEPT ![t] = "operation"]
            /\ current' = [current EXCEPT ![t] = n]
            /\ asked' = [asked EXCEPT ![t] = n]
            /\ allocated' = [allocated EXCEPT ![t] = mine \union {n}]
            /\ result' = [result EXCEPT ![t] = "none"]
       \/ /\ Exhausted
          /\ End(t, "raised", mine)
          /\ UNCHANGED <<current, asked>>

(* execute() returns with one of the three kinds of TransactionResult.     *)
Finish(t, outcome) ==
    /\ End(t, outcome, allocated[t])
    /\ state' = [state EXCEPT ![t] = IF outcome = "success" THEN "SUCCEEDED" ELSE "FAILED"]
    /\ UNCHANGED <<attempt_index, current, asked>>

(* Mutant of Outcome: the check for a late answer is missing.              *)
OutcomeLateAccepted(t, r, late) ==
    IF ReasonUndefined(r) THEN "raised"
    ELSE IF r.type = "ACK" THEN "success"
    ELSE IF IsPermanentFailure(r) THEN "permanent"
    ELSE "retry"

(* Which way execute() goes with the answer r of an attempt.               *)
Outcome(t, r, late) ==
    IF ReasonUndefined(r) THEN "raised"
    ELSE IF late THEN "skip"
    ELSE IF r.type = "ACK" THEN "success"
    ELSE IF IsPermanentFailure(r) THEN "permanent"
    ELSE "retry"

IsLastAttempt(t) == attempt_index[t] = MaxAttempts - 1

(* The end of _execute_attempt, which records the attempt, and the rest of *)
(* the round in execute().  A late answer goes on without the delay, in    *)
(* the next round of the same loop.                                        *)
CompleteAttempt(t, r, late) ==
    LET outcome == Outcome(t, r, late)
        attempt == [success |-> Succeeds(t, r, late), late |-> late]
    IN  IF outcome = "raised"
        THEN /\ End(t, "raised", allocated[t])
             /\ response' = [response EXCEPT ![t] = NoResponse]
             /\ UNCHANGED <<state, attempt_index, poll_index, current, asked, attempts>>
        ELSE /\ attempts' = [attempts EXCEPT ![t] = Append(@, attempt)]
             /\ \/ /\ outcome \in {"success", "permanent"}
                   /\ Finish(t, outcome)
                   /\ response' = [response EXCEPT ![t] = r]
                   /\ UNCHANGED poll_index
                \/ /\ outcome \in {"skip", "retry"}
                   /\ IsLastAttempt(t)
                   /\ Finish(t, "exhausted")
                   /\ response' = [response EXCEPT ![t] = NoResponse]
                   /\ UNCHANGED poll_index
                \/ /\ outcome = "skip" \/ (outcome = "retry" /\ ~RetryDelay)
                   /\ ~IsLastAttempt(t)
                   /\ StartAttempt(t, attempt_index[t] + 1, allocated[t])
                \/ /\ outcome = "retry" /\ RetryDelay
                   /\ ~IsLastAttempt(t)
                   /\ pc' = [pc EXCEPT ![t] = "retry_delay"]
                   /\ response' = [response EXCEPT ![t] = NoResponse]
                   /\ UNCHANGED <<allocatorVars, state, attempt_index, poll_index,
                                  current, asked, allocated, result>>

-----------------------------------------------------------------------------
(* AsyncTransactionManager.get() and set(): a new transaction is executed. *)
Execute(t) ==
    /\ pc[t] \in {"idle", "done"}
    /\ attempts' = [attempts EXCEPT ![t] = <<>>]
    /\ StartAttempt(t, 0, {})

(* An ACK_TIMER that is classified and not late is followed up, after the  *)
(* delay it names.                                                         *)
OperationAnswers(t) ==
    /\ pc[t] = "operation"
    /\ \E r \in Answers(current[t]) :
        \/ /\ r.type = "ACK_TIMER"
           /\ ~IsLate(t, r) /\ ~Unclassifiable(r)
           /\ pc' = [pc EXCEPT ![t] = "ack_delay"]
           /\ response' = [response EXCEPT ![t] = r]
           /\ UNCHANGED <<allocatorVars, state, attempt_index, poll_index, current,
                          asked, allocated, attempts, result>>
        \/ /\ r.type # "ACK_TIMER" \/ IsLate(t, r) \/ Unclassifiable(r)
           /\ CompleteAttempt(t, r, IsLate(t, r))

(* wait_for cuts the operation off, or the operation raises.               *)
OperationFails(t) ==
    /\ pc[t] = "operation"
    /\ CompleteAttempt(t, NoResponse, FALSE)

(* Mutant of Poll: it waits while no number is free.                       *)
PollWaits(t) ==
    /\ pc[t] = "ack_delay"
    /\ \E n \in Numbers :
            /\ Allocate(n)
            /\ pc' = [pc EXCEPT ![t] = "poll"]
            /\ poll_index' = [poll_index EXCEPT ![t] = @ + 1]
            /\ asked' = [asked EXCEPT ![t] = n]
            /\ allocated' = [allocated EXCEPT ![t] = @ \union {n}]
            /\ UNCHANGED <<state, attempt_index, current, response, attempts, result>>

(* The delay is over: QUEUED_MESSAGE is requested under a new number.  A   *)
(* RuntimeError of allocate() is caught here and ends the attempt.         *)
Poll(t) ==
    /\ pc[t] = "ack_delay"
    /\ \/ \E n \in Numbers :
            /\ Allocate(n)
            /\ pc' = [pc EXCEPT ![t] = "poll"]
            /\ poll_index' = [poll_index EXCEPT ![t] = @ + 1]
            /\ asked' = [asked EXCEPT ![t] = n]
            /\ allocated' = [allocated EXCEPT ![t] = @ \union {n}]
            /\ UNCHANGED <<state, attempt_index, current, response, attempts, result>>
       \/ /\ Exhausted
          /\ CompleteAttempt(t, response[t], FALSE)

(* The answer to a poll is taken as it is, without classification.         *)
PollAnswers(t) ==
    /\ pc[t] = "poll"
    /\ \E r \in Answers(asked[t]) :
        \/ /\ r.type = "ACK_TIMER"
           /\ poll_index[t] < MaxPolls
           /\ pc' = [pc EXCEPT ![t] = "ack_delay"]
           /\ response' = [response EXCEPT ![t] = r]
           /\ UNCHANGED <<allocatorVars, state, attempt_index, poll_index, current,
                          asked, allocated, attempts, result>>
        \/ /\ r.type # "ACK_TIMER" \/ poll_index[t] = MaxPolls
           /\ CompleteAttempt(t, r, FALSE)

(* A poll that times out leaves the last ACK_TIMER as the answer, one that *)
(* raises the first; which of the two makes no difference afterwards.      *)
PollFails(t) ==
    /\ pc[t] = "poll"
    /\ CompleteAttempt(t, response[t], FALSE)

(* The sleep of delay_between_attempts is over.                            *)
RetryDelayEnds(t) ==
    /\ pc[t] = "retry_delay"
    /\ UNCHANGED attempts
    /\ StartAttempt(t, attempt_index[t] + 1, allocated[t])

(* The task that awaits execute() is cancelled.  CancelledError is not an  *)
(* Exception: no except clause sees it, only the finally block.            *)
Cancel(t) ==
    /\ pc[t] \in Awaiting
    /\ End(t, "cancelled", allocated[t])
    /\ response' = [response EXCEPT ![t] = NoResponse]
    /\ UNCHANGED <<state, attempt_index, poll_index, current, asked, attempts>>

Next ==
    \E t \in Transaction :
        \/ Execute(t)
        \/ OperationAnswers(t)
        \/ OperationFails(t)
        \/ Poll(t)
        \/ PollAnswers(t)
        \/ PollFails(t)
        \/ RetryDelayEnds(t)
        \/ Cancel(t)

(* The event loop runs every task that is ready, asyncio.sleep ends, and   *)
(* asyncio.wait_for cuts off an operation or a poll that has no answer.    *)
(* Nothing is assumed of the devices, and nobody is bound to start a       *)
(* transaction or to cancel one.                                           *)
Fairness ==
    \A t \in Transaction :
        /\ WF_vars(OperationFails(t))
        /\ WF_vars(Poll(t))
        /\ WF_vars(PollFails(t))
        /\ WF_vars(RetryDelayEnds(t))

Spec == Init /\ [][Next]_vars

FairSpec == Spec /\ Fairness

-----------------------------------------------------------------------------
(* Properties.                                                             *)

TypeOK ==
    /\ AllocatorTypeOK
    /\ pc \in [Transaction -> PC]
    /\ state \in [Transaction -> State]
    /\ attempt_index \in [Transaction -> 0 .. MaxAttempts - 1]
    /\ poll_index \in [Transaction -> 0 .. MaxPolls]
    /\ current \in [Transaction -> Numbers \union {0}]
    /\ asked \in [Transaction -> Numbers \union {0}]
    /\ allocated \in [Transaction -> SUBSET Numbers]
    /\ response \in [Transaction -> Response \union {NoResponse}]
    /\ attempts \in [Transaction -> Seq(Attempt)]
    /\ result \in [Transaction -> Result]

(* The numbers in use are exactly those of the running transactions, and   *)
(* no two transactions share one.  Whichever way execute() is left, by a   *)
(* result, an exception or a cancellation in any of its awaits, nothing of *)
(* it stays in the pool, and nothing another transaction holds is freed.   *)
PoolAccounting ==
    /\ in_use = UNION {Reserved(t) : t \in Transaction}
    /\ \A t, u \in Transaction : t # u => Reserved(t) \intersect Reserved(u) = {}

(* The list of attempts keeps step with the loop: while round i runs,      *)
(* exactly the i earlier rounds are recorded, none of them a success.      *)
(* Late answers, polls and delays do not disturb that.                     *)
AttemptsInStep ==
    \A t \in Active :
        /\ Len(attempts[t]) = attempt_index[t] + (IF pc[t] = "retry_delay" THEN 1 ELSE 0)
        /\ \A i \in DOMAIN attempts[t] : ~attempts[t][i].success

(* The result agrees with the attempts it reports.  After a success the    *)
(* last attempt and only that one is successful, with one exception: the   *)
(* operation's answer could not be classified, so that its attempt has     *)
(* failed and execute() takes it all the same.  A failure has no           *)
(* successful attempt.  "exhausted" means that every round of the loop has *)
(* been recorded, those of late answers among them: a late answer does     *)
(* count, against the comment "Don't count as an attempt" of execute().    *)
ResultMatchesAttempts ==
    \A t \in Transaction :
        LET last == Len(attempts[t])
            taken_unclassified == poll_index[t] = 0 /\ Unclassifiable(response[t])
        IN  /\ result[t] = "success" =>
                 /\ last \in 1 .. MaxAttempts
                 /\ \A i \in 1 .. last :
                      attempts[t][i].success <=> i = last /\ ~taken_unclassified
            /\ result[t] \in {"permanent", "exhausted", "raised", "cancelled"} =>
                 \A i \in 1 .. last : ~attempts[t][i].success
            /\ result[t] = "exhausted" => last = MaxAttempts

(* An answer to an earlier attempt never decides the transaction, unless   *)
(* it comes in the place of a poll's answer, which is not classified.      *)
LateAnswerNeverWins ==
    \A t \in Transaction :
        (result[t] \in {"success", "permanent"} /\ poll_index[t] = 0) =>
            response[t].number \notin allocated[t] \ {current[t]}

(* The number pool keeps its promise to the transactions.                  *)
Lease == INSTANCE NumberLease
            WITH Holder <- Transaction, Number <- Numbers,
                 lease <- [t \in Transaction |-> Reserved(t)]

LeasePromise == Lease!LeaseSpec

(* Every transaction that has been started ends.                           *)
EveryTransactionEnds ==
    \A t \in Transaction : (pc[t] \in Awaiting) ~> (pc[t] = "done")
=============================================================================
