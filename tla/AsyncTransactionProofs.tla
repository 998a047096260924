----------------------- MODULE AsyncTransactionProofs -----------------------
(***************************************************************************)
(* Theorems about transactions with retries, for every policy, any number  *)
(* of concurrent transactions and every size of the number pool.           *)
(***************************************************************************)
EXTENDS AsyncTransaction, FiniteSetTheorems, TLAPS

-----------------------------------------------------------------------------
(* What the place in which a transaction waits says of its counters and of *)
(* its last answer: TypeOK is inductive only together with this, because   *)
(* the counters stay in range for the reason that a poll or a delay is     *)
(* only entered while one more round is left.                              *)
Control(t) ==
    /\ pc[t] = "operation" => poll_index[t] = 0
    /\ pc[t] = "ack_delay" => poll_index[t] < MaxPolls
    /\ pc[t] = "poll" => poll_index[t] > 0
    /\ pc[t] \in {"ack_delay", "poll"} => response[t].type = "ACK_TIMER"
    /\ pc[t] = "retry_delay" => attempt_index[t] < MaxAttempts - 1
    /\ pc[t] \in Awaiting => result[t] = "none"

ControlInv == \A t \in Transaction : Control(t)

TaskStep(t) ==
    \/ Execute(t)
    \/ OperationAnswers(t)
    \/ OperationFails(t)
    \/ Poll(t)
    \/ PollAnswers(t)
    \/ PollFails(t)
    \/ RetryDelayEnds(t)
    \/ Cancel(t)

(* A step of t leaves the fields of the other transactions alone.          *)
OthersKeep(t) ==
    \A u \in Transaction \ {t} :
        /\ pc'[u] = pc[u]
        /\ state'[u] = state[u]
        /\ attempt_index'[u] = attempt_index[u]
        /\ poll_index'[u] = poll_index[u]
        /\ current'[u] = current[u]
        /\ asked'[u] = asked[u]
        /\ allocated'[u] = allocated[u]
        /\ response'[u] = response[u]
        /\ attempts'[u] = attempts[u]
        /\ result'[u] = result[u]

(* The start of a round keeps to t.                                        *)
LEMMA StartAttemptFrame ==
    ASSUME TypeOK, NEW t \in Transaction, NEW i, NEW mine, StartAttempt(t, i, mine),
           NEW list, attempts' = [attempts EXCEPT ![t] = list]
    PROVE  OthersKeep(t)
  BY DEF StartAttempt, End, OthersKeep, TypeOK

(* The end of a round keeps to t.                                          *)
LEMMA CompleteAttemptFrame ==
    ASSUME TypeOK, NEW t \in Transaction, NEW r, NEW late, CompleteAttempt(t, r, late)
    PROVE  OthersKeep(t)
  <1> DEFINE list == Append(attempts[t], [success |-> Succeeds(t, r, late), late |-> late])
             outcome == Outcome(t, r, late)
  <1> HIDE DEF outcome
  <1>1. CASE ~IsLastAttempt(t) /\ StartAttempt(t, attempt_index[t] + 1, allocated[t])
             /\ attempts' = [attempts EXCEPT ![t] = list]
    BY <1>1, StartAttemptFrame
  <1>2. CASE ~(~IsLastAttempt(t) /\ StartAttempt(t, attempt_index[t] + 1, allocated[t])
               /\ attempts' = [attempts EXCEPT ![t] = list])
    BY <1>2 DEF CompleteAttempt, Finish, End, OthersKeep, TypeOK, outcome
  <1>3. QED
    BY <1>1, <1>2

(* So does every step of t.                                                *)
LEMMA StepFrame ==
    ASSUME TypeOK, NEW t \in Transaction, TaskStep(t)
    PROVE  OthersKeep(t)
  <1>1. CASE Execute(t)
    BY <1>1, StartAttemptFrame DEF Execute
  <1>2. CASE OperationAnswers(t)
    BY <1>2, CompleteAttemptFrame DEF OperationAnswers, OthersKeep, TypeOK
  <1>3. CASE OperationFails(t)
    BY <1>3, CompleteAttemptFrame DEF OperationFails
  <1>4. CASE Poll(t)
    BY <1>4, CompleteAttemptFrame DEF Poll, OthersKeep, TypeOK
  <1>5. CASE PollAnswers(t)
    BY <1>5, CompleteAttemptFrame DEF PollAnswers, OthersKeep, TypeOK
  <1>6. CASE PollFails(t)
    BY <1>6, CompleteAttemptFrame DEF PollFails
  <1>7. CASE RetryDelayEnds(t)
    <2>1. attempts' = [attempts EXCEPT ![t] = attempts[t]]
      BY <1>7 DEF RetryDelayEnds, TypeOK
    <2>2. QED
      BY <1>7, <2>1, StartAttemptFrame DEF RetryDelayEnds
  <1>8. CASE Cancel(t)
    BY <1>8 DEF Cancel, End, OthersKeep, TypeOK
  <1>9. QED
    BY <1>1, <1>2, <1>3, <1>4, <1>5, <1>6, <1>7, <1>8 DEF TaskStep

-----------------------------------------------------------------------------
(* Type correctness.  Its three lemmas follow the three blocks the actions *)
(* share.                                                                  *)

(* The top of the loop keeps the types, whatever list of attempts it is    *)
(* entered with.                                                           *)
LEMMA StartAttemptTypes ==
    ASSUME TypeOK, NEW t \in Transaction, NEW i \in 0 .. MaxAttempts - 1,
           NEW mine \in SUBSET Numbers, StartAttempt(t, i, mine),
           attempts' \in [Transaction -> Seq(Attempt)]
    PROVE  TypeOK'
  <1> USE PolicyAssumption DEF TypeOK, AllocatorTypeOK, PC, Awaiting, State, Result
  <1>1. ASSUME NEW n \in Numbers, Allocate(n),
               pc' = [pc EXCEPT ![t] = "operation"],
               current' = [current EXCEPT ![t] = n],
               asked' = [asked EXCEPT ![t] = n],
               allocated' = [allocated EXCEPT ![t] = mine \union {n}],
               result' = [result EXCEPT ![t] = "none"]
        PROVE  TypeOK'
    <2>1. Successor(n) \in Numbers
      BY MaxTxnAssumption DEF Numbers, Successor
    <2>2. QED
      BY <1>1, <2>1 DEF StartAttempt, Allocate
  <1>2. ASSUME End(t, "raised", mine), UNCHANGED <<current, asked>>
        PROVE  TypeOK'
    BY <1>2 DEF StartAttempt, End, ReleaseAll
  <1>3. QED
    BY <1>1, <1>2 DEF StartAttempt

(* The end of execute() with a result keeps the types.                     *)
LEMMA FinishTypes ==
    ASSUME TypeOK, NEW t \in Transaction, NEW outcome \in Result, Finish(t, outcome),
           NEW r \in Response \union {NoResponse}, response' = [response EXCEPT ![t] = r],
           UNCHANGED poll_index, attempts' \in [Transaction -> Seq(Attempt)]
    PROVE  TypeOK'
  BY DEF TypeOK, AllocatorTypeOK, PC, Awaiting, State, Finish, End, ReleaseAll

(* The end of a round keeps the types.                                     *)
LEMMA CompleteAttemptTypes ==
    ASSUME TypeOK, NEW t \in Transaction, NEW r \in Response \union {NoResponse},
           NEW late \in BOOLEAN, CompleteAttempt(t, r, late)
    PROVE  TypeOK'
  <1> DEFINE outcome == Outcome(t, r, late)
             attempt == [success |-> Succeeds(t, r, late), late |-> late]
  <1>1. CASE outcome = "raised"
    <2>1. /\ End(t, "raised", allocated[t])
          /\ response' = [response EXCEPT ![t] = NoResponse]
          /\ UNCHANGED <<state, attempt_index, poll_index, current, asked, attempts>>
      BY <1>1 DEF CompleteAttempt
    <2>2. QED
      BY <2>1 DEF TypeOK, AllocatorTypeOK, PC, Awaiting, Result, End, ReleaseAll
  <1>2. CASE outcome # "raised"
    <2> HIDE DEF outcome
    <2>1. /\ attempts' = [attempts EXCEPT ![t] = Append(@, attempt)]
          /\ \/ /\ outcome \in {"success", "permanent"}
                /\ Finish(t, outcome)
                /\ response' = [response EXCEPT ![t] = r]
                /\ UNCHANGED poll_index
             \/ /\ Finish(t, "exhausted")
                /\ response' = [response EXCEPT ![t] = NoResponse]
                /\ UNCHANGED poll_index
             \/ /\ ~IsLastAttempt(t)
                /\ StartAttempt(t, attempt_index[t] + 1, allocated[t])
             \/ /\ pc' = [pc EXCEPT ![t] = "retry_delay"]
                /\ response' = [response EXCEPT ![t] = NoResponse]
                /\ UNCHANGED <<allocatorVars, state, attempt_index, poll_index,
                               current, asked, allocated, result>>
      BY <1>2 DEF CompleteAttempt, outcome
    <2>2. attempts' \in [Transaction -> Seq(Attempt)]
      <3>1. attempt \in Attempt
        BY DEF Attempt, Succeeds
      <3> HIDE DEF attempt
      <3>2. QED
        BY <2>1, <3>1 DEF TypeOK
    <2>3. ~IsLastAttempt(t) => attempt_index[t] + 1 \in 0 .. MaxAttempts - 1
      <3>1. attempt_index[t] \in 0 .. MaxAttempts - 1
        BY DEF TypeOK
      <3>2. QED
        BY <3>1, PolicyAssumption DEF IsLastAttempt
    <2>4. allocated[t] \subseteq Numbers
      BY DEF TypeOK
    <2>5. CASE /\ outcome \in {"success", "permanent"}
               /\ Finish(t, outcome)
               /\ response' = [response EXCEPT ![t] = r]
               /\ UNCHANGED poll_index
      BY <2>2, <2>5, FinishTypes DEF Result
    <2>6. CASE /\ Finish(t, "exhausted")
               /\ response' = [response EXCEPT ![t] = NoResponse]
               /\ UNCHANGED poll_index
      BY <2>2, <2>6, FinishTypes DEF Result
    <2>7. CASE /\ ~IsLastAttempt(t)
               /\ StartAttempt(t, attempt_index[t] + 1, allocated[t])
      BY <2>2, <2>3, <2>4, <2>7, StartAttemptTypes
    <2>8. CASE /\ pc' = [pc EXCEPT ![t] = "retry_delay"]
               /\ response' = [response EXCEPT ![t] = NoResponse]
               /\ UNCHANGED <<allocatorVars, state, attempt_index, poll_index,
                              current, asked, allocated, result>>
      BY <2>2, <2>8 DEF TypeOK, AllocatorTypeOK, allocatorVars, PC, Awaiting
    <2>9. QED
      BY <2>1, <2>5, <2>6, <2>7, <2>8
  <1>3. QED
    BY <1>1, <1>2

(* The initial state has the types and satisfies the control invariant.    *)
LEMMA InitTypes == Init => TypeOK /\ ControlInv
  BY PolicyAssumption, MaxTxnAssumption
     DEF Init, AllocatorInit, TypeOK, AllocatorTypeOK, Numbers, PC, State, Result,
         ControlInv, Control, Awaiting

(* One step keeps the types.                                               *)
LEMMA NextTypes ==
    ASSUME TypeOK, ControlInv, [Next]_vars
    PROVE  TypeOK'
  <1>1. ASSUME NEW t \in Transaction, Execute(t)
        PROVE  TypeOK'
    <2>1. attempts' \in [Transaction -> Seq(Attempt)]
      BY <1>1 DEF Execute, TypeOK
    <2>2. 0 \in 0 .. MaxAttempts - 1 /\ {} \subseteq Numbers
      BY PolicyAssumption
    <2>3. QED
      BY <1>1, <2>1, <2>2, StartAttemptTypes DEF Execute
  <1>2. ASSUME NEW t \in Transaction, OperationAnswers(t)
        PROVE  TypeOK'
    <2>1. PICK r \in Answers(current[t]) :
             \/ /\ pc' = [pc EXCEPT ![t] = "ack_delay"]
                /\ response' = [response EXCEPT ![t] = r]
                /\ UNCHANGED <<allocatorVars, state, attempt_index, poll_index, current,
                               asked, allocated, attempts, result>>
             \/ CompleteAttempt(t, r, IsLate(t, r))
      BY <1>2 DEF OperationAnswers
    <2>2. r \in Response /\ IsLate(t, r) \in BOOLEAN
      BY DEF Answers, IsLate
    <2>3. CASE CompleteAttempt(t, r, IsLate(t, r))
      BY <2>2, <2>3, CompleteAttemptTypes
    <2>4. QED
      BY <2>1, <2>2, <2>3, ZenonT(60) DEF TypeOK, AllocatorTypeOK, allocatorVars, PC, Awaiting
  <1>3. ASSUME NEW t \in Transaction, OperationFails(t)
        PROVE  TypeOK'
    BY <1>3, CompleteAttemptTypes DEF OperationFails
  <1>4. ASSUME NEW t \in Transaction, Poll(t)
        PROVE  TypeOK'
    <2>1. CASE CompleteAttempt(t, response[t], FALSE)
      BY <2>1, CompleteAttemptTypes DEF TypeOK
    <2>2. ASSUME NEW n \in Numbers, Allocate(n),
                 pc' = [pc EXCEPT ![t] = "poll"],
                 poll_index' = [poll_index EXCEPT ![t] = @ + 1],
                 asked' = [asked EXCEPT ![t] = n],
                 allocated' = [allocated EXCEPT ![t] = @ \union {n}],
                 UNCHANGED <<state, attempt_index, current, response, attempts, result>>
          PROVE  TypeOK'
      <3>1. Successor(n) \in Numbers
        BY MaxTxnAssumption DEF Numbers, Successor
      <3>2. poll_index[t] + 1 \in 0 .. MaxPolls
        BY <1>4, PolicyAssumption DEF Poll, ControlInv, Control, TypeOK
      <3>3. QED
        BY <2>2, <3>1, <3>2 DEF TypeOK, AllocatorTypeOK, Allocate, PC, Awaiting
    <2>3. QED
      BY <1>4, <2>1, <2>2 DEF Poll
  <1>5. ASSUME NEW t \in Transaction, PollAnswers(t)
        PROVE  TypeOK'
    <2>1. PICK r \in Answers(asked[t]) :
             \/ /\ pc' = [pc EXCEPT ![t] = "ack_delay"]
                /\ response' = [response EXCEPT ![t] = r]
                /\ UNCHANGED <<allocatorVars, state, attempt_index, poll_index, current,
                               asked, allocated, attempts, result>>
             \/ CompleteAttempt(t, r, FALSE)
      BY <1>5 DEF PollAnswers
    <2>2. r \in Response
      BY DEF Answers
    <2>3. CASE CompleteAttempt(t, r, FALSE)
      BY <2>2, <2>3, CompleteAttemptTypes
    <2>4. QED
      BY <2>1, <2>2, <2>3, ZenonT(60) DEF TypeOK, AllocatorTypeOK, allocatorVars, PC, Awaiting
  <1>6. ASSUME NEW t \in Transaction, PollFails(t)
        PROVE  TypeOK'
    BY <1>6, CompleteAttemptTypes DEF PollFails, TypeOK
  <1>7. ASSUME NEW t \in Transaction, RetryDelayEnds(t)
        PROVE  TypeOK'
    <2>1. attempt_index[t] + 1 \in 0 .. MaxAttempts - 1
      <3>1. attempt_index[t] \in 0 .. MaxAttempts - 1
        BY DEF TypeOK
      <3>2. attempt_index[t] < MaxAttempts - 1
        BY <1>7 DEF RetryDelayEnds, ControlInv, Control
      <3>3. QED
        BY <3>1, <3>2, PolicyAssumption
    <2>2. allocated[t] \subseteq Numbers /\ attempts' \in [Transaction -> Seq(Attempt)]
      BY <1>7 DEF RetryDelayEnds, TypeOK
    <2>3. QED
      BY <1>7, <2>1, <2>2, StartAttemptTypes DEF RetryDelayEnds
  <1>8. ASSUME NEW t \in Transaction, Cancel(t)
        PROVE  TypeOK'
    BY <1>8 DEF Cancel, End, ReleaseAll, TypeOK, AllocatorTypeOK, PC, Awaiting, Result
  <1>9. CASE UNCHANGED vars
    BY <1>9 DEF vars, taskVars, TypeOK, AllocatorTypeOK
  <1>10. QED
    BY <1>1, <1>2, <1>3, <1>4, <1>5, <1>6, <1>7, <1>8, <1>9 DEF Next

(* The start of a round establishes the control invariant of t.            *)
LEMMA StartAttemptControl ==
    ASSUME TypeOK, NEW t \in Transaction, NEW i, NEW mine, StartAttempt(t, i, mine)
    PROVE  Control(t)'
  BY DEF StartAttempt, End, Control, TypeOK, Awaiting

(* The end of a round keeps the control invariant of t.                    *)
LEMMA CompleteAttemptControl ==
    ASSUME TypeOK, NEW t \in Transaction, pc[t] \in Awaiting, Control(t),
           NEW r, NEW late, CompleteAttempt(t, r, late)
    PROVE  Control(t)'
  <1>1. CASE StartAttempt(t, attempt_index[t] + 1, allocated[t])
    BY <1>1, StartAttemptControl
  <1>2. CASE /\ ~IsLastAttempt(t)
             /\ pc' = [pc EXCEPT ![t] = "retry_delay"]
             /\ UNCHANGED <<allocatorVars, state, attempt_index, poll_index,
                            current, asked, allocated, result>>
    <2>1. attempt_index[t] \in 0 .. MaxAttempts - 1
      BY DEF TypeOK
    <2>2. attempt_index[t] < MaxAttempts - 1
      BY <1>2, <2>1, PolicyAssumption DEF IsLastAttempt
    <2>3. QED
      BY <1>2, <2>2 DEF Control, TypeOK, Awaiting
  <1>3. CASE pc' = [pc EXCEPT ![t] = "done"]
    BY <1>3 DEF Control, TypeOK, Awaiting
  <1>4. QED
    BY <1>1, <1>2, <1>3 DEF CompleteAttempt, Finish, End

(* Every step keeps the control invariant.                                 *)
LEMMA NextControl ==
    ASSUME TypeOK, ControlInv, [Next]_vars
    PROVE  ControlInv'
  <1>1. ASSUME NEW t \in Transaction, TaskStep(t)
        PROVE  Control(t)'
    <2> USE DEF ControlInv, Control, TypeOK, Awaiting
    <2>1. CASE Execute(t)
      BY <1>1, <2>1, StartAttemptControl DEF Execute
    <2>2. CASE OperationAnswers(t)
      <3>1. CASE pc' = [pc EXCEPT ![t] = "ack_delay"]
        BY <2>2, <3>1, PolicyAssumption, CompleteAttemptControl DEF OperationAnswers
      <3>2. QED
        BY <2>2, <3>1, CompleteAttemptControl DEF OperationAnswers
    <2>3. CASE OperationFails(t)
      BY <2>3, CompleteAttemptControl DEF OperationFails
    <2>4. CASE Poll(t)
      <3>1. poll_index[t] \in 0 .. MaxPolls
        OBVIOUS
      <3>2. CASE /\ pc' = [pc EXCEPT ![t] = "poll"]
                 /\ poll_index' = [poll_index EXCEPT ![t] = @ + 1]
                 /\ UNCHANGED <<response, result>>
        <4>1. poll_index'[t] > 0 /\ pc'[t] = "poll"
          BY <3>1, <3>2
        <4>2. QED
          BY <2>4, <3>2, <4>1 DEF Poll
      <3>3. QED
        BY <2>4, <3>2, CompleteAttemptControl DEF Poll
    <2>5. CASE PollAnswers(t)
      BY <2>5, CompleteAttemptControl DEF PollAnswers
    <2>6. CASE PollFails(t)
      BY <2>6, CompleteAttemptControl DEF PollFails
    <2>7. CASE RetryDelayEnds(t)
      BY <2>7, StartAttemptControl DEF RetryDelayEnds
    <2>8. CASE Cancel(t)
      BY <2>8 DEF Cancel, End
    <2>9. QED
      BY <1>1, <2>1, <2>2, <2>3, <2>4, <2>5, <2>6, <2>7, <2>8 DEF TaskStep
  <1>2. ASSUME NEW t \in Transaction, TaskStep(t)
        PROVE  ControlInv'
    <2>1. ASSUME NEW u \in Transaction \ {t}
          PROVE  Control(u)'
      BY <1>2, <2>1, StepFrame DEF OthersKeep, ControlInv, Control
    <2>2. QED
      BY <1>1, <1>2, <2>1 DEF ControlInv
  <1>3. CASE UNCHANGED vars
    BY <1>3 DEF vars, taskVars, ControlInv, Control
  <1>4. QED
    BY <1>2, <1>3 DEF Next, TaskStep

(* Every field of a transaction keeps its type; in particular the loop of  *)
(* execute() never makes more rounds than the policy allows, and the loop  *)
(* of polls no more polls.                                                 *)
THEOREM TransactionTypes == Spec => []TypeOK
  <1>1. Init => TypeOK /\ ControlInv
    BY InitTypes
  <1>2. TypeOK /\ ControlInv /\ [Next]_vars => TypeOK' /\ ControlInv'
    BY NextTypes, NextControl
  <1>3. QED
    BY <1>1, <1>2, PTL DEF Spec

-----------------------------------------------------------------------------
(* The numbers in use.  What a step of t does to them: t takes one free    *)
(* number, or gives back all it has, or ownership does not change.         *)
TakeStep(t, n) ==
    /\ n \notin in_use
    /\ in_use' = in_use \union {n}
    /\ Reserved(t)' = Reserved(t) \union {n}

ReturnStep(t) ==
    /\ in_use' = in_use \ Reserved(t)
    /\ Reserved(t)' = {}

StayStep(t) ==
    /\ UNCHANGED in_use
    /\ Reserved(t)' = Reserved(t)

OwnershipStep(t) ==
    \/ \E n \in Numbers : TakeStep(t, n)
    \/ ReturnStep(t)
    \/ StayStep(t)

(* The top of the loop takes a number or, when there is none, returns all. *)
LEMMA StartAttemptOwnership ==
    ASSUME TypeOK, NEW t \in Transaction, NEW i, StartAttempt(t, i, Reserved(t))
    PROVE  OwnershipStep(t)
  <1> DEFINE mine == Reserved(t)
  <1>1. CASE End(t, "raised", mine)
    <2>1. ReturnStep(t)
      BY <1>1 DEF End, ReleaseAll, ReturnStep, Reserved, Active, Awaiting, TypeOK
    <2>2. QED
      BY <2>1 DEF OwnershipStep
  <1>2. ASSUME NEW n \in Numbers, Allocate(n),
               pc' = [pc EXCEPT ![t] = "operation"],
               allocated' = [allocated EXCEPT ![t] = mine \union {n}]
        PROVE  OwnershipStep(t)
    <2>1. Reserved(t)' = mine \union {n}
      BY <1>2 DEF Reserved, Active, Awaiting, TypeOK
    <2>2. TakeStep(t, n)
      BY <1>2, <2>1 DEF Allocate, IsCandidate, TakeStep
    <2>3. QED
      BY <2>2 DEF OwnershipStep
  <1>3. QED
    BY <1>1, <1>2 DEF StartAttempt

(* The end of a round: the next round starts, or execute() ends, or the    *)
(* transaction waits and keeps what it has.                                *)
LEMMA CompleteAttemptOwnership ==
    ASSUME TypeOK, NEW t \in Transaction, pc[t] \in Awaiting,
           NEW r, NEW late, CompleteAttempt(t, r, late)
    PROVE  OwnershipStep(t)
  <1>1. Reserved(t) = allocated[t]
    BY DEF Reserved, Active
  <1>2. CASE StartAttempt(t, attempt_index[t] + 1, allocated[t])
    BY <1>1, <1>2, StartAttemptOwnership
  <1>3. CASE pc' = [pc EXCEPT ![t] = "retry_delay"] /\ UNCHANGED <<allocatorVars, allocated>>
    BY <1>1, <1>3 DEF OwnershipStep, StayStep, allocatorVars, Reserved, Active, Awaiting, TypeOK
  <1>4. ASSUME NEW outcome, End(t, outcome, allocated[t])
        PROVE  OwnershipStep(t)
    BY <1>1, <1>4 DEF End, ReleaseAll, OwnershipStep, ReturnStep, Reserved, Active,
                      Awaiting, TypeOK
  <1>5. QED
    BY <1>2, <1>3, <1>4 DEF CompleteAttempt, Finish

(* Every step of t is one of the three kinds.                              *)
LEMMA StepOwnership ==
    ASSUME TypeOK, NEW t \in Transaction, TaskStep(t)
    PROVE  OwnershipStep(t)
  <1>1. CASE Execute(t)
    <2>1. Reserved(t) = {}
      BY <1>1 DEF Execute, Reserved, Active, Awaiting
    <2>2. QED
      BY <1>1, <2>1, StartAttemptOwnership DEF Execute
  <1>2. CASE OperationAnswers(t)
    <2>1. CASE pc' = [pc EXCEPT ![t] = "ack_delay"] /\ UNCHANGED <<allocatorVars, allocated>>
      BY <1>2, <2>1 DEF OperationAnswers, OwnershipStep, StayStep, allocatorVars, Reserved,
                        Active, Awaiting, TypeOK
    <2>2. QED
      BY <1>2, <2>1, CompleteAttemptOwnership DEF OperationAnswers, Awaiting
  <1>3. CASE OperationFails(t)
    BY <1>3, CompleteAttemptOwnership DEF OperationFails, Awaiting
  <1>4. CASE Poll(t)
    <2>1. ASSUME NEW n \in Numbers, Allocate(n),
                 pc' = [pc EXCEPT ![t] = "poll"],
                 allocated' = [allocated EXCEPT ![t] = @ \union {n}]
          PROVE  OwnershipStep(t)
      <3>1. TakeStep(t, n)
        BY <1>4, <2>1 DEF Poll, Allocate, IsCandidate, TakeStep, Reserved, Active,
                          Awaiting, TypeOK
      <3>2. QED
        BY <3>1 DEF OwnershipStep
    <2>2. QED
      BY <1>4, <2>1, CompleteAttemptOwnership DEF Poll, Awaiting
  <1>5. CASE PollAnswers(t)
    <2>1. CASE pc' = [pc EXCEPT ![t] = "ack_delay"] /\ UNCHANGED <<allocatorVars, allocated>>
      BY <1>5, <2>1 DEF PollAnswers, OwnershipStep, StayStep, allocatorVars, Reserved,
                        Active, Awaiting, TypeOK
    <2>2. QED
      BY <1>5, <2>1, CompleteAttemptOwnership DEF PollAnswers, Awaiting
  <1>6. CASE PollFails(t)
    BY <1>6, CompleteAttemptOwnership DEF PollFails, Awaiting
  <1>7. CASE RetryDelayEnds(t)
    <2>1. Reserved(t) = allocated[t]
      BY <1>7 DEF RetryDelayEnds, Reserved, Active, Awaiting
    <2>2. QED
      BY <1>7, <2>1, StartAttemptOwnership DEF RetryDelayEnds
  <1>8. CASE Cancel(t)
    BY <1>8 DEF Cancel, End, ReleaseAll, OwnershipStep, ReturnStep, Reserved, Active,
                Awaiting, TypeOK
  <1>9. QED
    BY <1>1, <1>2, <1>3, <1>4, <1>5, <1>6, <1>7, <1>8 DEF TaskStep

(* The other transactions own what they owned.                             *)
LEMMA OthersOwnership ==
    ASSUME TypeOK, NEW t \in Transaction, TaskStep(t), NEW u \in Transaction \ {t}
    PROVE  Reserved(u)' = Reserved(u)
  BY StepFrame DEF OthersKeep, Reserved, Active

(* A step of one transaction keeps the accounts of the pool.               *)
LEMMA StepAccounting ==
    ASSUME TypeOK, PoolAccounting, NEW t \in Transaction, TaskStep(t)
    PROVE  PoolAccounting'
  <1> DEFINE Own(u) == Reserved(u)
             Own2(u) == Reserved(u)'
  <1>1. \A u \in Transaction \ {t} : Own2(u) = Own(u)
    BY OthersOwnership
  <1>2. /\ in_use = UNION {Own(u) : u \in Transaction}
        /\ \A u, w \in Transaction : u # w => Own(u) \intersect Own(w) = {}
    BY DEF PoolAccounting
  <1>3. \/ \E n \in Numbers : /\ n \notin in_use
                             /\ in_use' = in_use \union {n}
                             /\ Own2(t) = Own(t) \union {n}
        \/ in_use' = in_use \ Own(t) /\ Own2(t) = {}
        \/ in_use' = in_use /\ Own2(t) = Own(t)
    BY StepOwnership DEF OwnershipStep, TakeStep, ReturnStep, StayStep
  <1>4. /\ in_use' = UNION {Own2(u) : u \in Transaction}
        /\ \A u, w \in Transaction : u # w => Own2(u) \intersect Own2(w) = {}
    <2> HIDE DEF Own, Own2
    <2>1. \A u, w \in Transaction : u # w => Own2(u) \intersect Own2(w) = {}
      BY <1>1, <1>2, <1>3
    <2>2. in_use' = UNION {Own2(u) : u \in Transaction}
      BY <1>1, <1>2, <1>3
    <2>3. QED
      BY <2>1, <2>2
  <1>5. QED
    BY <1>4 DEF PoolAccounting

(* The numbers in use are those of the running transactions, each owned by *)
(* one: whichever way execute() is left, it gives back all it has taken.   *)
THEOREM PoolIsAccounted == Spec => []PoolAccounting
  <1>1. Init => PoolAccounting
    BY DEF Init, AllocatorInit, PoolAccounting, Reserved, Active, Awaiting
  <1>2. TypeOK /\ PoolAccounting /\ [Next]_vars => PoolAccounting'
    <2> SUFFICES ASSUME TypeOK, PoolAccounting, [Next]_vars
                 PROVE  PoolAccounting'
      OBVIOUS
    <2>1. CASE UNCHANGED vars
      BY <2>1 DEF vars, taskVars, PoolAccounting, Reserved, Active
    <2>2. QED
      BY <2>1, StepAccounting DEF Next, TaskStep
  <1>3. QED
    BY <1>1, <1>2, TransactionTypes, PTL DEF Spec

(* Every step of the transactions is one of the abstract lease of numbers. *)
THEOREM TransactionsKeepLease == Spec => LeasePromise
  <1> DEFINE own == [t \in Transaction |-> Reserved(t)]
  <1>1. Init => Lease!LeaseInit
    BY DEF Init, Lease!LeaseInit, Reserved, Active, Awaiting
  <1>2. TypeOK /\ PoolAccounting /\ [Next]_vars => [Lease!LeaseNext]_own
    <2> SUFFICES ASSUME TypeOK, PoolAccounting, [Next]_vars
                 PROVE  [Lease!LeaseNext]_own
      OBVIOUS
    <2>1. ASSUME NEW t \in Transaction, TaskStep(t)
          PROVE  [Lease!LeaseNext]_own
      <3>1. ASSUME NEW n \in Numbers, TakeStep(t, n)
            PROVE  Lease!Take(t, n)
        BY <2>1, <3>1, OthersOwnership DEF TakeStep, Lease!Take, PoolAccounting
      <3>2. ASSUME ReturnStep(t)
            PROVE  Lease!Return(t, Reserved(t))
        BY <2>1, <3>2, OthersOwnership DEF ReturnStep, Lease!Return
      <3>3. ASSUME StayStep(t)
            PROVE  UNCHANGED own
        BY <2>1, <3>3, OthersOwnership DEF StayStep
      <3>4. Reserved(t) \in SUBSET Numbers
        BY DEF Reserved, TypeOK
      <3>5. QED
        BY <2>1, <3>1, <3>2, <3>3, <3>4, StepOwnership DEF OwnershipStep, Lease!LeaseNext
    <2>2. CASE UNCHANGED vars
      BY <2>2 DEF vars, taskVars, Reserved, Active
    <2>3. QED
      BY <2>1, <2>2 DEF Next, TaskStep
  <1>3. QED
    BY <1>1, <1>2, TransactionTypes, PoolIsAccounted, PTL
       DEF Spec, LeasePromise, Lease!LeaseSpec

-----------------------------------------------------------------------------
(* The attempts on record.  InStep and ResultMatch are AttemptsInStep and  *)
(* ResultMatchesAttempts of one transaction, without the quantifiers.      *)
NoSuccess(list) == \A i \in DOMAIN list : ~list[i].success

InStep(t) ==
    /\ Len(attempts[t]) = attempt_index[t] + (IF pc[t] = "retry_delay" THEN 1 ELSE 0)
    /\ NoSuccess(attempts[t])

TakenUnclassified(t) == poll_index[t] = 0 /\ Unclassifiable(response[t])

ResultMatch(t) ==
    /\ result[t] = "success" =>
         /\ Len(attempts[t]) \in 1 .. MaxAttempts
         /\ \A i \in 1 .. Len(attempts[t]) :
              attempts[t][i].success <=> i = Len(attempts[t]) /\ ~TakenUnclassified(t)
    /\ result[t] \in {"permanent", "exhausted", "raised", "cancelled"} =>
         NoSuccess(attempts[t])
    /\ result[t] = "exhausted" => Len(attempts[t]) = MaxAttempts

RecordInv(t) ==
    /\ pc[t] \in Awaiting => InStep(t)
    /\ ResultMatch(t)

(* The top of the loop is entered with as many failures as rounds.         *)
LEMMA StartAttemptRecord ==
    ASSUME TypeOK, NEW t \in Transaction, NEW i \in 0 .. MaxAttempts - 1, NEW mine,
           StartAttempt(t, i, mine), NEW list \in Seq(Attempt),
           attempts' = [attempts EXCEPT ![t] = list], Len(list) = i, NoSuccess(list)
    PROVE  RecordInv(t)'
  <1>1. attempts'[t] = list /\ attempt_index'[t] = i
    BY DEF StartAttempt, TypeOK
  <1>2. CASE pc'[t] = "operation" /\ result'[t] = "none"
    BY <1>1, <1>2 DEF RecordInv, InStep, ResultMatch, NoSuccess
  <1>3. CASE pc'[t] = "done" /\ result'[t] = "raised"
    BY <1>1, <1>3 DEF RecordInv, ResultMatch, NoSuccess, Awaiting
  <1>4. QED
    BY <1>2, <1>3 DEF StartAttempt, End, TypeOK

(* A round that ends records one attempt, successful in the one case in    *)
(* which execute() reports success.                                        *)
LEMMA CompleteAttemptRecord ==
    ASSUME TypeOK, NEW t \in Transaction, pc[t] \in Awaiting, pc[t] # "retry_delay",
           RecordInv(t), Control(t), NEW r \in Response \union {NoResponse}, NEW late \in BOOLEAN,
           pc[t] = "ack_delay" => r.type # "ACK", CompleteAttempt(t, r, late)
    PROVE  RecordInv(t)'
  <1> DEFINE outcome == Outcome(t, r, late)
             attempt == [success |-> Succeeds(t, r, late), late |-> late]
             list == Append(attempts[t], attempt)
  <1>1. /\ attempts[t] \in Seq(Attempt)
        /\ attempt_index[t] \in 0 .. MaxAttempts - 1
        /\ attempt \in Attempt
    BY DEF TypeOK, Attempt, Succeeds
  <1>2. /\ Len(attempts[t]) = attempt_index[t]
        /\ NoSuccess(attempts[t])
    BY <1>1 DEF RecordInv, InStep
  <1>3. /\ list \in Seq(Attempt)
        /\ Len(list) = attempt_index[t] + 1
        /\ list[Len(list)] = attempt
        /\ \A i \in 1 .. Len(list) - 1 : ~list[i].success
    <2> HIDE DEF attempt
    <2>1. /\ list \in Seq(Attempt)
          /\ Len(list) = attempt_index[t] + 1
          /\ \A i \in 1 .. Len(list) - 1 : list[i] = attempts[t][i]
          /\ list[Len(list)] = attempt
      BY <1>1, <1>2
    <2>2. DOMAIN attempts[t] = 1 .. attempt_index[t]
      BY <1>1, <1>2
    <2> HIDE DEF list
    <2>3. \A i \in 1 .. Len(list) - 1 : i \in DOMAIN attempts[t]
      BY <1>1, <2>1, <2>2
    <2>4. QED
      BY <1>2, <2>1, <2>3 DEF NoSuccess
  <1>4. CASE outcome = "raised"
    <2>1. /\ result'[t] = "raised" /\ pc'[t] = "done"
          /\ attempts'[t] = attempts[t]
      BY <1>4 DEF CompleteAttempt, End, TypeOK
    <2>2. QED
      BY <1>2, <2>1 DEF RecordInv, ResultMatch, NoSuccess, Awaiting
  <1>5. CASE outcome = "success"
    <2>1. /\ result'[t] = "success" /\ pc'[t] = "done" /\ attempts'[t] = list
          /\ response'[t] = r /\ poll_index'[t] = poll_index[t]
      BY <1>5 DEF CompleteAttempt, Finish, End, TypeOK
    <2>2. attempt.success <=> ~TakenUnclassified(t)'
      <3>1. r.type = "ACK" /\ ~late
        BY <1>5 DEF Outcome, IsPermanentFailure
      <3>2. TakenUnclassified(t)' <=> poll_index[t] = 0 /\ Unclassifiable(r)
        BY <2>1 DEF TakenUnclassified, Unclassifiable
      <3>3. pc[t] = "operation" <=> poll_index[t] = 0
        <4>1. poll_index[t] \in Nat
          BY PolicyAssumption DEF TypeOK
        <4>2. QED
          BY <3>1, <4>1 DEF Control, Awaiting
      <3>4. attempt.success <=> Succeeds(t, r, late)
        OBVIOUS
      <3>5. QED
        BY <3>1, <3>2, <3>3, <3>4 DEF Succeeds
    <2>3. Len(list) \in 1 .. MaxAttempts
      BY <1>1, <1>3, PolicyAssumption
    <2>4. \A i \in 1 .. Len(list) :
            list[i].success <=> i = Len(list) /\ ~TakenUnclassified(t)'
      <3> DEFINE taken == TakenUnclassified(t)'
      <3>1. Len(list) \in Nat
        BY <1>3
      <3>2. attempt.success <=> ~taken
        BY <2>2
      <3> HIDE DEF attempt, list, taken
      <3>3. \A i \in 1 .. Len(list) : list[i].success <=> i = Len(list) /\ ~taken
        BY <1>3, <3>1, <3>2
      <3>4. QED
        BY <3>3 DEF taken
    <2>5. QED
      BY <2>1, <2>3, <2>4 DEF RecordInv, ResultMatch, Awaiting
  <1>6. CASE outcome \notin {"raised", "success"}
    <2>1. ~attempt.success
      BY <1>6 DEF Outcome, Succeeds
    <2>2. NoSuccess(list)
      <3> HIDE DEF attempt, list
      <3>1. Len(list) \in Nat /\ DOMAIN list = 1 .. Len(list)
        BY <1>3
      <3>2. QED
        BY <1>3, <2>1, <3>1 DEF NoSuccess
    <2>3. attempts' = [attempts EXCEPT ![t] = list]
      BY <1>6 DEF CompleteAttempt
    <2>4. CASE outcome = "permanent" /\ Finish(t, "permanent")
      <3>1. result'[t] = "permanent" /\ pc'[t] = "done" /\ attempts'[t] = list
        BY <2>3, <2>4 DEF Finish, End, TypeOK
      <3>2. QED
        BY <2>2, <3>1 DEF RecordInv, ResultMatch, Awaiting
    <2>5. CASE IsLastAttempt(t) /\ Finish(t, "exhausted")
      <3>1. result'[t] = "exhausted" /\ pc'[t] = "done" /\ attempts'[t] = list
        BY <2>3, <2>5 DEF Finish, End, TypeOK
      <3>2. Len(list) = MaxAttempts
        BY <1>1, <1>3, <2>5, PolicyAssumption DEF IsLastAttempt
      <3>3. QED
        BY <2>2, <3>1, <3>2 DEF RecordInv, ResultMatch, Awaiting
    <2>6. CASE ~IsLastAttempt(t) /\ StartAttempt(t, attempt_index[t] + 1, allocated[t])
      <3>1. attempt_index[t] + 1 \in 0 .. MaxAttempts - 1
        BY <1>1, <2>6, PolicyAssumption DEF IsLastAttempt
      <3>2. QED
        BY <1>3, <2>2, <2>3, <2>6, <3>1, StartAttemptRecord
    <2>7. CASE /\ pc' = [pc EXCEPT ![t] = "retry_delay"]
               /\ UNCHANGED <<attempt_index, result>>
      <3>1. pc'[t] = "retry_delay" /\ attempts'[t] = list
        BY <2>3, <2>7 DEF TypeOK
      <3>2. ResultMatch(t)'
        <4>1. result'[t] = "none"
          BY <2>7 DEF Control
        <4>2. QED
          BY <4>1 DEF ResultMatch
      <3>3. QED
        BY <1>3, <2>2, <2>7, <3>1, <3>2 DEF RecordInv, InStep
    <2>8. QED
      BY <1>6, <2>4, <2>5, <2>6, <2>7 DEF CompleteAttempt
  <1>7. QED
    BY <1>4, <1>5, <1>6

(* Every step of t keeps the record of t right.                            *)
LEMMA StepRecord ==
    ASSUME TypeOK, ControlInv, NEW t \in Transaction, RecordInv(t), TaskStep(t)
    PROVE  RecordInv(t)'
  <1> USE DEF Awaiting
  <1>1. Control(t)
    BY DEF ControlInv
  <1>2. attempts[t] \in Seq(Attempt) /\ attempt_index[t] \in 0 .. MaxAttempts - 1
    BY DEF TypeOK
  <1>3. ASSUME pc[t] \in {"operation", "poll"}, pc' = [pc EXCEPT ![t] = "ack_delay"],
               UNCHANGED <<attempt_index, attempts, result>>
        PROVE  RecordInv(t)'
    BY <1>1, <1>2, <1>3 DEF Control, TypeOK, RecordInv, InStep, ResultMatch, NoSuccess
  <1>4. CASE Execute(t)
    <2>1. <<>> \in Seq(Attempt) /\ Len(<<>>) = 0 /\ NoSuccess(<<>>)
      BY DEF NoSuccess
    <2>2. 0 \in 0 .. MaxAttempts - 1
      BY PolicyAssumption
    <2>3. QED
      BY <1>4, <2>1, <2>2, StartAttemptRecord DEF Execute
  <1>5. CASE OperationAnswers(t)
    <2>1. \A r \in Answers(current[t]) : r \in Response /\ IsLate(t, r) \in BOOLEAN
      BY DEF Answers, IsLate
    <2>2. QED
      BY <1>1, <1>3, <1>5, <2>1, CompleteAttemptRecord DEF OperationAnswers
  <1>6. CASE OperationFails(t)
    BY <1>1, <1>6, CompleteAttemptRecord DEF OperationFails
  <1>7. CASE Poll(t)
    <2>1. CASE CompleteAttempt(t, response[t], FALSE)
      <3>1. response[t] \in Response \union {NoResponse} /\ response[t].type # "ACK"
        BY <1>1, <1>7 DEF TypeOK, Poll, Control
      <3>2. QED
        BY <1>1, <1>7, <2>1, <3>1, CompleteAttemptRecord DEF Poll
    <2>2. CASE pc' = [pc EXCEPT ![t] = "poll"] /\ UNCHANGED <<attempt_index, attempts, result>>
      BY <1>1, <1>2, <1>7, <2>2 DEF Control, Poll, TypeOK, RecordInv, InStep, ResultMatch,
                                    NoSuccess
    <2>3. QED
      BY <1>7, <2>1, <2>2 DEF Poll
  <1>8. CASE PollAnswers(t)
    <2>1. \A r \in Answers(asked[t]) : r \in Response
      BY DEF Answers
    <2>2. QED
      BY <1>1, <1>3, <1>8, <2>1, CompleteAttemptRecord DEF PollAnswers
  <1>9. CASE PollFails(t)
    <2>1. response[t] \in Response \union {NoResponse}
      BY DEF TypeOK
    <2>2. QED
      BY <1>1, <1>9, <2>1, CompleteAttemptRecord DEF PollFails
  <1>10. CASE RetryDelayEnds(t)
    <2>1. Len(attempts[t]) = attempt_index[t] + 1 /\ NoSuccess(attempts[t])
      BY <1>10 DEF RetryDelayEnds, RecordInv, InStep
    <2>2. attempt_index[t] + 1 \in 0 .. MaxAttempts - 1
      <3>1. attempt_index[t] < MaxAttempts - 1
        BY <1>1, <1>10 DEF RetryDelayEnds, Control
      <3>2. QED
        BY <1>2, <3>1, PolicyAssumption
    <2>3. attempts' = [attempts EXCEPT ![t] = attempts[t]]
      BY <1>10 DEF RetryDelayEnds, TypeOK
    <2>4. QED
      BY <1>2, <1>10, <2>1, <2>2, <2>3, StartAttemptRecord DEF RetryDelayEnds
  <1>11. CASE Cancel(t)
    <2>1. result'[t] = "cancelled" /\ pc'[t] = "done" /\ attempts' = attempts
      BY <1>11 DEF Cancel, End, TypeOK
    <2>2. QED
      BY <1>11, <2>1 DEF Cancel, RecordInv, InStep, ResultMatch, NoSuccess
  <1>12. QED
    BY <1>4, <1>5, <1>6, <1>7, <1>8, <1>9, <1>10, <1>11 DEF TaskStep

(* The record of every transaction is right at all times.                  *)
THEOREM RecordsAreRight == Spec => [](\A t \in Transaction : RecordInv(t))
  <1> DEFINE Inv == \A t \in Transaction : RecordInv(t)
  <1>1. Init => Inv
    BY DEF Init, RecordInv, ResultMatch, NoSuccess, Awaiting
  <1>2. TypeOK /\ ControlInv /\ Inv /\ [Next]_vars => Inv'
    <2> SUFFICES ASSUME TypeOK, ControlInv, Inv, [Next]_vars
                 PROVE  Inv'
      OBVIOUS
    <2>1. ASSUME NEW t \in Transaction, TaskStep(t), NEW u \in Transaction
          PROVE  RecordInv(u)'
      <3>1. CASE u = t
        BY <2>1, <3>1, StepRecord
      <3>2. CASE u # t
        BY <2>1, <3>2, StepFrame
           DEF OthersKeep, RecordInv, InStep, ResultMatch, TakenUnclassified, NoSuccess
      <3>3. QED
        BY <3>1, <3>2
    <2>2. CASE UNCHANGED vars
      BY <2>2 DEF vars, taskVars, RecordInv, InStep, ResultMatch, TakenUnclassified, NoSuccess
    <2>3. QED
      BY <2>1, <2>2 DEF Next, TaskStep
  <1> HIDE DEF Inv
  <1>3. Spec => [](TypeOK /\ ControlInv)
    <2>1. TypeOK /\ ControlInv /\ [Next]_vars => TypeOK' /\ ControlInv'
      BY NextTypes, NextControl
    <2>2. QED
      BY InitTypes, <2>1, PTL DEF Spec
  <1>4. Spec => []Inv
    BY <1>1, <1>2, <1>3, PTL DEF Spec
  <1>5. QED
    BY <1>4 DEF Inv

(* While round i runs, the i rounds before it are on record as failures,   *)
(* whatever late answers, polls and delays there were.                     *)
THEOREM AttemptsAreInStep == Spec => []AttemptsInStep
  <1>1. (\A t \in Transaction : RecordInv(t)) => AttemptsInStep
    BY DEF RecordInv, InStep, NoSuccess, AttemptsInStep, Active
  <1>2. QED
    BY <1>1, RecordsAreRight, PTL

(* The result of execute() agrees with the attempts it reports, but for    *)
(* the success whose answer could not be classified.                       *)
THEOREM ResultsMatchAttempts == Spec => []ResultMatchesAttempts
  <1>1. TypeOK /\ (\A t \in Transaction : RecordInv(t)) => ResultMatchesAttempts
    <2> SUFFICES ASSUME TypeOK, NEW t \in Transaction, RecordInv(t)
                 PROVE  LET last == Len(attempts[t])
                            taken_unclassified ==
                                poll_index[t] = 0 /\ Unclassifiable(response[t])
                        IN  /\ result[t] = "success" =>
                                 /\ last \in 1 .. MaxAttempts
                                 /\ \A i \in 1 .. last :
                                      attempts[t][i].success
                                          <=> i = last /\ ~taken_unclassified
                            /\ result[t] \in {"permanent", "exhausted", "raised", "cancelled"} =>
                                 \A i \in 1 .. last : ~attempts[t][i].success
                            /\ result[t] = "exhausted" => last = MaxAttempts
      BY DEF ResultMatchesAttempts
    <2>1. DOMAIN attempts[t] = 1 .. Len(attempts[t])
      BY DEF TypeOK
    <2>2. QED
      BY <2>1 DEF RecordInv, ResultMatch, TakenUnclassified, NoSuccess
  <1>2. QED
    BY <1>1, RecordsAreRight, TransactionTypes, PTL

-----------------------------------------------------------------------------
(* Late answers.  LateAnswerNeverWins of one transaction.                  *)
DecidedInTime(t) ==
    (result[t] \in {"success", "permanent"} /\ poll_index[t] = 0) =>
        response[t].number \notin allocated[t] \ {current[t]}

(* A round decides the transaction with the answer it ends with, and that  *)
(* answer is in time if no earlier number of the transaction is on it.     *)
LEMMA CompleteAttemptInTime ==
    ASSUME TypeOK, NEW t \in Transaction, result[t] = "none", NEW r, NEW late,
           CompleteAttempt(t, r, late),
           (Outcome(t, r, late) \in {"success", "permanent"} /\ poll_index[t] = 0) =>
               r.number \notin allocated[t] \ {current[t]}
    PROVE  DecidedInTime(t)'
  <1> DEFINE outcome == Outcome(t, r, late)
  <1> HIDE DEF outcome
  <1>1. CASE /\ outcome \in {"success", "permanent"}
             /\ Finish(t, outcome)
             /\ response' = [response EXCEPT ![t] = r]
             /\ UNCHANGED poll_index
    <2>1. /\ response'[t] = r /\ allocated'[t] = allocated[t]
          /\ current'[t] = current[t] /\ poll_index'[t] = poll_index[t]
      BY <1>1 DEF Finish, End, TypeOK
    <2>2. QED
      BY <1>1, <2>1 DEF DecidedInTime, outcome
  <1>2. CASE result'[t] \notin {"success", "permanent"}
    BY <1>2 DEF DecidedInTime
  <1>3. CASE StartAttempt(t, attempt_index[t] + 1, allocated[t])
    BY <1>2, <1>3 DEF StartAttempt, End, TypeOK
  <1>4. QED
    BY <1>1, <1>2, <1>3 DEF CompleteAttempt, Finish, End, TypeOK, outcome

(* Every step of t keeps that.  The answer to a request is compared with   *)
(* the earlier numbers, no answer at all and an ACK_TIMER decide nothing,  *)
(* and after a poll the number of the answer is not restricted.            *)
LEMMA StepInTime ==
    ASSUME TypeOK, ControlInv, NEW t \in Transaction, DecidedInTime(t), TaskStep(t)
    PROVE  DecidedInTime(t)'
  <1> USE DEF Awaiting
  <1>1. Control(t)
    BY DEF ControlInv
  <1>2. ASSUME result'[t] \notin {"success", "permanent"}
        PROVE  DecidedInTime(t)'
    BY <1>2 DEF DecidedInTime
  <1>3. \A r, late : r.type = "ACK_TIMER" => Outcome(t, r, late) \notin {"success", "permanent"}
    BY DEF Outcome, IsPermanentFailure
  <1>4. ASSUME NEW i, NEW mine, StartAttempt(t, i, mine)
        PROVE  DecidedInTime(t)'
    BY <1>2, <1>4 DEF StartAttempt, End, TypeOK
  <1>5. CASE Execute(t)
    BY <1>4, <1>5 DEF Execute
  <1>6. CASE OperationAnswers(t)
    <2>1. result[t] = "none"
      BY <1>1, <1>6 DEF OperationAnswers, Control
    <2>2. CASE result' = result
      BY <1>2, <2>1, <2>2
    <2>3. ASSUME NEW r \in Answers(current[t]), CompleteAttempt(t, r, IsLate(t, r))
          PROVE  DecidedInTime(t)'
      <3>1. Outcome(t, r, IsLate(t, r)) \in {"success", "permanent"} => ~IsLate(t, r)
        BY DEF Outcome
      <3>2. ~IsLate(t, r) => r.number \notin allocated[t] \ {current[t]}
        BY DEF IsLate
      <3>3. QED
        BY <2>1, <2>3, <3>1, <3>2, CompleteAttemptInTime
    <2>4. QED
      BY <1>6, <2>2, <2>3 DEF OperationAnswers
  <1>7. CASE OperationFails(t)
    <2>1. result[t] = "none"
      BY <1>1, <1>7 DEF OperationFails, Control
    <2>2. Outcome(t, NoResponse, FALSE) \notin {"success", "permanent"}
      BY DEF Outcome, IsPermanentFailure, NoResponse
    <2>3. QED
      BY <1>7, <2>1, <2>2, CompleteAttemptInTime DEF OperationFails
  <1>8. CASE Poll(t)
    <2>1. result[t] = "none" /\ response[t].type = "ACK_TIMER"
      BY <1>1, <1>8 DEF Poll, Control
    <2>2. CASE CompleteAttempt(t, response[t], FALSE)
      BY <1>3, <2>1, <2>2, CompleteAttemptInTime
    <2>3. QED
      BY <1>2, <1>8, <2>1, <2>2 DEF Poll
  <1>9. CASE PollAnswers(t)
    <2>1. result[t] = "none" /\ poll_index[t] # 0
      BY <1>1, <1>9 DEF PollAnswers, Control
    <2>2. QED
      BY <1>2, <1>9, <2>1, CompleteAttemptInTime DEF PollAnswers
  <1>10. CASE PollFails(t)
    <2>1. result[t] = "none" /\ poll_index[t] # 0
      BY <1>1, <1>10 DEF PollFails, Control
    <2>2. QED
      BY <1>10, <2>1, CompleteAttemptInTime DEF PollFails
  <1>11. CASE RetryDelayEnds(t)
    BY <1>4, <1>11 DEF RetryDelayEnds
  <1>12. CASE Cancel(t)
    BY <1>2, <1>12 DEF Cancel, End, TypeOK
  <1>13. QED
    BY <1>5, <1>6, <1>7, <1>8, <1>9, <1>10, <1>11, <1>12 DEF TaskStep

(* A late answer to an earlier attempt never decides a transaction, for    *)
(* any number of attempts and polls and whatever the operation answers.    *)
THEOREM LateAnswersNeverWin == Spec => []LateAnswerNeverWins
  <1> DEFINE Inv == \A t \in Transaction : DecidedInTime(t)
  <1>1. Init => Inv
    BY DEF Init, DecidedInTime
  <1>2. TypeOK /\ ControlInv /\ Inv /\ [Next]_vars => Inv'
    <2> SUFFICES ASSUME TypeOK, ControlInv, Inv, [Next]_vars
                 PROVE  Inv'
      OBVIOUS
    <2>1. ASSUME NEW t \in Transaction, TaskStep(t), NEW u \in Transaction
          PROVE  DecidedInTime(u)'
      <3>1. CASE u = t
        BY <2>1, <3>1, StepInTime
      <3>2. CASE u # t
        BY <2>1, <3>2, StepFrame DEF OthersKeep, DecidedInTime
      <3>3. QED
        BY <3>1, <3>2
    <2>2. CASE UNCHANGED vars
      BY <2>2 DEF vars, taskVars, DecidedInTime
    <2>3. QED
      BY <2>1, <2>2 DEF Next, TaskStep
  <1>3. Inv => LateAnswerNeverWins
    BY DEF DecidedInTime, LateAnswerNeverWins
  <1> HIDE DEF Inv
  <1>4. Spec => [](TypeOK /\ ControlInv)
    <2>1. TypeOK /\ ControlInv /\ [Next]_vars => TypeOK' /\ ControlInv'
      BY NextTypes, NextControl
    <2>2. QED
      BY InitTypes, <2>1, PTL DEF Spec
  <1>5. QED
    BY <1>1, <1>2, <1>3, <1>4, PTL DEF Spec
==============================================================================
