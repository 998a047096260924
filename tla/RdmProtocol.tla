---------------------------- MODULE RdmProtocol ----------------------------
(***************************************************************************)
(* The request/response layer of ANSI E1.20                                *)
(* (rdm_dmx_async/protocols/rdm_e120.py and response_correlator.py).       *)
(*                                                                         *)
(* Several asyncio tasks, the callers, send requests over one half-duplex  *)
(* wire.  A caller registers a handler for its transaction number, waits   *)
(* for the wire lock, sends, and waits for the receive loop to resolve its *)
(* future.  DISC_UNIQUE_BRANCH has no handler: its answers go through a    *)
(* queue of their own.  One action is what a task does between two awaits. *)
(***************************************************************************)
EXTENDS TxnAllocator, SequencesExt

CONSTANTS
    Caller,            \* the tasks that send requests
    Discovery,         \* those that run the discovery service: they send
                       \* DISC_UNIQUE_BRANCH too and never release a number
    NoCaller,          \* nobody
    Stopper,           \* the tasks that call stop()
    MaxFrames          \* bound: discovery responses queued at a time

ASSUME CallerAssumption ==
    /\ Discovery \subseteq Caller
    /\ NoCaller \notin Caller
    /\ MaxFrames \in Nat

VARIABLES
    running,           \* _running of the protocol: its receive loop is alive
    cleaning,          \* _running of the correlator: its cleanup loop is alive
    stopping,          \* what a call of stop() awaits: the end of the receive
                       \* "loop", or of the "cleanup" loop; "no" outside stop()
    lock,              \* who holds _wire_lock
    queue,             \* who waits for it; asyncio.Lock is first come, first served
    pc,                \* what a caller awaits: the lock, or the answer
    kind,              \* of its request: "command" (handler) or "branch"
                       \* (discovery queue); "none" between two requests
    number,            \* transaction number of its request, or 0
    owned,             \* numbers the caller has taken from the pool
    future,            \* the future of the request
    handler,           \* _handlers of the correlator, see Handler
    late,              \* numbers of given-up requests that may still be answered
    frames,            \* _discovery_queue: for each response, whether it answers
                       \* the request that waits ("own") or an earlier one ("old")
    overdue            \* a given-up branch request may still be answered

requestVars == <<pc, kind, number, future>>
wireVars == <<lock, queue>>
lifeVars == <<running, cleaning, stopping>>
branchVars == <<frames, overdue>>
vars == <<allocatorVars, owned, lifeVars, wireVars, requestVars, handler, late, branchVars>>

(* The entry of a number in _handlers.  Besides the future of a running    *)
(* request there may be one whose request is over: pending ("orphan") or   *)
(* cancelled ("dead").                                                     *)
Handler == {"none", "live", "orphan", "dead"}

(* A resolved future holds the answer to its own request, or an answer to  *)
(* an earlier request with the same number ("stale").                      *)
Future == {"none", "pending", "answered", "stale", "cancelled"}

Busy == {c \in Caller : pc[c] \in {"queued", "waiting"}}

(* The caller whose request has registered the live handler of n.          *)
Registered(c, n) ==
    c \in Busy /\ kind[c] = "command" /\ number[c] = n /\ future[c] = "pending"

Init ==
    /\ AllocatorInit(1)
    /\ running = TRUE
    /\ cleaning = TRUE
    /\ stopping = [s \in Stopper |-> "no"]
    /\ lock = NoCaller
    /\ queue = <<>>
    /\ pc = [c \in Caller |-> "idle"]
    /\ kind = [c \in Caller |-> "none"]
    /\ number = [c \in Caller |-> 0]
    /\ owned = [c \in Caller |-> {}]
    /\ future = [c \in Caller |-> "none"]
    /\ handler = [n \in Numbers |-> "none"]
    /\ late = {}
    /\ frames = <<>>
    /\ overdue = FALSE

-----------------------------------------------------------------------------
(* The request of c is over: its result or its exception is returned.      *)
Returns(c) ==
    /\ pc' = [pc EXCEPT ![c] = "idle"]
    /\ kind' = [kind EXCEPT ![c] = "none"]
    /\ number' = [number EXCEPT ![c] = 0]
    /\ future' = [future EXCEPT ![c] = "none"]

(* transport.send() queues the packet and the caller waits for the answer. *)
Sent(c) ==
    /\ lock' = c
    /\ pc' = [pc EXCEPT ![c] = "waiting"]

(* Mutant of PassQueue: a newcomer takes a free lock past those who wait.  *)
PassQueueBarging == lock = NoCaller

(* async with _wire_lock: a newcomer passes only if nobody waits.          *)
PassQueue == lock = NoCaller /\ queue = <<>>

EnterQueue(c) ==
    \/ /\ ~PassQueue
       /\ queue' = Append(queue, c)
       /\ pc' = [pc EXCEPT ![c] = "queued"]
       /\ UNCHANGED lock
    \/ /\ PassQueue
       /\ Sent(c)
       /\ UNCHANGED queue

(* The caller has been given number n for a request.                       *)
TakeNumber(c, n) ==
    /\ pc[c] = "idle"
    /\ Allocate(n)
    /\ owned' = [owned EXCEPT ![c] = @ \union {n}]

(* _send_and_receive() up to its first await: it fails because the request *)
(* is not valid or cannot be encoded, because the number already has a     *)
(* handler (CorrelationError), or because the lock is free and             *)
(* transport.send() raises; otherwise the caller waits for the lock or for *)
(* the answer.                                                             *)
Request(c) ==
    \E n \in Numbers :
        /\ TakeNumber(c, n)
        /\ \/ UNCHANGED <<wireVars, requestVars, handler>>
           \/ /\ handler[n] = "none"
              /\ EnterQueue(c)
              /\ kind' = [kind EXCEPT ![c] = "command"]
              /\ number' = [number EXCEPT ![c] = n]
              /\ future' = [future EXCEPT ![c] = "pending"]
              /\ handler' = [handler EXCEPT ![n] = "live"]
        /\ UNCHANGED <<lifeVars, late, branchVars>>

(* send_discovery_command() with DISC_UNIQUE_BRANCH up to its first await; *)
(* encoding or transport.send() may raise.                                 *)
BranchRequest(c) ==
    /\ c \in Discovery
    /\ \E n \in Numbers :
        /\ TakeNumber(c, n)
        /\ \/ UNCHANGED <<wireVars, requestVars>>
           \/ /\ EnterQueue(c)
              /\ kind' = [kind EXCEPT ![c] = "branch"]
              /\ number' = [number EXCEPT ![c] = n]
              /\ UNCHANGED future
    /\ UNCHANGED <<lifeVars, handler, late, branchVars>>

(* _handlers without the handler of the request of c.                      *)
Unregister(c) ==
    handler' = IF kind[c] = "command" THEN [handler EXCEPT ![number[c]] = "none"]
                                      ELSE handler

(* The lock is free and c is the first in line.  If transport.send() then  *)
(* raises, the lock is given back at once.                                 *)
GetLock(c) ==
    /\ lock = NoCaller
    /\ queue # <<>> /\ Head(queue) = c
    /\ queue' = Tail(queue)
    /\ \/ /\ Sent(c)
          /\ UNCHANGED <<kind, number, future, handler>>
       \/ /\ Returns(c)
          /\ Unregister(c)
          /\ UNCHANGED lock
    /\ UNCHANGED <<allocatorVars, owned, lifeVars, late, branchVars>>

-----------------------------------------------------------------------------
(* Mutant of Done: the lock is kept by a request that stop() has cancelled. *)
DoneKeepsLock(c) ==
    /\ lock' = IF future[c] = "cancelled" THEN lock ELSE NoCaller
    /\ Returns(c)
    /\ UNCHANGED <<allocatorVars, owned, lifeVars, queue>>

(* A request on the wire ends: the lock is released.                       *)
Done(c) ==
    /\ lock' = NoCaller
    /\ Returns(c)
    /\ UNCHANGED <<allocatorVars, owned, lifeVars, queue>>

(* Unless its own answer has come, it may still come.                      *)
GiveUp(c) == late' = IF future[c] = "answered" THEN late ELSE late \union {number[c]}

OnWire(c, what) == pc[c] = "waiting" /\ kind[c] = what

(* The future is resolved, or cancelled by stop(); CancelledError passes   *)
(* both except clauses.                                                    *)
Wake(c) ==
    /\ OnWire(c, "command")
    /\ future[c] \in {"answered", "stale", "cancelled"}
    /\ Done(c)
    /\ GiveUp(c)
    /\ UNCHANGED <<handler, branchVars>>

(* asyncio.wait_for ends with TimeoutError; that may happen even when the  *)
(* future has been resolved in the same round of the event loop.           *)
Timeout(c) ==
    /\ OnWire(c, "command")
    /\ Done(c)
    /\ GiveUp(c)
    /\ Unregister(c)
    /\ UNCHANGED branchVars

(* The handler of a cancelled request stays: CancelledError is neither a   *)
(* TimeoutError nor an Exception.                                          *)
Abandon(c, what) ==
    handler' = IF Registered(c, number[c])
               THEN [handler EXCEPT ![number[c]] = what] ELSE handler

(* The task is cancelled, for instance by the policy timeout of the        *)
(* transaction, while it waits for the answer.                             *)
CancelWaiting(c) ==
    /\ OnWire(c, "command")
    /\ Done(c)
    /\ GiveUp(c)
    /\ Abandon(c, "dead")
    /\ UNCHANGED branchVars

(* Mutant of CancelQueued: a cancelled waiter stays in the queue.          *)
CancelQueuedStays(c) ==
    /\ pc[c] = "queued"
    /\ UNCHANGED queue
    /\ Returns(c)
    /\ Abandon(c, "orphan")
    /\ UNCHANGED <<allocatorVars, owned, lifeVars, lock, late, branchVars>>

(* The task is cancelled while it waits for the lock: nothing was sent.    *)
CancelQueued(c) ==
    /\ pc[c] = "queued"
    /\ \E i \in DOMAIN queue : queue[i] = c /\ queue' = RemoveAt(queue, i)
    /\ Returns(c)
    /\ Abandon(c, "orphan")
    /\ UNCHANGED <<allocatorVars, owned, lifeVars, lock, late, branchVars>>

(* execute() of a transaction releases the numbers of all its requests.    *)
TransactionOver(c) ==
    /\ c \notin Discovery
    /\ pc[c] = "idle" /\ owned[c] # {}
    /\ ReleaseAll(owned[c])
    /\ owned' = [owned EXCEPT ![c] = {}]
    /\ UNCHANGED <<lifeVars, wireVars, requestVars, handler, late, branchVars>>

-----------------------------------------------------------------------------
(* correlate_response() with a response numbered n.                        *)
Correlate(n, value) ==
    /\ future' = [c \in Caller |-> IF Registered(c, n) /\ handler[n] = "live"
                                   THEN value ELSE future[c]]
    /\ handler' = [handler EXCEPT ![n] = IF @ \in {"live", "orphan"} THEN "none" ELSE @]
    /\ UNCHANGED <<allocatorVars, owned, lifeVars, wireVars, pc, kind, number, branchVars>>

(* The receive loop gets the answer to the request on the wire.            *)
Receive(c) ==
    /\ running
    /\ OnWire(c, "command") /\ future[c] = "pending"
    /\ Correlate(number[c], "answered")
    /\ UNCHANGED late

(* The receive loop gets the answer to a request that was given up.        *)
ReceiveLate(n) ==
    /\ running
    /\ n \in late
    /\ late' = late \ {n}
    /\ Correlate(n, "stale")

(* The receive loop gets a discovery response: one to the branch request   *)
(* on the wire (a collision may be read as several), or an overdue one.    *)
ReceiveFrame ==
    /\ running
    /\ Len(frames) < MaxFrames
    /\ \/ /\ \E c \in Caller : OnWire(c, "branch")
          /\ frames' = Append(frames, "own")
          /\ UNCHANGED overdue
       \/ /\ overdue
          /\ frames' = Append(frames, "old")
          /\ overdue' = FALSE
    /\ UNCHANGED <<allocatorVars, owned, lifeVars, wireVars, requestVars, handler, late>>

(* The branch request takes the first response in the queue, whichever     *)
(* request it answers; what is left answers an earlier one from now on.    *)
Old(list) == [i \in DOMAIN list |-> "old"]

BranchWake(c) ==
    /\ OnWire(c, "branch")
    /\ frames # <<>>
    /\ Done(c)
    /\ frames' = Old(Tail(frames))
    /\ overdue' = (overdue \/ Head(frames) = "old")
    /\ UNCHANGED <<handler, late>>

(* The branch request is given up.                                         *)
BranchFails(c) ==
    /\ OnWire(c, "branch")
    /\ Done(c)
    /\ frames' = Old(frames)
    /\ overdue' = TRUE
    /\ UNCHANGED <<handler, late>>

(* A response in the queue from before is taken at once; one that comes    *)
(* together with the timeout stays in the queue.                           *)
BranchTimeout(c) ==
    /\ frames # <<>> => Head(frames) = "own"
    /\ BranchFails(c)

BranchCancelled(c) == BranchFails(c)

-----------------------------------------------------------------------------
(* Mutant of Cleanup: the age of the handler is not looked at.             *)
CleanupAll(n) ==
    /\ cleaning
    /\ handler[n] # "none"
    /\ handler' = [handler EXCEPT ![n] = "none"]
    /\ UNCHANGED <<allocatorVars, owned, lifeVars, wireVars, requestVars, late, branchVars>>

(* Mutant of Cleanup: only a pending future is cleaned up.                 *)
CleanupPending(n) ==
    /\ cleaning
    /\ handler[n] = "orphan"
    /\ handler' = [handler EXCEPT ![n] = "none"]
    /\ UNCHANGED <<allocatorVars, owned, lifeVars, wireVars, requestVars, late, branchVars>>

(* _cleanup_stale_handlers(), every 10 seconds: handlers older than 30     *)
(* seconds go.  A running request is younger: it waits for its answer for  *)
(* 2 seconds, and a transaction cuts it off after 3 seconds in all.        *)
Cleanup(n) ==
    /\ cleaning
    /\ handler[n] \in {"orphan", "dead"}
    /\ handler' = [handler EXCEPT ![n] = "none"]
    /\ UNCHANGED <<allocatorVars, owned, lifeVars, wireVars, requestVars, late, branchVars>>

(* stop() up to its first await: the receive loop is cancelled, no answer  *)
(* comes in any more.                                                      *)
Stop(s) ==
    /\ running
    /\ stopping[s] = "no"
    /\ running' = FALSE
    /\ stopping' = [stopping EXCEPT ![s] = "loop"]
    /\ UNCHANGED <<allocatorVars, owned, cleaning, wireVars, requestVars, handler, late,
                   branchVars>>

(* The receive loop has ended: correlator.stop() cancels the cleanup loop  *)
(* and awaits its end, or returns at once if it has been called before.    *)
(* A start() may have come since: then the cleanup loop it relies on goes. *)
ReceiveStopped(s) ==
    /\ stopping[s] = "loop"
    /\ stopping' = [stopping EXCEPT ![s] = IF cleaning THEN "cleanup" ELSE "no"]
    /\ cleaning' = FALSE
    /\ UNCHANGED <<allocatorVars, owned, running, wireVars, requestVars, handler, late,
                   branchVars>>

(* The cleanup loop has ended: every pending future is cancelled, those of *)
(* requests sent since then too.  The callers are not told otherwise, and  *)
(* new requests are not refused.                                           *)
CorrelatorStopped(s) ==
    /\ stopping[s] = "cleanup"
    /\ stopping' = [stopping EXCEPT ![s] = "no"]
    /\ future' = [c \in Caller |-> IF Registered(c, number[c]) THEN "cancelled" ELSE future[c]]
    /\ handler' = [n \in Numbers |-> "none"]
    /\ UNCHANGED <<allocatorVars, owned, running, cleaning, wireVars, pc, kind, number, late,
                   branchVars>>

(* start() has no await of its own; correlator.start() starts a cleanup    *)
(* loop unless the correlator still runs.                                  *)
Start ==
    /\ ~running
    /\ running' = TRUE
    /\ cleaning' = TRUE
    /\ UNCHANGED <<allocatorVars, owned, stopping, wireVars, requestVars, handler, late,
                   branchVars>>

CallerStep(c) ==
    \/ Request(c)
    \/ BranchRequest(c)
    \/ GetLock(c)
    \/ Wake(c)
    \/ Timeout(c)
    \/ CancelWaiting(c)
    \/ CancelQueued(c)
    \/ TransactionOver(c)
    \/ Receive(c)
    \/ BranchWake(c)
    \/ BranchTimeout(c)
    \/ BranchCancelled(c)

Next ==
    \/ \E c \in Caller : CallerStep(c)
    \/ \E n \in Numbers : ReceiveLate(n) \/ Cleanup(n)
    \/ ReceiveFrame
    \/ \E s \in Stopper : Stop(s) \/ ReceiveStopped(s) \/ CorrelatorStopped(s)
    \/ Start

(* The event loop runs the task whose lock is free or whose future is      *)
(* resolved; timers fire; the cleanup loop runs as long as it is alive.    *)
(* Nothing is assumed of those who call stop() and start().                *)
Fairness ==
    /\ \A c \in Caller : /\ WF_vars(GetLock(c))
                         /\ WF_vars(Wake(c))
                         /\ WF_vars(Timeout(c))
                         /\ WF_vars(BranchWake(c))
                         /\ WF_vars(BranchTimeout(c))
    /\ \A n \in Numbers : WF_vars(Cleanup(n))

Spec == Init /\ [][Next]_vars

FairSpec == Spec /\ Fairness

-----------------------------------------------------------------------------
(* Properties.                                                             *)

TypeOK ==
    /\ AllocatorTypeOK
    /\ running \in BOOLEAN
    /\ cleaning \in BOOLEAN
    /\ stopping \in [Stopper -> {"no", "loop", "cleanup"}]
    /\ lock \in Caller \union {NoCaller}
    /\ queue \in Seq(Caller)
    /\ pc \in [Caller -> {"idle", "queued", "waiting"}]
    /\ kind \in [Caller -> {"none", "command", "branch"}]
    /\ number \in [Caller -> Numbers \union {0}]
    /\ owned \in [Caller -> SUBSET Numbers]
    /\ future \in [Caller -> Future]
    /\ handler \in [Numbers -> Handler]
    /\ late \subseteq Numbers
    /\ frames \in Seq({"own", "old"})
    /\ overdue \in BOOLEAN

(* Half-duplex: whoever waits for an answer holds the wire, and nobody     *)
(* else does, so that one request at most is outstanding; the lock is      *)
(* never left held by a request that is over, however it ended.            *)
HalfDuplex == \A c \in Caller : pc[c] = "waiting" <=> lock = c

(* The queue of the lock holds each waiting caller once and nobody else:   *)
(* a cancelled waiter does not block those behind it.                      *)
QueueIsExact ==
    /\ \A c \in Caller : pc[c] = "queued" <=> \E i \in DOMAIN queue : queue[i] = c
    /\ \A i, j \in DOMAIN queue : queue[i] = queue[j] => i = j

(* A caller with an unresolved future has its own handler under its own    *)
(* number, and no handler is taken for live without such a caller.  So     *)
(* every answer that comes in time finds its caller, and no cleanup, time- *)
(* out, cancellation or restart of another request takes the handler away. *)
HandlersServed ==
    \A n \in Numbers :
        /\ handler[n] = "live" <=> \E c \in Caller : Registered(c, n)
        /\ \A c, d \in Caller : Registered(c, n) /\ Registered(d, n) => c = d

(* A request number belongs to the request from the first registration to  *)
(* the end: nobody else may be given it, not even by a release.            *)
NumbersKept ==
    /\ \A c \in Busy : number[c] \in owned[c]
    /\ \A c, d \in Caller : c # d => owned[c] \intersect owned[d] = {}
    /\ in_use = UNION {owned[c] : c \in Caller}

(* The wire is given out in the order of the requests, to one at a time,   *)
(* and given back by every request that had it; a caller that has asked    *)
(* for it is served or gives up, and loses its place to nobody.            *)
Wire == INSTANCE WireLock WITH Task <- Caller, Nobody <- NoCaller

WirePromise == Wire!LockSpec

(* Two callers never have the same transaction number, and a caller gives  *)
(* back only numbers it has.                                               *)
Lease == INSTANCE NumberLease WITH Holder <- Caller, Number <- Numbers, lease <- owned

LeasePromise == Lease!LeaseSpec

(* Every request ends, whatever the devices do.                            *)
EveryRequestEnds == \A c \in Caller : pc[c] # "idle" ~> pc[c] = "idle"

(* A handler that a cancelled request has left behind goes in the end, as  *)
(* long as the cleanup loop is alive.  It is not from stop() to the next   *)
(* start(), and neither in a protocol whose start() has come between the   *)
(* two awaits of a stop(), which runs without a cleanup until it is        *)
(* stopped and started again.                                              *)
LeftoversGo ==
    \A n \in Numbers :
        handler[n] \in {"orphan", "dead"} ~> (handler[n] \notin {"orphan", "dead"} \/ ~cleaning)

=============================================================================
