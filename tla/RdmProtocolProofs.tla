-------------------------- MODULE RdmProtocolProofs --------------------------
(***************************************************************************)
(* Theorems about the request/response layer, for any number of callers    *)
(* and every size of the number pool.                                      *)
(***************************************************************************)
EXTENDS RdmProtocol, SequencesExt, SequenceTheorems, TLAPS

-----------------------------------------------------------------------------
(* Removing one place keeps the others in their order.                     *)
LEMMA RemoveAtPlaces ==
    ASSUME NEW S, NEW s \in Seq(S), NEW i \in 1 .. Len(s)
    PROVE  /\ RemoveAt(s, i) \in Seq(S)
           /\ Len(RemoveAt(s, i)) = Len(s) - 1
           /\ \A j \in 1 .. Len(s) - 1 :
                 RemoveAt(s, i)[j] = IF j < i THEN s[j] ELSE s[j + 1]
  <1> DEFINE a == SubSeq(s, 1, i - 1)
             b == SubSeq(s, i + 1, Len(s))
  <1>1. /\ a \in Seq(S)
        /\ Len(a) = i - 1
        /\ \A j \in 1 .. i - 1 : a[j] = s[j]
    <2>1. 1 \in Int /\ i - 1 \in Int /\ \A j \in 1 .. i - 1 : s[j] \in S
      OBVIOUS
    <2>2. /\ SubSeq(s, 1, i - 1) \in Seq(S)
          /\ Len(SubSeq(s, 1, i - 1)) = IF 1 <= i - 1 THEN i - 1 - 1 + 1 ELSE 0
          /\ \A j \in 1 .. i - 1 - 1 + 1 : SubSeq(s, 1, i - 1)[j] = s[1 + j - 1]
      BY <2>1, SubSeqProperties
    <2>3. QED
      BY <2>2
  <1>2. /\ b \in Seq(S)
        /\ Len(b) = Len(s) - i
        /\ \A j \in 1 .. Len(s) - i : b[j] = s[i + j]
    <2>1. i + 1 \in Int /\ Len(s) \in Int /\ \A j \in i + 1 .. Len(s) : s[j] \in S
      OBVIOUS
    <2>2. /\ SubSeq(s, i + 1, Len(s)) \in Seq(S)
          /\ Len(SubSeq(s, i + 1, Len(s))) =
                IF i + 1 <= Len(s) THEN Len(s) - (i + 1) + 1 ELSE 0
          /\ \A j \in 1 .. Len(s) - (i + 1) + 1 : SubSeq(s, i + 1, Len(s))[j] = s[i + 1 + j - 1]
      BY <2>1, SubSeqProperties
    <2>3. QED
      BY <2>2
  <1> HIDE DEF a, b
  <1>3. /\ a \o b \in Seq(S)
        /\ Len(a \o b) = Len(s) - 1
        /\ \A j \in 1 .. Len(s) - 1 : (a \o b)[j] = IF j <= i - 1 THEN a[j] ELSE b[j - (i - 1)]
    <2>1. /\ a \o b \in Seq(S)
          /\ Len(a \o b) = Len(a) + Len(b)
          /\ \A j \in 1 .. Len(a) + Len(b) :
                (a \o b)[j] = IF j <= Len(a) THEN a[j] ELSE b[j - Len(a)]
      BY <1>1, <1>2, ConcatProperties
    <2>2. Len(a) = i - 1 /\ Len(a) + Len(b) = Len(s) - 1
      BY <1>1, <1>2
    <2>3. QED
      BY <2>1, <2>2
  <1>4. RemoveAt(s, i) = a \o b
    BY DEF RemoveAt, a, b
  <1>5. ASSUME NEW j \in 1 .. Len(s) - 1
        PROVE  (a \o b)[j] = IF j < i THEN s[j] ELSE s[j + 1]
    <2>1. CASE j < i
      BY <1>1, <1>3, <2>1
    <2>2. CASE ~(j < i)
      <3>1. j - (i - 1) \in 1 .. Len(s) - i /\ ~(j <= i - 1)
        BY <2>2
      <3>2. (a \o b)[j] = b[j - (i - 1)]
        BY <1>3, <3>1
      <3>3. b[j - (i - 1)] = s[i + (j - (i - 1))]
        BY <1>2, <3>1
      <3>4. i + (j - (i - 1)) = j + 1
        BY <2>2
      <3>5. QED
        BY <2>2, <3>2, <3>3, <3>4
    <2>3. QED
      BY <2>1, <2>2
  <1>6. QED
    BY <1>3, <1>4, <1>5

-----------------------------------------------------------------------------
(* The fields of a caller that fit together: between two requests it has   *)
(* none, a command has a future, a branch request has not.                 *)
Shape(c) ==
    /\ pc[c] = "idle" => kind[c] = "none" /\ number[c] = 0 /\ future[c] = "none"
    /\ pc[c] # "idle" => kind[c] # "none" /\ number[c] \in Numbers
    /\ kind[c] = "command" <=> future[c] # "none"

ShapeInv == \A c \in Caller : Shape(c)

-----------------------------------------------------------------------------
(* Type correctness.                                                       *)

(* The end of a request keeps the types.                                   *)
LEMMA DoneTypes ==
    ASSUME TypeOK, NEW c \in Caller, number[c] \in Numbers, Done(c), GiveUp(c) \/ UNCHANGED late,
           handler' \in [Numbers -> Handler], frames' \in Seq({"own", "old"}),
           overdue' \in BOOLEAN
    PROVE  TypeOK'
  BY DEF TypeOK, AllocatorTypeOK, allocatorVars, lifeVars, Done, Returns, GiveUp, Future

(* The numbers a request takes and the place it waits in have their types. *)
LEMMA TakeNumberTypes ==
    ASSUME TypeOK, NEW c \in Caller, NEW n \in Numbers, TakeNumber(c, n)
    PROVE  /\ AllocatorTypeOK'
           /\ owned' \in [Caller -> SUBSET Numbers]
  <1>1. Successor(n) \in Numbers
    BY MaxTxnAssumption DEF Numbers, Successor
  <1>2. QED
    BY <1>1 DEF TakeNumber, Allocate, IsCandidate, TypeOK, AllocatorTypeOK

(* So have the lock, its queue and who waits.                              *)
LEMMA EnterQueueTypes ==
    ASSUME TypeOK, NEW c \in Caller, EnterQueue(c)
    PROVE  /\ queue' \in Seq(Caller)
           /\ lock' \in Caller \union {NoCaller}
           /\ pc' \in [Caller -> {"idle", "queued", "waiting"}]
  <1>1. Append(queue, c) \in Seq(Caller)
    BY AppendProperties DEF TypeOK
  <1>2. QED
    BY <1>1 DEF EnterQueue, Sent, TypeOK

(* Who waits on the wire has a number.                                     *)
LEMMA OnWireNumber ==
    ASSUME ShapeInv, NEW c \in Caller, pc[c] = "waiting"
    PROVE  number[c] \in Numbers
  BY DEF ShapeInv, Shape

(* One step keeps the types.                                               *)
LEMMA NextTypes ==
    ASSUME TypeOK, ShapeInv, [Next]_vars
    PROVE  TypeOK'
  <1> USE DEF Handler, Future, lifeVars
  <1>1. ASSUME NEW c \in Caller, Request(c)
        PROVE  TypeOK'
    <2>1. PICK n \in Numbers :
            /\ TakeNumber(c, n)
            /\ \/ UNCHANGED <<wireVars, requestVars, handler>>
               \/ /\ EnterQueue(c)
                  /\ kind' = [kind EXCEPT ![c] = "command"]
                  /\ number' = [number EXCEPT ![c] = n]
                  /\ future' = [future EXCEPT ![c] = "pending"]
                  /\ handler' = [handler EXCEPT ![n] = "live"]
            /\ UNCHANGED <<lifeVars, late, branchVars>>
      BY <1>1 DEF Request
    <2>2. AllocatorTypeOK' /\ owned' \in [Caller -> SUBSET Numbers]
      BY <2>1, TakeNumberTypes
    <2>3. CASE UNCHANGED <<wireVars, requestVars, handler>>
      BY <2>1, <2>2, <2>3 DEF TypeOK, wireVars, requestVars, branchVars
    <2>4. CASE /\ EnterQueue(c)
               /\ kind' = [kind EXCEPT ![c] = "command"]
               /\ number' = [number EXCEPT ![c] = n]
               /\ future' = [future EXCEPT ![c] = "pending"]
               /\ handler' = [handler EXCEPT ![n] = "live"]
      <3>1. UNCHANGED <<lifeVars, late, frames, overdue>>
        BY <2>1 DEF branchVars
      <3>2. QED
        BY <2>2, <2>4, <3>1, EnterQueueTypes DEF TypeOK
    <2>5. QED
      BY <2>1, <2>3, <2>4
  <1>2. ASSUME NEW c \in Caller, BranchRequest(c)
        PROVE  TypeOK'
    <2>1. PICK n \in Numbers :
            /\ TakeNumber(c, n)
            /\ \/ UNCHANGED <<wireVars, requestVars>>
               \/ /\ EnterQueue(c)
                  /\ kind' = [kind EXCEPT ![c] = "branch"]
                  /\ number' = [number EXCEPT ![c] = n]
                  /\ UNCHANGED future
      BY <1>2 DEF BranchRequest
    <2>2. AllocatorTypeOK' /\ owned' \in [Caller -> SUBSET Numbers]
      BY <2>1, TakeNumberTypes
    <2>3. UNCHANGED <<lifeVars, handler, late, frames, overdue>>
      BY <1>2 DEF BranchRequest, branchVars
    <2>4. CASE UNCHANGED <<wireVars, requestVars>>
      BY <2>2, <2>3, <2>4 DEF TypeOK, wireVars, requestVars
    <2>5. CASE EnterQueue(c)
      BY <2>1, <2>2, <2>3, <2>5, EnterQueueTypes DEF TypeOK, wireVars, requestVars
    <2>6. QED
      BY <2>1, <2>4, <2>5
  <1>3. ASSUME NEW c \in Caller, GetLock(c)
        PROVE  TypeOK'
    <2>1. queue' \in Seq(Caller)
      BY <1>3 DEF GetLock, TypeOK
    <2>2. handler' \in [Numbers -> Handler]
      BY <1>3 DEF GetLock, Unregister, TypeOK
    <2>3. UNCHANGED <<allocatorVars, owned, lifeVars, late, branchVars>>
      BY <1>3 DEF GetLock
    <2>4. CASE Sent(c) /\ UNCHANGED <<kind, number, future, handler>>
      BY <2>1, <2>3, <2>4 DEF Sent, TypeOK, AllocatorTypeOK, allocatorVars, branchVars
    <2>5. CASE Returns(c) /\ UNCHANGED lock
      BY <2>1, <2>2, <2>3, <2>5 DEF Returns, TypeOK, AllocatorTypeOK, allocatorVars, branchVars
    <2>6. QED
      BY <1>3, <2>4, <2>5 DEF GetLock
  <1>4. ASSUME NEW c \in Caller, Wake(c) \/ Timeout(c) \/ CancelWaiting(c)
        PROVE  TypeOK'
    <2>1. handler' \in [Numbers -> Handler]
      BY <1>4 DEF Wake, Timeout, CancelWaiting, Unregister, Abandon, TypeOK
    <2>2. pc[c] = "waiting" /\ Done(c) /\ GiveUp(c) /\ UNCHANGED branchVars
      BY <1>4 DEF Wake, Timeout, CancelWaiting, OnWire
    <2>3. QED
      BY <2>1, <2>2, DoneTypes, OnWireNumber DEF TypeOK, branchVars
  <1>5. ASSUME NEW c \in Caller, CancelQueued(c)
        PROVE  TypeOK'
    <2>1. queue' \in Seq(Caller)
      <3>1. queue \in Seq(Caller)
        BY DEF TypeOK
      <3>2. PICK i \in DOMAIN queue : queue' = RemoveAt(queue, i)
        BY <1>5 DEF CancelQueued
      <3>3. i \in 1 .. Len(queue)
        BY <3>1
      <3>4. QED
        BY <3>1, <3>2, <3>3, RemoveAtPlaces
    <2>2. handler' \in [Numbers -> Handler]
      BY <1>5 DEF CancelQueued, Abandon, TypeOK
    <2>3. QED
      BY <1>5, <2>1, <2>2 DEF CancelQueued, Returns, TypeOK, AllocatorTypeOK, allocatorVars,
                              branchVars
  <1>6. ASSUME NEW c \in Caller, TransactionOver(c)
        PROVE  TypeOK'
    BY <1>6 DEF TransactionOver, ReleaseAll, TypeOK, AllocatorTypeOK, wireVars, requestVars,
                branchVars
  <1>7. ASSUME NEW n, NEW value \in Future, Correlate(n, value), late' \subseteq Numbers
        PROVE  TypeOK'
    <2>1. handler' \in [Numbers -> Handler] /\ future' \in [Caller -> Future]
      BY <1>7 DEF Correlate, TypeOK
    <2>2. QED
      BY <1>7, <2>1 DEF Correlate, TypeOK, AllocatorTypeOK, allocatorVars, wireVars, branchVars
  <1>8. ASSUME NEW c \in Caller, Receive(c)
        PROVE  TypeOK'
    BY <1>7, <1>8 DEF Receive, TypeOK
  <1>9. ASSUME NEW n \in Numbers, ReceiveLate(n)
        PROVE  TypeOK'
    BY <1>7, <1>9 DEF ReceiveLate, TypeOK
  <1>10. ASSUME ReceiveFrame
         PROVE  TypeOK'
    <2>1. frames' \in Seq({"own", "old"}) /\ overdue' \in BOOLEAN
      <3>1. frames \in Seq({"own", "old"}) /\ overdue \in BOOLEAN
        BY DEF TypeOK
      <3>2. Append(frames, "own") \in Seq({"own", "old"})
        BY <3>1, AppendProperties
      <3>3. Append(frames, "old") \in Seq({"own", "old"})
        BY <3>1, AppendProperties
      <3>4. QED
        BY <1>10, <3>1, <3>2, <3>3 DEF ReceiveFrame
    <2>2. QED
      BY <1>10, <2>1 DEF ReceiveFrame, TypeOK, AllocatorTypeOK, allocatorVars, wireVars,
                         requestVars
  <1>11. ASSUME NEW list \in Seq({"own", "old"})
         PROVE  Old(list) \in Seq({"own", "old"})
    <2>1. DOMAIN list = 1 .. Len(list) /\ Len(list) \in Nat
      OBVIOUS
    <2>2. Old(list) \in [1 .. Len(list) -> {"own", "old"}]
      BY <2>1 DEF Old
    <2>3. QED
      BY <2>1, <2>2, IsASeq
  <1>12. ASSUME NEW c \in Caller, BranchWake(c)
         PROVE  TypeOK'
    <2>1. frames' \in Seq({"own", "old"})
      <3>1. frames \in Seq({"own", "old"}) /\ frames # <<>> /\ frames' = Old(Tail(frames))
        BY <1>12 DEF BranchWake, TypeOK
      <3>2. Tail(frames) \in Seq({"own", "old"})
        BY <3>1, HeadTailProperties
      <3>3. QED
        BY <1>11, <3>1, <3>2
    <2>2. overdue' \in BOOLEAN
      BY <1>12 DEF BranchWake, TypeOK
    <2>3. pc[c] = "waiting" /\ Done(c) /\ UNCHANGED <<handler, late>>
      BY <1>12 DEF BranchWake, OnWire
    <2>4. QED
      BY <2>1, <2>2, <2>3, DoneTypes, OnWireNumber DEF TypeOK
  <1>13. ASSUME NEW c \in Caller, BranchFails(c)
         PROVE  TypeOK'
    BY <1>11, <1>13, DoneTypes, OnWireNumber DEF BranchFails, OnWire, TypeOK
  <1>14. ASSUME NEW n \in Numbers, Cleanup(n)
         PROVE  TypeOK'
    BY <1>14 DEF Cleanup, TypeOK, AllocatorTypeOK, allocatorVars, wireVars, requestVars,
                 branchVars
  <1>15. ASSUME NEW s \in Stopper, Stop(s) \/ ReceiveStopped(s) \/ CorrelatorStopped(s)
         PROVE  TypeOK'
    <2> USE DEF TypeOK, AllocatorTypeOK, allocatorVars, wireVars, requestVars, branchVars
    <2>1. CASE Stop(s)
      BY <2>1 DEF Stop
    <2>2. CASE ReceiveStopped(s)
      BY <2>2 DEF ReceiveStopped
    <2>3. CASE CorrelatorStopped(s)
      BY <2>3 DEF CorrelatorStopped
    <2>4. QED
      BY <1>15, <2>1, <2>2, <2>3
  <1>16. CASE Start
    BY <1>16 DEF Start, TypeOK, AllocatorTypeOK, allocatorVars, wireVars, requestVars,
                 branchVars
  <1>17. CASE UNCHANGED vars
    BY <1>17 DEF vars, TypeOK, AllocatorTypeOK, allocatorVars, wireVars, requestVars, branchVars
  <1>18. QED
    BY <1>1, <1>2, <1>3, <1>4, <1>5, <1>6, <1>8, <1>9, <1>10, <1>12, <1>13, <1>14, <1>15,
       <1>16, <1>17
       DEF Next, CallerStep, BranchTimeout, BranchCancelled

-----------------------------------------------------------------------------
(* The queue of the lock and the wire.                                     *)

(* A place is taken out of the queue and its caller stops waiting.         *)
LEMMA QueueShrinks ==
    ASSUME TypeOK, QueueIsExact, NEW c \in Caller, NEW i \in 1 .. Len(queue), queue[i] = c,
           queue' \in Seq(Caller), Len(queue') = Len(queue) - 1,
           \A j \in 1 .. Len(queue) - 1 :
              queue'[j] = IF j < i THEN queue[j] ELSE queue[j + 1],
           NEW p, p # "queued", pc' = [pc EXCEPT ![c] = p]
    PROVE  QueueIsExact'
  <1>1. queue \in Seq(Caller) /\ Len(queue) \in Nat /\ DOMAIN queue = 1 .. Len(queue)
    BY DEF TypeOK
  <1>2. DOMAIN queue' = 1 .. Len(queue) - 1
    BY <1>1
  <1>3. ASSUME NEW j \in 1 .. Len(queue) - 1
        PROVE  queue'[j] # c
    <2>1. j \in DOMAIN queue /\ j + 1 \in DOMAIN queue /\ i \in DOMAIN queue
      BY <1>1
    <2>2. CASE j < i
      BY <2>1, <2>2, <1>1 DEF QueueIsExact
    <2>3. CASE ~(j < i)
      <3>1. j + 1 # i /\ queue'[j] = queue[j + 1]
        BY <2>3
      <3>2. \A x, y \in DOMAIN queue : queue[x] = queue[y] => x = y
        BY DEF QueueIsExact
      <3>3. QED
        BY <2>1, <3>1, <3>2
    <2>4. QED
      BY <2>2, <2>3
  <1>4. ASSUME NEW j \in 1 .. Len(queue) - 1, NEW k \in 1 .. Len(queue) - 1, queue'[j] = queue'[k]
        PROVE  j = k
    <2>1. j \in DOMAIN queue /\ j + 1 \in DOMAIN queue /\ k \in DOMAIN queue
          /\ k + 1 \in DOMAIN queue
      BY <1>1
    <2>2. \A x, y \in DOMAIN queue : queue[x] = queue[y] => x = y
      BY DEF QueueIsExact
    <2>3. queue'[j] = (IF j < i THEN queue[j] ELSE queue[j + 1])
          /\ queue'[k] = (IF k < i THEN queue[k] ELSE queue[k + 1])
      OBVIOUS
    <2>4. CASE j < i /\ k < i
      BY <2>1, <2>2, <2>3, <2>4, <1>4
    <2>5. CASE j < i /\ ~(k < i)
      <3>1. j = k + 1
        BY <2>1, <2>2, <2>3, <2>5, <1>4
      <3>2. QED
        BY <3>1, <2>5
    <2>6. CASE ~(j < i) /\ k < i
      <3>1. j + 1 = k
        BY <2>1, <2>2, <2>3, <2>6, <1>4
      <3>2. QED
        BY <3>1, <2>6
    <2>7. CASE ~(j < i) /\ ~(k < i)
      <3>1. j + 1 = k + 1
        BY <2>1, <2>2, <2>3, <2>7, <1>4
      <3>2. QED
        BY <3>1
    <2>8. QED
      BY <2>4, <2>5, <2>6, <2>7
  <1>5. ASSUME NEW d \in Caller, d # c, NEW j \in DOMAIN queue, queue[j] = d
        PROVE  \E k \in DOMAIN queue' : queue'[k] = d
    <2>1. j # i /\ j \in 1 .. Len(queue)
      BY <1>5, <1>1
    <2>2. CASE j < i
      <3>1. j \in 1 .. Len(queue) - 1 /\ queue'[j] = queue[j]
        BY <2>1, <2>2
      <3>2. QED
        BY <3>1, <1>2, <1>5
    <2>3. CASE ~(j < i)
      <3>1. j - 1 \in 1 .. Len(queue) - 1 /\ ~(j - 1 < i) /\ (j - 1) + 1 = j
        BY <2>1, <2>3
      <3>2. queue'[j - 1] = queue[j]
        BY <3>1
      <3>3. QED
        BY <3>1, <3>2, <1>2, <1>5
    <2>4. QED
      BY <2>2, <2>3
  <1>6. ASSUME NEW d \in Caller, NEW j \in 1 .. Len(queue) - 1, queue'[j] = d
        PROVE  \E k \in DOMAIN queue : queue[k] = d
    BY <1>1, <1>6, SMTT(40)
  <1>7. ASSUME NEW d \in Caller
        PROVE  pc'[d] = "queued" <=> \E j \in DOMAIN queue' : queue'[j] = d
    <2>1. CASE d = c
      BY <2>1, <1>2, <1>3 DEF TypeOK
    <2>2. CASE d # c
      <3>1. pc'[d] = pc[d]
        BY <2>2 DEF TypeOK
      <3>2. QED
        BY <2>2, <3>1, <1>2, <1>5, <1>6 DEF QueueIsExact
    <2>3. QED
      BY <2>1, <2>2
  <1>8. \A j, k \in DOMAIN queue' : queue'[j] = queue'[k] => j = k
    BY <1>2, <1>4
  <1>9. QED
    BY <1>7, <1>8 DEF QueueIsExact

(* A caller that did not wait goes to the end of the queue.                *)
LEMMA QueueGrows ==
    ASSUME TypeOK, QueueIsExact, NEW c \in Caller, pc[c] # "queued",
           queue' = Append(queue, c), pc' = [pc EXCEPT ![c] = "queued"]
    PROVE  QueueIsExact'
  <1>1. queue \in Seq(Caller) /\ Len(queue) \in Nat /\ DOMAIN queue = 1 .. Len(queue)
    BY DEF TypeOK
  <1>2. /\ Len(queue') = Len(queue) + 1 /\ DOMAIN queue' = 1 .. Len(queue) + 1
        /\ \A j \in 1 .. Len(queue) : queue'[j] = queue[j]
        /\ queue'[Len(queue) + 1] = c
    BY <1>1, AppendProperties
  <1>3. \A j \in 1 .. Len(queue) : queue[j] # c
    BY <1>1 DEF QueueIsExact
  <1>4. ASSUME NEW d \in Caller
        PROVE  pc'[d] = "queued" <=> \E j \in DOMAIN queue' : queue'[j] = d
    <2>1. CASE d = c
      <3>1. Len(queue) + 1 \in DOMAIN queue'
        BY <1>1, <1>2
      <3>2. QED
        BY <2>1, <3>1, <1>2 DEF TypeOK
    <2>2. CASE d # c
      <3>1. pc'[d] = pc[d]
        BY <2>2 DEF TypeOK
      <3>2. \A j \in DOMAIN queue' : queue'[j] = d => j \in DOMAIN queue /\ queue[j] = d
        BY <1>1, <1>2, <2>2
      <3>3. \A j \in DOMAIN queue : j \in DOMAIN queue' /\ queue'[j] = queue[j]
        BY <1>1, <1>2
      <3>4. QED
        BY <3>1, <3>2, <3>3 DEF QueueIsExact
    <2>3. QED
      BY <2>1, <2>2
  <1>5. ASSUME NEW j \in DOMAIN queue', NEW k \in DOMAIN queue', queue'[j] = queue'[k]
        PROVE  j = k
    <2>1. /\ j \in 1 .. Len(queue) \/ j = Len(queue) + 1
          /\ k \in 1 .. Len(queue) \/ k = Len(queue) + 1
      BY <1>1, <1>2
    <2>2. QED
      BY <1>1, <1>2, <1>3, <1>5, <2>1 DEF QueueIsExact
  <1>6. QED
    BY <1>4, <1>5 DEF QueueIsExact

(* The queue and who waits in it do not change.                            *)
LEMMA QueueStays ==
    ASSUME QueueIsExact, UNCHANGED queue,
           \A c \in Caller : pc'[c] = "queued" <=> pc[c] = "queued"
    PROVE  QueueIsExact'
  BY DEF QueueIsExact

(* One step keeps the queue exact.                                         *)
LEMMA NextQueue ==
    ASSUME TypeOK, QueueIsExact, [Next]_vars
    PROVE  QueueIsExact'
  <1>1. ASSUME NEW c \in Caller, EnterQueue(c), pc[c] = "idle"
        PROVE  QueueIsExact'
    <2>1. CASE queue' = Append(queue, c) /\ pc' = [pc EXCEPT ![c] = "queued"]
      BY <1>1, <2>1, QueueGrows
    <2>2. CASE Sent(c) /\ UNCHANGED queue
      BY <1>1, <2>2, QueueStays DEF Sent, TypeOK
    <2>3. QED
      BY <1>1, <2>1, <2>2 DEF EnterQueue
  <1>2. ASSUME NEW c \in Caller, Request(c) \/ BranchRequest(c)
        PROVE  QueueIsExact'
    BY <1>1, <1>2, QueueStays DEF Request, BranchRequest, TakeNumber, wireVars, requestVars
  <1>3. ASSUME NEW c \in Caller, GetLock(c)
        PROVE  QueueIsExact'
    <2>1. queue \in Seq(Caller) /\ queue # <<>> /\ Head(queue) = c /\ queue' = Tail(queue)
      BY <1>3 DEF GetLock, TypeOK
    <2>2. /\ queue' \in Seq(Caller) /\ Len(queue') = Len(queue) - 1
          /\ \A j \in 1 .. Len(queue) - 1 : queue'[j] = queue[j + 1]
      BY <2>1, HeadTailProperties
    <2>3. 1 \in 1 .. Len(queue) /\ queue[1] = c
      BY <2>1
    <2>4. \A j \in 1 .. Len(queue) - 1 :
             queue'[j] = IF j < 1 THEN queue[j] ELSE queue[j + 1]
      BY <2>2
    <2>5. \E p \in {"waiting", "idle"} : pc' = [pc EXCEPT ![c] = p]
      BY <1>3 DEF GetLock, Sent, Returns
    <2>6. QED
      BY <2>2, <2>3, <2>4, <2>5, QueueShrinks
  <1>4. ASSUME NEW c \in Caller, CancelQueued(c)
        PROVE  QueueIsExact'
    <2>1. queue \in Seq(Caller)
      BY DEF TypeOK
    <2>2. PICK i \in DOMAIN queue : queue[i] = c /\ queue' = RemoveAt(queue, i)
      BY <1>4 DEF CancelQueued
    <2>3. i \in 1 .. Len(queue)
      BY <2>1
    <2>4. /\ queue' \in Seq(Caller) /\ Len(queue') = Len(queue) - 1
          /\ \A j \in 1 .. Len(queue) - 1 :
                queue'[j] = IF j < i THEN queue[j] ELSE queue[j + 1]
      BY <2>1, <2>2, <2>3, RemoveAtPlaces
    <2>5. pc' = [pc EXCEPT ![c] = "idle"]
      BY <1>4 DEF CancelQueued, Returns
    <2>6. QED
      BY <2>2, <2>3, <2>4, <2>5, QueueShrinks
  <1>5. ASSUME NEW c \in Caller, pc[c] = "waiting", Done(c)
        PROVE  QueueIsExact'
    BY <1>5, QueueStays DEF Done, Returns, TypeOK
  <1>6. CASE UNCHANGED <<queue, pc>>
    BY <1>6, QueueStays
  <1>7. QED
    BY <1>2, <1>3, <1>4, <1>5, <1>6
       DEF Next, CallerStep, Wake, Timeout, CancelWaiting, TransactionOver, Receive, BranchWake,
           BranchTimeout, BranchCancelled, BranchFails, OnWire, ReceiveLate, Correlate, Cleanup,
           ReceiveFrame, Stop, ReceiveStopped, CorrelatorStopped, Start, vars, wireVars,
           requestVars

(* One step keeps the wire with the one who waits for an answer.           *)
LEMMA NextHalfDuplex ==
    ASSUME TypeOK, QueueIsExact, HalfDuplex, [Next]_vars
    PROVE  HalfDuplex'
  <1>1. ASSUME NEW c \in Caller, Sent(c), lock = NoCaller
        PROVE  HalfDuplex'
    BY <1>1, CallerAssumption DEF Sent, TypeOK, HalfDuplex
  <1>2. ASSUME NEW c \in Caller, pc[c] # "waiting", UNCHANGED lock,
               NEW p \in {"idle", "queued"}, pc' = [pc EXCEPT ![c] = p]
        PROVE  HalfDuplex'
    BY <1>2 DEF TypeOK, HalfDuplex
  <1>3. CASE UNCHANGED <<lock, pc>>
    BY <1>3 DEF HalfDuplex
  <1>4. ASSUME NEW c \in Caller, Request(c) \/ BranchRequest(c)
        PROVE  HalfDuplex'
    BY <1>1, <1>2, <1>3, <1>4
       DEF Request, BranchRequest, TakeNumber, EnterQueue, PassQueue, wireVars, requestVars
  <1>5. ASSUME NEW c \in Caller, GetLock(c)
        PROVE  HalfDuplex'
    <2>1. pc[c] # "waiting"
      BY <1>5, CallerAssumption DEF GetLock, HalfDuplex
    <2>2. QED
      BY <1>1, <1>2, <1>5, <2>1 DEF GetLock, Returns
  <1>6. ASSUME NEW c \in Caller, CancelQueued(c)
        PROVE  HalfDuplex'
    BY <1>2, <1>6 DEF CancelQueued, Returns
  <1>7. ASSUME NEW c \in Caller, pc[c] = "waiting", Done(c)
        PROVE  HalfDuplex'
    BY <1>7, CallerAssumption DEF Done, Returns, TypeOK, HalfDuplex
  <1>8. QED
    BY <1>3, <1>4, <1>5, <1>6, <1>7
       DEF Next, CallerStep, Wake, Timeout, CancelWaiting, TransactionOver, Receive, BranchWake,
           BranchTimeout, BranchCancelled, BranchFails, OnWire, ReceiveLate, Correlate, Cleanup,
           ReceiveFrame, Stop, ReceiveStopped, CorrelatorStopped, Start, vars, wireVars,
           requestVars

-----------------------------------------------------------------------------
(* The fields of a request.                                                *)

(* Every step but the start of a request either ends it or leaves its      *)
(* fields alone, except for a future that gets resolved.                   *)
LEMMA ResolvedShape ==
    ASSUME TypeOK, ShapeInv, UNCHANGED <<pc, kind, number>>,
           \A c \in Caller : future'[c] = "none" <=> future[c] = "none"
    PROVE  ShapeInv'
  BY DEF ShapeInv, Shape

(* The end of a request leaves no field behind.                            *)
LEMMA ReturnsShape ==
    ASSUME TypeOK, ShapeInv, NEW c \in Caller, Returns(c)
    PROVE  ShapeInv'
  BY DEF TypeOK, ShapeInv, Shape, Returns

(* One step keeps the fields of a caller together.                         *)
LEMMA NextShape ==
    ASSUME TypeOK, QueueIsExact, ShapeInv, [Next]_vars
    PROVE  ShapeInv'
  <1>1. ASSUME NEW c \in Caller, Request(c) \/ BranchRequest(c)
        PROVE  ShapeInv'
    <2>1. CASE UNCHANGED requestVars
      BY <2>1, ResolvedShape DEF requestVars
    <2>2. CASE ~UNCHANGED requestVars
      <3>1. PICK n \in Numbers :
              /\ EnterQueue(c)
              /\ pc[c] = "idle"
              /\ number' = [number EXCEPT ![c] = n]
              /\ \/ /\ kind' = [kind EXCEPT ![c] = "command"]
                    /\ future' = [future EXCEPT ![c] = "pending"]
                 \/ /\ kind' = [kind EXCEPT ![c] = "branch"]
                    /\ UNCHANGED future
        BY <1>1, <2>2 DEF Request, BranchRequest, TakeNumber
      <3>2. \E p \in {"queued", "waiting"} : pc' = [pc EXCEPT ![c] = p]
        BY <3>1 DEF EnterQueue, Sent
      <3>3. QED
        BY <3>1, <3>2 DEF TypeOK, ShapeInv, Shape
    <2>3. QED
      BY <2>1, <2>2
  <1>2. ASSUME NEW c \in Caller, GetLock(c)
        PROVE  ShapeInv'
    <2>1. CASE Sent(c) /\ UNCHANGED <<kind, number, future, handler>>
      <3>1. pc[c] = "queued"
        <4>1. queue \in Seq(Caller) /\ queue # <<>> /\ Head(queue) = c
          BY <1>2 DEF GetLock, TypeOK
        <4>2. 1 \in DOMAIN queue /\ queue[1] = c
          BY <4>1
        <4>3. QED
          BY <4>2 DEF QueueIsExact
      <3>2. QED
        BY <2>1, <3>1 DEF Sent, TypeOK, ShapeInv, Shape
    <2>2. QED
      BY <1>2, <2>1, ReturnsShape DEF GetLock
  <1>3. ASSUME NEW n, NEW value \in {"answered", "stale"}, Correlate(n, value)
        PROVE  ShapeInv'
    BY <1>3, ResolvedShape DEF Correlate, Registered, TypeOK
  <1>4. ASSUME NEW s \in Stopper, CorrelatorStopped(s)
        PROVE  ShapeInv'
    BY <1>4, ResolvedShape DEF CorrelatorStopped, Registered, TypeOK
  <1>5. CASE UNCHANGED requestVars
    BY <1>5, ResolvedShape DEF requestVars
  <1>6. QED
    BY <1>1, <1>2, <1>3, <1>4, <1>5, ReturnsShape
       DEF Next, CallerStep, Wake, Timeout, CancelWaiting, CancelQueued, TransactionOver, Receive,
           BranchWake, BranchTimeout, BranchCancelled, BranchFails, Done, ReceiveLate, Cleanup,
           ReceiveFrame, Stop, ReceiveStopped, Start, vars

-----------------------------------------------------------------------------
(* Numbers and handlers.                                                   *)

(* One step leaves each number with the caller it belongs to.              *)
LEMMA NextNumbers ==
    ASSUME TypeOK, QueueIsExact, NumbersKept, [Next]_vars
    PROVE  NumbersKept'
  <1>1. ASSUME NEW c \in Caller, NEW n \in Numbers, TakeNumber(c, n),
               \/ UNCHANGED requestVars
               \/ EnterQueue(c) /\ number' = [number EXCEPT ![c] = n]
        PROVE  NumbersKept'
    <2>1. n \notin in_use /\ in_use' = in_use \union {n}
      BY <1>1 DEF TakeNumber, Allocate, IsCandidate
    <2>2. owned' = [owned EXCEPT ![c] = @ \union {n}] /\ pc[c] = "idle"
      BY <1>1 DEF TakeNumber
    <2>3. \A d \in Caller : owned[d] \subseteq in_use
      BY DEF NumbersKept
    <2>4. \A d, e \in Caller : d # e => owned'[d] \intersect owned'[e] = {}
      BY <2>1, <2>2, <2>3 DEF NumbersKept, TypeOK
    <2>5. in_use' = UNION {owned'[d] : d \in Caller}
      <3>1. \A m : m \in in_use' <=> \E d \in Caller : m \in owned'[d]
        BY <2>1, <2>2 DEF NumbersKept, TypeOK
      <3>2. QED
        BY <3>1
    <2>6. \A d \in Busy' : number'[d] \in owned'[d]
      BY <1>1, <2>2 DEF NumbersKept, TypeOK, Busy, EnterQueue, Sent, requestVars
    <2>7. QED
      BY <2>4, <2>5, <2>6 DEF NumbersKept
  <1>2. ASSUME NEW c \in Caller, TransactionOver(c)
        PROVE  NumbersKept'
    <2>1. /\ pc[c] = "idle" /\ in_use' = in_use \ owned[c]
          /\ owned' = [owned EXCEPT ![c] = {}] /\ UNCHANGED <<pc, number>>
      BY <1>2 DEF TransactionOver, ReleaseAll, requestVars
    <2>2. \A d, e \in Caller : d # e => owned'[d] \intersect owned'[e] = {}
      BY <2>1 DEF NumbersKept, TypeOK
    <2>3. in_use' = UNION {owned'[d] : d \in Caller}
      <3>1. \A m : m \in in_use' <=> \E d \in Caller : m \in owned'[d]
        BY <2>1 DEF NumbersKept, TypeOK
      <3>2. QED
        BY <3>1
    <2>4. \A d \in Busy' : number'[d] \in owned'[d]
      BY <2>1 DEF NumbersKept, TypeOK, Busy
    <2>5. QED
      BY <2>2, <2>3, <2>4 DEF NumbersKept
  <1>3. ASSUME UNCHANGED <<in_use, owned>>,
               \A d \in Caller : d \in Busy' => d \in Busy /\ number'[d] = number[d]
        PROVE  NumbersKept'
    BY <1>3 DEF NumbersKept, Busy
  <1>4. ASSUME NEW c \in Caller, Returns(c), UNCHANGED <<in_use, owned>>
        PROVE  NumbersKept'
    BY <1>3, <1>4 DEF Returns, TypeOK, Busy
  <1>5. CASE UNCHANGED <<in_use, owned, pc, number>>
    BY <1>3, <1>5 DEF Busy
  <1>6. ASSUME NEW c \in Caller, Request(c) \/ BranchRequest(c)
        PROVE  NumbersKept'
    BY <1>1, <1>6 DEF Request, BranchRequest
  <1>7. ASSUME NEW c \in Caller, GetLock(c)
        PROVE  NumbersKept'
    <2>1. queue \in Seq(Caller) /\ queue # <<>> /\ Head(queue) = c
      BY <1>7 DEF GetLock, TypeOK
    <2>2. 1 \in DOMAIN queue /\ queue[1] = c
      BY <2>1
    <2>3. c \in Busy /\ UNCHANGED <<in_use, owned>>
      BY <1>7, <2>2 DEF GetLock, QueueIsExact, Busy, allocatorVars
    <2>4. QED
      BY <1>3, <1>4, <1>7, <2>3 DEF GetLock, Sent, TypeOK, Busy
  <1>8. QED
    BY <1>2, <1>4, <1>5, <1>6, <1>7
       DEF Next, CallerStep, Wake, Timeout, CancelWaiting, CancelQueued, Receive, BranchWake,
           BranchTimeout, BranchCancelled, BranchFails, Done, ReceiveLate, Correlate, Cleanup,
           ReceiveFrame, Stop, ReceiveStopped, CorrelatorStopped, Start, vars, requestVars,
           allocatorVars

(* Two requests do not share a number.                                     *)
LEMMA NumbersDiffer ==
    ASSUME NumbersKept, NEW c \in Busy, NEW d \in Busy, number[c] = number[d]
    PROVE  c = d
  BY DEF NumbersKept, Busy

(* Nothing is said of the handler of a request that starts or goes on      *)
(* without being registered.                                               *)
LEMMA ServedStays ==
    ASSUME TypeOK, HandlersServed,
           \A n \in Numbers : handler'[n] = "live" <=> handler[n] = "live",
           \A c \in Caller : \A n \in Numbers : Registered(c, n)' <=> Registered(c, n)
    PROVE  HandlersServed'
  BY DEF HandlersServed

(* A request ends: if it was registered, its handler is not live any more, *)
(* and no other handler is touched.                                        *)
LEMMA ServedReturns ==
    ASSUME TypeOK, NumbersKept, HandlersServed, NEW c \in Caller, c \in Busy, Returns(c),
           \A n \in Numbers : /\ handler'[n] = "live" => handler[n] = "live"
                              /\ handler'[n] = "live" => ~Registered(c, n)
                              /\ number[c] # n => handler'[n] = handler[n]
    PROVE  HandlersServed'
  <1>1. ASSUME NEW d \in Caller, NEW n \in Numbers
        PROVE  Registered(d, n)' <=> d # c /\ Registered(d, n)
    BY DEF Returns, TypeOK, Registered, Busy
  <1>2. ASSUME NEW d \in Caller, NEW n \in Numbers, d # c, Registered(d, n)
        PROVE  number[c] # n
    BY <1>2, NumbersDiffer DEF Registered
  <1>3. ASSUME NEW n \in Numbers
        PROVE  handler'[n] = "live" <=> \E d \in Caller : Registered(d, n)'
    BY <1>1, <1>2 DEF HandlersServed
  <1>4. QED
    BY <1>1, <1>3 DEF HandlersServed

(* One step keeps the live handlers with the requests that wait for them.  *)
LEMMA NextServed ==
    ASSUME TypeOK, QueueIsExact, NumbersKept, HandlersServed, [Next]_vars
    PROVE  HandlersServed'
  <1>1. CASE UNCHANGED <<requestVars, handler>>
    BY <1>1, ServedStays DEF requestVars, Registered, Busy
  <1>2. ASSUME NEW c \in Caller, EnterQueue(c), pc[c] = "idle"
        PROVE  \E p \in {"queued", "waiting"} : pc' = [pc EXCEPT ![c] = p]
    BY <1>2 DEF EnterQueue, Sent
  <1>3. ASSUME NEW c \in Caller, Request(c), ~UNCHANGED <<requestVars, handler>>
        PROVE  HandlersServed'
    <2>1. PICK n \in Numbers :
            /\ pc[c] = "idle" /\ handler[n] = "none" /\ EnterQueue(c)
            /\ kind' = [kind EXCEPT ![c] = "command"]
            /\ number' = [number EXCEPT ![c] = n]
            /\ future' = [future EXCEPT ![c] = "pending"]
            /\ handler' = [handler EXCEPT ![n] = "live"]
      BY <1>3 DEF Request, TakeNumber
    <2>2. ASSUME NEW d \in Caller, NEW m \in Numbers
          PROVE  Registered(d, m)' <=> (d = c /\ m = n) \/ (d # c /\ Registered(d, m))
      BY <1>2, <2>1 DEF TypeOK, Registered, Busy
    <2>3. \A d \in Caller : ~Registered(d, n)
      BY <2>1 DEF HandlersServed
    <2>4. \A m \in Numbers : ~Registered(c, m)
      BY <2>1 DEF Registered, Busy
    <2>5. \A m \in Numbers : handler'[m] = "live" <=> m = n \/ handler[m] = "live"
      BY <2>1 DEF TypeOK
    <2>6. QED
      BY <2>2, <2>3, <2>4, <2>5 DEF HandlersServed
  <1>4. ASSUME NEW c \in Caller, BranchRequest(c), ~UNCHANGED <<requestVars, handler>>
        PROVE  HandlersServed'
    <2>1. PICK n \in Numbers :
            /\ pc[c] = "idle" /\ EnterQueue(c)
            /\ kind' = [kind EXCEPT ![c] = "branch"]
            /\ number' = [number EXCEPT ![c] = n]
            /\ UNCHANGED <<future, handler>>
      BY <1>4 DEF BranchRequest, TakeNumber
    <2>2. \A d \in Caller : \A m \in Numbers : Registered(d, m)' <=> Registered(d, m)
      BY <1>2, <2>1 DEF TypeOK, Registered, Busy
    <2>3. QED
      BY <2>1, <2>2, ServedStays
  <1>5. ASSUME NEW c \in Busy, Returns(c), Unregister(c)
        PROVE  HandlersServed'
    <2>1. c \in Caller
      BY DEF Busy
    <2>2. ASSUME NEW n \in Numbers
          PROVE  /\ handler'[n] = "live" => handler[n] = "live"
                 /\ handler'[n] = "live" => ~Registered(c, n)
                 /\ number[c] # n => handler'[n] = handler[n]
      BY <1>5 DEF Unregister, Registered, TypeOK
    <2>3. QED
      BY <1>5, <2>1, <2>2, ServedReturns
  <1>6. ASSUME NEW c \in Caller, GetLock(c)
        PROVE  HandlersServed'
    <2>1. queue \in Seq(Caller) /\ queue # <<>> /\ Head(queue) = c
      BY <1>6 DEF GetLock, TypeOK
    <2>2. 1 \in DOMAIN queue /\ queue[1] = c
      BY <2>1
    <2>3. c \in Busy
      BY <2>2 DEF QueueIsExact, Busy
    <2>4. CASE Sent(c) /\ UNCHANGED <<kind, number, future, handler>>
      <3>1. \A d \in Caller : \A m \in Numbers : Registered(d, m)' <=> Registered(d, m)
        BY <2>3, <2>4 DEF Sent, TypeOK, Registered, Busy
      <3>2. QED
        BY <2>4, <3>1, ServedStays
    <2>5. CASE Returns(c) /\ Unregister(c)
      BY <1>5, <2>3, <2>5 DEF Unregister
    <2>6. QED
      BY <1>6, <2>4, <2>5 DEF GetLock
  <1>7. ASSUME NEW c \in Caller, Wake(c)
        PROVE  HandlersServed'
    BY <1>7, ServedReturns DEF Wake, OnWire, Done, Busy, Registered, HandlersServed
  <1>8. ASSUME NEW c \in Caller, Timeout(c)
        PROVE  HandlersServed'
    BY <1>5, <1>8 DEF Timeout, OnWire, Done, Busy
  <1>9. ASSUME NEW c \in Busy, NEW what \in {"dead", "orphan"}, Returns(c), Abandon(c, what)
        PROVE  HandlersServed'
    BY <1>9, ServedReturns DEF Abandon, Registered, Busy, TypeOK, HandlersServed
  <1>10. ASSUME NEW c \in Caller, CancelWaiting(c) \/ CancelQueued(c)
         PROVE  HandlersServed'
    BY <1>9, <1>10 DEF CancelWaiting, CancelQueued, OnWire, Done, Busy
  <1>11. ASSUME NEW c \in Caller, OnWire(c, "branch"), Done(c), UNCHANGED handler
         PROVE  HandlersServed'
    BY <1>11, ServedReturns DEF OnWire, Done, Busy, Registered, HandlersServed
  <1>12. ASSUME NEW n \in Numbers, NEW value \in {"answered", "stale"}, Correlate(n, value)
         PROVE  HandlersServed'
    <2>1. ASSUME NEW d \in Caller, NEW m \in Numbers
          PROVE  Registered(d, m)' <=> m # n /\ Registered(d, m)
      <3>1. Registered(d, n) => handler[n] = "live"
        BY DEF HandlersServed
      <3>2. /\ UNCHANGED <<pc, kind, number>>
            /\ future'[d] = IF Registered(d, n) /\ handler[n] = "live" THEN value ELSE future[d]
        BY <1>12 DEF Correlate
      <3>3. QED
        BY <3>1, <3>2 DEF Registered, Busy
    <2>2. \A m \in Numbers : handler'[m] = "live" <=> m # n /\ handler[m] = "live"
      BY <1>12 DEF Correlate, TypeOK
    <2>3. QED
      BY <2>1, <2>2 DEF HandlersServed
  <1>13. ASSUME NEW n \in Numbers, Cleanup(n)
         PROVE  HandlersServed'
    BY <1>13, ServedStays DEF Cleanup, requestVars, Registered, Busy, TypeOK
  <1>14. ASSUME NEW s \in Stopper, CorrelatorStopped(s)
         PROVE  HandlersServed'
    <2>1. \A d \in Caller : \A m \in Numbers : ~Registered(d, m)'
      BY <1>14 DEF CorrelatorStopped, Registered, Busy
    <2>2. \A m \in Numbers : handler'[m] # "live"
      BY <1>14 DEF CorrelatorStopped
    <2>3. QED
      BY <2>1, <2>2 DEF HandlersServed
  <1>15. ASSUME NEW c \in Caller, Receive(c)
         PROVE  HandlersServed'
    <2>1. c \in Busy /\ Registered(c, number[c])
      BY <1>15 DEF Receive, OnWire, Registered, Busy
    <2>2. number[c] \in Numbers
      BY <2>1 DEF NumbersKept, TypeOK, Busy
    <2>3. QED
      BY <1>12, <1>15, <2>2 DEF Receive
  <1>16. ASSUME NEW n \in Numbers, ReceiveLate(n)
         PROVE  HandlersServed'
    BY <1>12, <1>16 DEF ReceiveLate
  <1>17. QED
    BY <1>1, <1>3, <1>4, <1>6, <1>7, <1>8, <1>10, <1>11, <1>13, <1>14, <1>15, <1>16
       DEF Next, CallerStep, TransactionOver, BranchWake, BranchTimeout, BranchCancelled,
           BranchFails, ReceiveFrame, Stop, ReceiveStopped, Start, vars

-----------------------------------------------------------------------------
(* The theorems.                                                           *)

(* The inductive invariant.                                                *)
ProtocolInv ==
    /\ TypeOK
    /\ ShapeInv
    /\ QueueIsExact
    /\ HalfDuplex
    /\ NumbersKept
    /\ HandlersServed

(* It holds at first.                                                      *)
LEMMA InitProtocolInv == Init => ProtocolInv
  <1> SUFFICES ASSUME Init PROVE ProtocolInv
    OBVIOUS
  <1>1. AllocatorTypeOK
    BY MaxTxnAssumption DEF Init, AllocatorInit, AllocatorTypeOK, Numbers
  <1>2. queue \in Seq(Caller) /\ frames \in Seq({"own", "old"}) /\ DOMAIN queue = {}
    BY DEF Init
  <1>3. TypeOK
    BY <1>1, <1>2 DEF Init, TypeOK, Handler, Future
  <1>4. ShapeInv
    BY DEF Init, ShapeInv, Shape
  <1>5. QueueIsExact
    BY <1>2 DEF Init, QueueIsExact
  <1>6. HalfDuplex
    BY CallerAssumption DEF Init, HalfDuplex
  <1>7. NumbersKept
    BY DEF Init, AllocatorInit, NumbersKept, Busy
  <1>8. HandlersServed
    BY DEF Init, HandlersServed, Registered, Busy
  <1>9. QED
    BY <1>3, <1>4, <1>5, <1>6, <1>7, <1>8 DEF ProtocolInv

(* It holds always.                                                        *)
THEOREM ProtocolInvariant == Spec => []ProtocolInv
  <1>1. ProtocolInv /\ [Next]_vars => ProtocolInv'
    BY NextTypes, NextShape, NextQueue, NextHalfDuplex, NextNumbers, NextServed DEF ProtocolInv
  <1>2. QED
    BY <1>1, InitProtocolInv, PTL DEF Spec

(* The variables of the request layer have their types.                    *)
THEOREM ProtocolTypes == Spec => []TypeOK
  BY ProtocolInvariant, PTL DEF ProtocolInv

(* Whoever waits for an answer holds the wire, and nobody else does.       *)
THEOREM WireIsHalfDuplex == Spec => []HalfDuplex
  BY ProtocolInvariant, PTL DEF ProtocolInv

(* Each waiting caller is once in the queue of the lock, and nobody else.  *)
THEOREM LockQueueIsExact == Spec => []QueueIsExact
  BY ProtocolInvariant, PTL DEF ProtocolInv

(* A number stays with its request, whoever else releases numbers.         *)
THEOREM NumbersStay == Spec => []NumbersKept
  BY ProtocolInvariant, PTL DEF ProtocolInv

(* Every request that waits has its own handler under its own number.      *)
THEOREM AnswersFindTheirCaller == Spec => []HandlersServed
  BY ProtocolInvariant, PTL DEF ProtocolInv

(* The wire is given out in the order of the requests, to one at a time:   *)
(* every step of the request layer is one of the lock, or leaves it alone. *)
THEOREM WireIsFair == Spec => WirePromise
  <1>1. Init => Wire!LockInit
    BY DEF Init, Wire!LockInit
  <1>2. ProtocolInv /\ [Next]_vars => [Wire!LockNext]_<<lock, queue>>
    <2> SUFFICES ASSUME ProtocolInv, [Next]_vars
                 PROVE  [Wire!LockNext]_<<lock, queue>>
      OBVIOUS
    <2> USE DEF ProtocolInv
    <2>1. ASSUME NEW c \in Caller, pc[c] = "idle", EnterQueue(c)
          PROVE  Wire!Acquire(c) \/ Wire!Wait(c)
      <3>1. lock # c /\ \A i \in DOMAIN queue : queue[i] # c
        BY <2>1 DEF HalfDuplex, QueueIsExact
      <3>2. QED
        BY <2>1, <3>1
           DEF EnterQueue, PassQueue, Sent, Wire!Acquire, Wire!Wait, Wire!Free
    <2>2. ASSUME NEW c \in Caller, Request(c) \/ BranchRequest(c)
          PROVE  [Wire!LockNext]_<<lock, queue>>
      BY <2>1, <2>2
         DEF Request, BranchRequest, TakeNumber, wireVars, Wire!LockNext
    <2>3. ASSUME NEW c \in Caller, GetLock(c)
          PROVE  Wire!Turn
      BY <2>3 DEF GetLock, Sent, Wire!Turn, Wire!Free
    <2>4. ASSUME NEW c \in Caller, pc[c] = "waiting", Done(c)
          PROVE  Wire!Release
      BY <2>4, CallerAssumption DEF Done, HalfDuplex, Wire!Release, Wire!Free
    <2>5. ASSUME NEW c \in Caller, CancelQueued(c)
          PROVE  Wire!GiveUpWaiting
      <3>1. PICK i \in DOMAIN queue : queue' = RemoveAt(queue, i)
        BY <2>5 DEF CancelQueued
      <3>2. i \in 1 .. Len(queue)
        BY DEF TypeOK
      <3>3. QED
        BY <2>5, <3>1, <3>2 DEF CancelQueued, Wire!GiveUpWaiting, RemoveAt, Wire!RemoveAt
    <2>6. CASE UNCHANGED <<lock, queue>>
      BY <2>6
    <2>7. QED
      BY <2>2, <2>3, <2>4, <2>5, <2>6
         DEF Next, CallerStep, Wake, Timeout, CancelWaiting, TransactionOver, Receive,
             BranchWake, BranchTimeout, BranchCancelled, BranchFails, OnWire, ReceiveLate,
             Correlate, Cleanup, ReceiveFrame, Stop, ReceiveStopped, CorrelatorStopped, Start,
             vars, wireVars, Wire!LockNext
  <1>3. QED
    BY <1>1, <1>2, ProtocolInvariant, PTL DEF Spec, WirePromise, Wire!LockSpec

(* The callers' use of the pool implements the lease of numbers: a number  *)
(* is taken while nobody has it, and given back by the one who has it.     *)
THEOREM CallersKeepLease == Spec => LeasePromise
  <1>1. Init => Lease!LeaseInit
    BY DEF Init, Lease!LeaseInit
  <1>2. ProtocolInv /\ [Next]_vars => [Lease!LeaseNext]_owned
    <2> SUFFICES ASSUME ProtocolInv, [Next]_vars
                 PROVE  [Lease!LeaseNext]_owned
      OBVIOUS
    <2> USE DEF ProtocolInv
    <2>1. ASSUME NEW c \in Caller, NEW n \in Numbers, TakeNumber(c, n)
          PROVE  Lease!Take(c, n)
      BY <2>1 DEF TakeNumber, Allocate, IsCandidate, NumbersKept, Lease!Take
    <2>2. ASSUME NEW c \in Caller, Request(c) \/ BranchRequest(c)
          PROVE  Lease!LeaseNext
      BY <2>1, <2>2 DEF Request, BranchRequest, Lease!LeaseNext
    <2>3. ASSUME NEW c \in Caller, TransactionOver(c)
          PROVE  Lease!LeaseNext
      <3>1. owned[c] \in SUBSET Numbers /\ owned' = [owned EXCEPT ![c] = @ \ owned[c]]
        BY <2>3 DEF TransactionOver, TypeOK
      <3>2. Lease!Return(c, owned[c])
        BY <3>1 DEF Lease!Return
      <3>3. QED
        BY <3>1, <3>2 DEF Lease!LeaseNext
    <2>4. CASE UNCHANGED owned
      BY <2>4
    <2>5. QED
      BY <2>2, <2>3, <2>4
         DEF Next, CallerStep, GetLock, Wake, Timeout, CancelWaiting, CancelQueued, Receive,
             BranchWake, BranchTimeout, BranchCancelled, BranchFails, Done, ReceiveLate,
             Correlate, Cleanup, ReceiveFrame, Stop, ReceiveStopped, CorrelatorStopped, Start,
             vars
  <1>3. QED
    BY <1>1, <1>2, ProtocolInvariant, PTL DEF Spec, LeasePromise, Lease!LeaseSpec

=============================================================================
