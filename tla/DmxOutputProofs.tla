--------------------------- MODULE DmxOutputProofs ---------------------------
(***************************************************************************)
(* Theorems about DMX output next to RDM exchanges, for any number of      *)
(* senders and requesters and every size of the transmit queue.            *)
(***************************************************************************)
EXTENDS DmxOutput, SequencesExt, SequenceTheorems, TLAPS

-----------------------------------------------------------------------------
(* Facts about a queue in which each element waits at most once: the       *)
(* waiters of asyncio.Lock.                                                *)

(* Removing one place keeps the others in their order.                     *)
LEMMA RemoveAtPlaces ==
    ASSUME NEW S, NEW s \in Seq(S), NEW i \in 1 .. Len(s)
    PROVE  /\ RemoveAt(s, i) \in Seq(S)
           /\ Len(RemoveAt(s, i)) = Len(s) - 1
           /\ \A j \in 1 .. Len(s) - 1 :
                 RemoveAt(s, i)[j] = IF j < i THEN s[j] ELSE s[j + 1]
  <1> DEFINE a == SubSeq(s, 1, i - 1)
             b == SubSeq(s, i + 1, Len(s))
  <1>1. /\ a \in Seq(S)
        /\ Len(a) = i - 1
        /\ \A j \in 1 .. i - 1 : a[j] = s[j]
    <2>1. 1 \in Int /\ i - 1 \in Int /\ \A j \in 1 .. i - 1 : s[j] \in S
      OBVIOUS
    <2>2. /\ SubSeq(s, 1, i - 1) \in Seq(S)
          /\ Len(SubSeq(s, 1, i - 1)) = IF 1 <= i - 1 THEN i - 1 - 1 + 1 ELSE 0
          /\ \A j \in 1 .. i - 1 - 1 + 1 : SubSeq(s, 1, i - 1)[j] = s[1 + j - 1]
      BY <2>1, SubSeqProperties
    <2>3. QED
      BY <2>2
  <1>2. /\ b \in Seq(S)
        /\ Len(b) = Len(s) - i
        /\ \A j \in 1 .. Len(s) - i : b[j] = s[i + j]
    <2>1. i + 1 \in Int /\ Len(s) \in Int /\ \A j \in i + 1 .. Len(s) : s[j] \in S
      OBVIOUS
    <2>2. /\ SubSeq(s, i + 1, Len(s)) \in Seq(S)
          /\ Len(SubSeq(s, i + 1, Len(s))) =
                IF i + 1 <= Len(s) THEN Len(s) - (i + 1) + 1 ELSE 0
          /\ \A j \in 1 .. Len(s) - (i + 1) + 1 : SubSeq(s, i + 1, Len(s))[j] = s[i + 1 + j - 1]
      BY <2>1, SubSeqProperties
    <2>3. QED
      BY <2>2
  <1> HIDE DEF a, b
  <1>3. /\ a \o b \in Seq(S)
        /\ Len(a \o b) = Len(s) - 1
        /\ \A j \in 1 .. Len(s) - 1 : (a \o b)[j] = IF j <= i - 1 THEN a[j] ELSE b[j - (i - 1)]
    <2>1. /\ a \o b \in Seq(S)
          /\ Len(a \o b) = Len(a) + Len(b)
          /\ \A j \in 1 .. Len(a) + Len(b) :
                (a \o b)[j] = IF j <= Len(a) THEN a[j] ELSE b[j - Len(a)]
      BY <1>1, <1>2, ConcatProperties
    <2>2. Len(a) = i - 1 /\ Len(a) + Len(b) = Len(s) - 1
      BY <1>1, <1>2
    <2>3. QED
      BY <2>1, <2>2
  <1>4. RemoveAt(s, i) = a \o b
    BY DEF RemoveAt, a, b
  <1>5. ASSUME NEW j \in 1 .. Len(s) - 1
        PROVE  (a \o b)[j] = IF j < i THEN s[j] ELSE s[j + 1]
    <2>1. CASE j < i
      BY <1>1, <1>3, <2>1
    <2>2. CASE ~(j < i)
      <3>1. j - (i - 1) \in 1 .. Len(s) - i /\ ~(j <= i - 1)
        BY <2>2
      <3>2. (a \o b)[j] = b[j - (i - 1)]
        BY <1>3, <3>1
      <3>3. b[j - (i - 1)] = s[i + (j - (i - 1))]
        BY <1>2, <3>1
      <3>4. i + (j - (i - 1)) = j + 1
        BY <2>2
      <3>5. QED
        BY <2>2, <3>2, <3>3, <3>4
    <2>3. QED
      BY <2>1, <2>2
  <1>6. QED
    BY <1>3, <1>4, <1>5

(* Who is in a queue.                                                      *)
LEMMA InQueue ==
    ASSUME NEW S, NEW q \in Seq(S)
    PROVE  \A x : x \in ToSet(q) <=> \E i \in 1 .. Len(q) : q[i] = x
  <1>1. DOMAIN q = 1 .. Len(q)
    OBVIOUS
  <1>2. QED
    BY <1>1 DEF ToSet

(* A newcomer joins at the end.                                            *)
LEMMA JoinQueue ==
    ASSUME NEW S, NEW q \in Seq(S), IsInjective(q), NEW c \in S, c \notin ToSet(q)
    PROVE  /\ Append(q, c) \in Seq(S)
           /\ ToSet(Append(q, c)) = ToSet(q) \union {c}
           /\ IsInjective(Append(q, c))
  <1> DEFINE p == Append(q, c)
  <1>1. /\ p \in Seq(S) /\ Len(p) = Len(q) + 1
        /\ \A i \in 1 .. Len(q) : p[i] = q[i]
        /\ p[Len(q) + 1] = c
    BY AppendProperties
  <1>2. Len(q) \in Nat /\ DOMAIN q = 1 .. Len(q) /\ DOMAIN p = 1 .. Len(q) + 1
    BY <1>1
  <1> HIDE DEF p
  <1>3. \A i \in 1 .. Len(q) : q[i] # c
    BY InQueue
  <1>4. \A x : x \in ToSet(p) <=> x \in ToSet(q) \union {c}
    <2>1. \A x : x \in ToSet(p) <=> \E i \in 1 .. Len(q) + 1 : p[i] = x
      BY <1>1, InQueue
    <2>2. \A x : x \in ToSet(q) <=> \E i \in 1 .. Len(q) : q[i] = x
      BY InQueue
    <2>3. ASSUME NEW x, x \in ToSet(p) PROVE x \in ToSet(q) \union {c}
      <3>1. PICK i \in 1 .. Len(q) + 1 : p[i] = x
        BY <2>1, <2>3
      <3>2. i \in 1 .. Len(q) \/ i = Len(q) + 1
        BY <1>2
      <3>3. QED
        BY <1>1, <2>2, <3>1, <3>2
    <2>4. ASSUME NEW x, x \in ToSet(q) PROVE x \in ToSet(p)
      <3>1. PICK i \in 1 .. Len(q) : q[i] = x
        BY <2>2, <2>4
      <3>2. i \in 1 .. Len(q) + 1
        BY <1>2
      <3>3. QED
        BY <1>1, <2>1, <3>1, <3>2
    <2>5. c \in ToSet(p)
      <3>1. Len(q) + 1 \in 1 .. Len(q) + 1
        BY <1>2
      <3>2. QED
        BY <1>1, <2>1, <3>1
    <2>6. QED
      BY <2>3, <2>4, <2>5
  <1>5. IsInjective(p)
    <2> SUFFICES ASSUME NEW i \in 1 .. Len(q) + 1, NEW j \in 1 .. Len(q) + 1, p[i] = p[j]
                 PROVE  i = j
      BY <1>2 DEF IsInjective
    <2>1. CASE i \in 1 .. Len(q) /\ j \in 1 .. Len(q)
      BY <1>1, <1>2, <2>1 DEF IsInjective
    <2>2. CASE i = Len(q) + 1 /\ j \in 1 .. Len(q)
      BY <1>1, <1>3, <2>2
    <2>3. CASE i \in 1 .. Len(q) /\ j = Len(q) + 1
      BY <1>1, <1>3, <2>3
    <2>4. QED
      BY <1>2, <2>1, <2>2, <2>3
  <1>6. QED
    BY <1>1, <1>4, <1>5 DEF p

(* One leaves, from whatever place.                                        *)
LEMMA LeaveQueue ==
    ASSUME NEW S, NEW q \in Seq(S), IsInjective(q), NEW k \in 1 .. Len(q), NEW p \in Seq(S),
           Len(p) = Len(q) - 1,
           \A j \in 1 .. Len(q) - 1 : p[j] = IF j < k THEN q[j] ELSE q[j + 1]
    PROVE  /\ ToSet(p) = ToSet(q) \ {q[k]}
           /\ IsInjective(p)
  <1>1. Len(q) \in Nat /\ DOMAIN q = 1 .. Len(q) /\ DOMAIN p = 1 .. Len(q) - 1
    OBVIOUS
  <1>2. \A i, j \in 1 .. Len(q) : q[i] = q[j] => i = j
    BY <1>1 DEF IsInjective
  <1> DEFINE Place(j) == IF j < k THEN j ELSE j + 1
  <1>3. \A j \in 1 .. Len(q) - 1 : /\ p[j] = q[Place(j)]
                                  /\ Place(j) \in 1 .. Len(q)
                                  /\ Place(j) # k
    BY <1>1
  <1>4. \A i, j \in 1 .. Len(q) - 1 : Place(i) = Place(j) => i = j
    BY <1>1
  <1>5. \A i \in 1 .. Len(q) : i # k => \E j \in 1 .. Len(q) - 1 : Place(j) = i
    <2> SUFFICES ASSUME NEW i \in 1 .. Len(q), i # k
                 PROVE  \E j \in 1 .. Len(q) - 1 : Place(j) = i
      OBVIOUS
    <2>1. CASE i < k
      <3>1. i \in 1 .. Len(q) - 1 /\ Place(i) = i
        BY <1>1, <2>1
      <3>2. QED
        BY <3>1
    <2>2. CASE i > k
      <3>1. i - 1 \in 1 .. Len(q) - 1 /\ Place(i - 1) = i
        BY <1>1, <2>2
      <3>2. QED
        BY <3>1
    <2>3. QED
      BY <1>1, <2>1, <2>2
  <1> HIDE DEF Place
  <1>6. \A x : x \in ToSet(p) <=> \E i \in 1 .. Len(q) - 1 : p[i] = x
    BY InQueue
  <1>7. \A x : x \in ToSet(q) <=> \E i \in 1 .. Len(q) : q[i] = x
    BY InQueue
  <1>8. ASSUME NEW x, x \in ToSet(p) PROVE x \in ToSet(q) /\ x # q[k]
    <2>1. PICK j \in 1 .. Len(q) - 1 : p[j] = x
      BY <1>6, <1>8
    <2>2. x = q[Place(j)] /\ Place(j) \in 1 .. Len(q) /\ Place(j) # k
      BY <1>3, <2>1
    <2>3. QED
      BY <1>2, <1>7, <2>2
  <1>9. ASSUME NEW x, x \in ToSet(q), x # q[k] PROVE x \in ToSet(p)
    <2>1. PICK i \in 1 .. Len(q) : q[i] = x
      BY <1>7, <1>9
    <2>2. PICK j \in 1 .. Len(q) - 1 : Place(j) = i
      BY <1>5, <1>9, <2>1
    <2>3. p[j] = x
      BY <1>3, <2>1, <2>2
    <2>4. QED
      BY <1>6, <2>3
  <1>10. IsInjective(p)
    <2> SUFFICES ASSUME NEW i \in 1 .. Len(q) - 1, NEW j \in 1 .. Len(q) - 1, p[i] = p[j]
                 PROVE  i = j
      BY <1>1 DEF IsInjective
    <2>1. q[Place(i)] = q[Place(j)]
      BY <1>3
    <2>2. Place(i) = Place(j)
      BY <1>2, <1>3, <2>1
    <2>3. QED
      BY <1>4, <2>2
  <1>11. QED
    BY <1>8, <1>9, <1>10

(* The first in line has its turn.                                         *)
LEMMA HeadLeaves ==
    ASSUME NEW S, NEW q \in Seq(S), IsInjective(q), q # <<>>
    PROVE  /\ Head(q) \in ToSet(q)
           /\ Tail(q) \in Seq(S)
           /\ ToSet(Tail(q)) = ToSet(q) \ {Head(q)}
           /\ IsInjective(Tail(q))
  <1>1. /\ Tail(q) \in Seq(S) /\ Len(Tail(q)) = Len(q) - 1
        /\ \A i \in 1 .. Len(Tail(q)) : Tail(q)[i] = q[i + 1]
    BY HeadTailProperties
  <1>2. 1 \in 1 .. Len(q) /\ Head(q) = q[1]
    OBVIOUS
  <1>3. \A j \in 1 .. Len(q) - 1 : Tail(q)[j] = IF j < 1 THEN q[j] ELSE q[j + 1]
    BY <1>1
  <1>4. ToSet(Tail(q)) = ToSet(q) \ {q[1]} /\ IsInjective(Tail(q))
    BY <1>1, <1>2, <1>3, LeaveQueue
  <1>5. QED
    BY <1>1, <1>2, <1>4, InQueue

(* One that is in the queue is taken out of it.                            *)
LEMMA RemovedFromQueue ==
    ASSUME NEW S, NEW q \in Seq(S), IsInjective(q), NEW k \in DOMAIN q
    PROVE  /\ RemoveAt(q, k) \in Seq(S)
           /\ ToSet(RemoveAt(q, k)) = ToSet(q) \ {q[k]}
           /\ IsInjective(RemoveAt(q, k))
  <1>1. k \in 1 .. Len(q)
    OBVIOUS
  <1>2. /\ RemoveAt(q, k) \in Seq(S) /\ Len(RemoveAt(q, k)) = Len(q) - 1
        /\ \A j \in 1 .. Len(q) - 1 : RemoveAt(q, k)[j] = IF j < k THEN q[j] ELSE q[j + 1]
    BY <1>1, RemoveAtPlaces
  <1>3. QED
    BY <1>1, <1>2, LeaveQueue, SMTT(40)

-----------------------------------------------------------------------------
(* The invariants.                                                         *)

(* Who waits has a frame to send, and senders run no exchange.             *)
ShapeInv ==
    /\ \A s \in Sender : pc[s] # "waiting" /\ (pc[s] # "idle" => data[s] \in Frame)
    /\ loop = "queued" => snapshot \in Frame

(* PauseIsOwned is inductive only because a pause begins after the one     *)
(* before has ended.                                                       *)
PauseInv == PauseIsOwned /\ ~(pause = "sleeping" /\ ending)

Waiting ==
    {u \in User : pc[u] = "queued"} \union (IF loop = "queued" THEN {Loop} ELSE {})

-----------------------------------------------------------------------------
(* The two queues.                                                         *)

(* A newcomer is last in the queue of the lock.                            *)
LEMMA JoinExact ==
    ASSUME TypeOK, QueueIsExact, NEW c \in User \union {Loop}, c \notin Waiting, Join(c)
    PROVE  /\ queue' \in Seq(User \union {Loop})
           /\ ToSet(queue') = Waiting \union {c}
           /\ IsInjective(queue')
  <1>1. queue \in Seq(User \union {Loop}) /\ ToSet(queue) = Waiting /\ IsInjective(queue)
    BY DEF TypeOK, QueueIsExact, Waiting
  <1>2. /\ Append(queue, c) \in Seq(User \union {Loop})
        /\ ToSet(Append(queue, c)) = ToSet(queue) \union {c}
        /\ IsInjective(Append(queue, c))
    BY <1>1, JoinQueue
  <1>3. QED
    BY <1>1, <1>2 DEF Join

(* Whose turn it is waits no more.                                         *)
LEMMA TurnExact ==
    ASSUME TypeOK, QueueIsExact, NEW c, Turn(c)
    PROVE  /\ c \in Waiting /\ lock = None
           /\ queue' \in Seq(User \union {Loop})
           /\ ToSet(queue') = Waiting \ {c}
           /\ IsInjective(queue')
  <1>1. queue \in Seq(User \union {Loop}) /\ ToSet(queue) = Waiting /\ IsInjective(queue)
    BY DEF TypeOK, QueueIsExact, Waiting
  <1>2. queue # <<>> /\ Head(queue) = c /\ queue' = Tail(queue) /\ lock = None
    BY DEF Turn
  <1>3. QED
    BY <1>1, <1>2, HeadLeaves

(* Nor does who leaves.                                                    *)
LEMMA LeaveExact ==
    ASSUME TypeOK, QueueIsExact, NEW c, Leave(c)
    PROVE  /\ queue' \in Seq(User \union {Loop})
           /\ ToSet(queue') = Waiting \ {c}
           /\ IsInjective(queue')
  <1>1. queue \in Seq(User \union {Loop}) /\ ToSet(queue) = Waiting /\ IsInjective(queue)
    BY DEF TypeOK, QueueIsExact, Waiting
  <1>2. PICK i \in DOMAIN queue : queue[i] = c /\ queue' = RemoveAt(queue, i)
    BY DEF Leave
  <1>3. QED
    BY <1>1, <1>2, RemovedFromQueue

(* A frame keeps the transmit queue in its limit, and needs a free wire.   *)
LEMMA SendFrameTypes ==
    ASSUME TypeOK, NEW f \in Frame, SendFrame(f)
    PROVE  tx' \in Seq(Item) /\ Len(tx') <= TxLimit
  <1>1. DmxItem(f) \in Item
    BY DEF DmxItem, Item
  <1>2. Append(tx, DmxItem(f)) \in Seq(Item) /\ Len(Append(tx, DmxItem(f))) = Len(tx) + 1
    BY <1>1, AppendProperties DEF TypeOK
  <1>3. QED
    BY <1>2, OutputAssumption DEF SendFrame, Full, TypeOK

-----------------------------------------------------------------------------
(* What the parts of a step keep.                                          *)

(* The end of send_dmx().                                                  *)
LEMMA TransmitKeeps ==
    ASSUME TypeOK, QueueIsExact, ExchangeIsQuiet, NEW s \in Sender, NEW f \in Frame,
           pc[s] # "queued", Transmit(s, f), UNCHANGED lock,
           loop' = "queued" <=> loop = "queued"
    PROVE  /\ queue' \in Seq(User \union {Loop})
           /\ tx' \in Seq(Item) /\ Len(tx') <= TxLimit
           /\ pc' \in [User -> {"idle", "stopping", "queued", "waiting"}]
           /\ data' \in [Sender -> Frame \union {None}]
           /\ QueueIsExact'
           /\ pc[s] # "waiting" => ExchangeIsQuiet'
           /\ \A u \in User \ {s} : pc'[u] = pc[u]
           /\ \A u \in Sender \ {s} : data'[u] = data[u]
           /\ pc'[s] \in {"idle", "queued"}
           /\ pc'[s] = "queued" => data'[s] \in Frame
  <1> USE DEF TypeOK
  <1>1. s \in User /\ s # Loop /\ s \notin Requester
    BY OutputAssumption DEF User
  <1>2. Loop \notin User
    BY OutputAssumption DEF User
  <1>3. CASE /\ Admitted
             /\ SendFrame(f)
             /\ pc' = [pc EXCEPT ![s] = "idle"]
             /\ data' = [data EXCEPT ![s] = None]
             /\ UNCHANGED queue
    <2>1. \A u \in User : pc'[u] = "queued" <=> pc[u] = "queued"
      BY <1>1, <1>3
    <2>2. QueueIsExact'
      BY <1>3, <2>1 DEF QueueIsExact
    <2>3. lock' = None
      BY <1>3 DEF Admitted
    <2>4. \A r \in Requester : pc'[r] = pc[r]
      BY <1>1, <1>3 DEF User
    <2>5. ExchangeIsQuiet'
      BY <2>3, <2>4 DEF ExchangeIsQuiet
    <2>6. QED
      BY <1>1, <1>3, <2>2, <2>5, SendFrameTypes
  <1>4. CASE /\ Join(s)
             /\ pc' = [pc EXCEPT ![s] = "queued"]
             /\ data' = [data EXCEPT ![s] = f]
             /\ UNCHANGED tx
    <2>1. s \in User \union {Loop} /\ s \notin Waiting
      BY <1>1 DEF Waiting
    <2>2. /\ queue' \in Seq(User \union {Loop})
          /\ ToSet(queue') = Waiting \union {s}
          /\ IsInjective(queue')
      BY <1>4, <2>1, JoinExact
    <2>3. Waiting' = Waiting \union {s}
      BY <1>1, <1>4 DEF Waiting
    <2>4. QueueIsExact'
      BY <2>2, <2>3 DEF QueueIsExact, Waiting
    <2>5. \A r \in Requester : pc'[r] = pc[r]
      BY <1>1, <1>4 DEF User
    <2>6. ExchangeIsQuiet'
      BY <1>4, <2>5 DEF ExchangeIsQuiet
    <2>7. QED
      BY <1>1, <1>4, <2>2, <2>4, <2>6
  <1>5. QED
    BY <1>3, <1>4 DEF Transmit

(* The beginning of an exchange: its packet is the last item.              *)
LEMMA ExchangeKeeps ==
    ASSUME TypeOK, ExchangeIsQuiet, NEW r \in Requester, lock = None, Exchange(r)
    PROVE  /\ tx' \in Seq(Item) /\ Len(tx') <= TxLimit
           /\ pc' \in [User -> {"idle", "stopping", "queued", "waiting"}]
           /\ ExchangeIsQuiet'
           /\ \A u \in User \ {r} : pc'[u] = pc[u]
           /\ pc'[r] = "waiting" /\ lock' = r /\ pause' = "new"
  <1> USE DEF TypeOK
  <1>1. r \in User /\ r # None
    BY OutputAssumption DEF User
  <1>2. Packet(r) \in Item
    BY DEF Packet, Item
  <1>3. /\ tx' \in Seq(Item) /\ Len(tx') = Len(tx) + 1 /\ tx'[Len(tx) + 1] = Packet(r)
    BY <1>2, AppendProperties DEF Exchange
  <1>4. Len(tx') <= TxLimit
    BY <1>3, OutputAssumption DEF Exchange, Full
  <1>5. Last(tx') = Packet(r)
    BY <1>3 DEF Last
  <1>6. \A u \in User \ {r} : pc'[u] = pc[u]
    BY DEF Exchange
  <1>7. pc'[r] = "waiting" /\ lock' = r /\ pause' = "new"
    BY <1>1 DEF Exchange
  <1>8. ASSUME NEW q \in Requester
        PROVE  pc'[q] = "waiting" <=> lock' = q
    <2>1. q # None /\ q \in User
      BY OutputAssumption DEF User
    <2>2. QED
      BY <1>6, <1>7, <2>1 DEF ExchangeIsQuiet
  <1>9. ExchangeIsQuiet'
    BY <1>5, <1>7, <1>8 DEF ExchangeIsQuiet, Packet
  <1>10. QED
    BY <1>1, <1>3, <1>4, <1>6, <1>7, <1>9 DEF Exchange

-----------------------------------------------------------------------------
(* The inductive invariant and its steps.                                  *)

OutputInv == TypeOK /\ ShapeInv /\ QueueIsExact /\ ExchangeIsQuiet /\ PauseInv

(* It holds at first.                                                      *)
LEMMA InitOutput == Init => OutputInv
  <1> SUFFICES ASSUME Init PROVE OutputInv
    OBVIOUS
  <1>1. queue \in Seq(User \union {Loop}) /\ tx \in Seq(Item) /\ Len(tx) = 0 /\ DOMAIN queue = {}
    BY DEF Init
  <1>2. TypeOK
    <2>1. tx \in Seq(Item) /\ Len(tx) <= TxLimit
      BY <1>1, OutputAssumption
    <2>2. paused \in BOOLEAN /\ ending \in BOOLEAN
      BY DEF Init
    <2>3. /\ pc \in [User -> {"idle", "stopping", "queued", "waiting"}]
          /\ data \in [Sender -> Frame \union {None}]
      BY DEF Init
    <2>4. QED
      BY <1>1, <2>1, <2>2, <2>3, OutputAssumption DEF Init, TypeOK
  <1>3. ShapeInv
    BY DEF Init, ShapeInv, User
  <1>4. QueueIsExact
    <2>1. ToSet(queue) = {}
      BY <1>1 DEF ToSet
    <2>2. IsInjective(queue)
      BY <1>1 DEF IsInjective
    <2>3. {u \in User : pc[u] = "queued"} = {} /\ loop # "queued"
      BY DEF Init
    <2>4. QED
      BY <2>1, <2>2, <2>3 DEF QueueIsExact
  <1>5. ExchangeIsQuiet
    <2>1. \A r \in Requester : pc[r] = "idle" /\ r # None
      BY OutputAssumption DEF Init, User
    <2>2. lock = None
      BY DEF Init
    <2>3. QED
      BY <2>1, <2>2 DEF ExchangeIsQuiet
  <1>6. PauseInv
    BY DEF Init, PauseInv, PauseIsOwned
  <1>7. QED
    BY <1>2, <1>3, <1>4, <1>5, <1>6 DEF OutputInv

(* The steps of a sender keep it.                                          *)
LEMMA SenderKeeps ==
    ASSUME OutputInv, NEW s \in Sender, SenderStep(s)
    PROVE  OutputInv'
  <1> USE DEF OutputInv
  <1>1. s \in User /\ s \notin Requester /\ s # Loop /\ Loop \notin User
    BY OutputAssumption DEF User
  <1>2. \A r \in Requester : r \in User /\ r # s
    BY <1>1 DEF User
  <1>3. ASSUME NEW f \in Frame, pc[s] # "queued", Transmit(s, f), UNCHANGED <<lock, pauseVars, portVars>>,
               buffer' \in Frame, UNCHANGED snapshot,
               loop' = loop \/ (loop = "off" /\ loop' = "ready")
        PROVE  OutputInv'
    <2>1. /\ queue' \in Seq(User \union {Loop})
          /\ tx' \in Seq(Item) /\ Len(tx') <= TxLimit
          /\ pc' \in [User -> {"idle", "stopping", "queued", "waiting"}]
          /\ data' \in [Sender -> Frame \union {None}]
          /\ QueueIsExact' /\ ExchangeIsQuiet'
          /\ \A u \in User \ {s} : pc'[u] = pc[u]
          /\ \A u \in Sender \ {s} : data'[u] = data[u]
          /\ pc'[s] \in {"idle", "queued"}
          /\ pc'[s] = "queued" => data'[s] \in Frame
      BY <1>3, TransmitKeeps DEF ShapeInv
    <2>2. TypeOK'
      BY <1>3, <2>1 DEF TypeOK, pauseVars, portVars
    <2>3. ShapeInv'
      BY <1>3, <2>1 DEF ShapeInv, User
    <2>4. PauseInv'
      BY <1>3 DEF PauseInv, PauseIsOwned, pauseVars
    <2>5. QED
      BY <2>1, <2>2, <2>3, <2>4
  <1>4. ASSUME NEW f \in Frame, SendRepeated(s, f) \/ SendOnce(s, f)
        PROVE  OutputInv'
    BY <1>3, <1>4 DEF SendRepeated, SendOnce, Running, loopVars
  <1>5. CASE SenderResumes(s)
    <2>1. data[s] \in Frame
      BY <1>5 DEF SenderResumes, ShapeInv
    <2>2. QED
      BY <1>3, <1>5, <2>1 DEF SenderResumes, loopVars, TypeOK
  <1>6. ASSUME NEW f \in Frame, SendAndStop(s, f)
        PROVE  OutputInv'
    <2>1. /\ buffer' = f /\ loop' = "off" /\ snapshot' = None
          /\ pc[s] = "idle" /\ pc' = [pc EXCEPT ![s] = "stopping"]
          /\ data' = [data EXCEPT ![s] = f]
          /\ LeaveLoop /\ UNCHANGED <<pauseVars, lock, tx, portVars>>
      BY <1>6 DEF SendAndStop
    <2>2. /\ queue' \in Seq(User \union {Loop})
          /\ ToSet(queue') = Waiting \ {Loop}
          /\ IsInjective(queue')
      <3>1. CASE loop = "queued"
        BY <2>1, <3>1, LeaveExact DEF LeaveLoop
      <3>2. CASE loop # "queued"
        BY <1>1, <2>1, <3>2 DEF LeaveLoop, QueueIsExact, TypeOK, Waiting
      <3>3. QED
        BY <3>1, <3>2
    <2>3. Waiting' = Waiting \ {Loop}
      BY <1>1, <2>1 DEF Waiting, TypeOK
    <2>4. QueueIsExact'
      BY <2>2, <2>3 DEF QueueIsExact, Waiting
    <2>5. TypeOK'
      BY <1>1, <2>1, <2>2 DEF TypeOK, pauseVars, portVars
    <2>6. ShapeInv'
      BY <1>1, <2>1 DEF ShapeInv, TypeOK, User
    <2>7. ExchangeIsQuiet'
      BY <1>2, <2>1 DEF ExchangeIsQuiet, TypeOK
    <2>8. PauseInv'
      BY <2>1 DEF PauseInv, PauseIsOwned, pauseVars
    <2>9. QED
      BY <2>4, <2>5, <2>6, <2>7, <2>8
  <1>7. ASSUME /\ queue' \in Seq(User \union {Loop})
                     /\ ToSet(queue') = Waiting \ {s}
                     /\ IsInjective(queue'),
               pc' = [pc EXCEPT ![s] = "idle"],
               data' = [data EXCEPT ![s] = None],
               UNCHANGED <<buffer, loopVars, pauseVars, lock, portVars>>,
               tx' \in Seq(Item) /\ Len(tx') <= TxLimit, lock = None \/ UNCHANGED tx
        PROVE  OutputInv'
    <2>1. Waiting' = Waiting \ {s}
      BY <1>1, <1>7 DEF Waiting, TypeOK, loopVars
    <2>2. QueueIsExact'
      BY <1>7, <2>1 DEF QueueIsExact, Waiting
    <2>3. TypeOK'
      BY <1>1, <1>7 DEF TypeOK, loopVars, pauseVars, portVars
    <2>4. ShapeInv'
      BY <1>1, <1>7 DEF ShapeInv, TypeOK, User, loopVars
    <2>5. ExchangeIsQuiet'
      BY <1>2, <1>7 DEF ExchangeIsQuiet, TypeOK
    <2>6. PauseInv'
      BY <1>7 DEF PauseInv, PauseIsOwned, pauseVars, loopVars
    <2>7. QED
      BY <2>2, <2>3, <2>4, <2>5, <2>6
  <1>8. CASE SenderTurn(s)
    <2>1. Turn(s) /\ SendFrame(data[s])
      BY <1>8 DEF SenderTurn
    <2>2. /\ s \in Waiting /\ lock = None
          /\ queue' \in Seq(User \union {Loop})
          /\ ToSet(queue') = Waiting \ {s}
          /\ IsInjective(queue')
      BY <2>1, TurnExact
    <2>3. data[s] \in Frame
      BY <1>1, <2>2 DEF Waiting, ShapeInv
    <2>4. tx' \in Seq(Item) /\ Len(tx') <= TxLimit
      BY <2>1, <2>3, SendFrameTypes
    <2>5. QED
      BY <1>7, <1>8, <2>2, <2>4 DEF SenderTurn
  <1>9. CASE SenderCancelled(s)
    <2>1. Leave(s) /\ UNCHANGED tx
      BY <1>9 DEF SenderCancelled
    <2>2. /\ queue' \in Seq(User \union {Loop})
          /\ ToSet(queue') = Waiting \ {s}
          /\ IsInjective(queue')
      BY <2>1, LeaveExact
    <2>3. tx' \in Seq(Item) /\ Len(tx') <= TxLimit
      BY <2>1 DEF TypeOK
    <2>4. QED
      BY <1>7, <1>9, <2>1, <2>2, <2>3 DEF SenderCancelled
  <1>10. QED
    BY <1>4, <1>5, <1>6, <1>8, <1>9 DEF SenderStep

(* So do those of the loop.                                                *)
LEMMA LoopKeeps ==
    ASSUME OutputInv, LoopStep
    PROVE  OutputInv'
  <1> USE DEF OutputInv
  <1>1. Loop \notin User /\ Loop \in User \union {Loop}
    BY OutputAssumption DEF User
  <1>2. buffer \in Frame
    BY DEF TypeOK
  <1>3. CASE LoopSends /\ Admitted
    <2>1. /\ SendFrame(buffer) /\ loop' = "ready" /\ loop # "queued" /\ lock = None
          /\ UNCHANGED <<buffer, snapshot, pauseVars, lock, queue, pc, data, portVars>>
      BY <1>3 DEF LoopSends, Join, Admitted
    <2>2. tx' \in Seq(Item) /\ Len(tx') <= TxLimit
      BY <1>2, <2>1, SendFrameTypes
    <2>3. TypeOK'
      BY <2>1, <2>2 DEF TypeOK, pauseVars, portVars
    <2>4. ShapeInv'
      BY <2>1 DEF ShapeInv
    <2>5. QueueIsExact'
      BY <2>1 DEF QueueIsExact
    <2>6. ExchangeIsQuiet'
      BY <2>1 DEF ExchangeIsQuiet
    <2>7. PauseInv'
      BY <2>1 DEF PauseInv, PauseIsOwned, pauseVars
    <2>8. QED
      BY <2>3, <2>4, <2>5, <2>6, <2>7
  <1>4. CASE LoopSends /\ ~Admitted
    <2>1. /\ Join(Loop) /\ snapshot' = buffer /\ loop' = "queued" /\ loop # "queued"
          /\ UNCHANGED <<buffer, pauseVars, lock, pc, data, tx, portVars>>
      BY <1>4 DEF LoopSends
    <2>2. Loop \notin Waiting
      BY <1>1, <2>1 DEF Waiting
    <2>3. /\ queue' \in Seq(User \union {Loop})
          /\ ToSet(queue') = Waiting \union {Loop}
          /\ IsInjective(queue')
      BY <1>1, <2>1, <2>2, JoinExact
    <2>4. Waiting' = Waiting \union {Loop}
      BY <2>1 DEF Waiting
    <2>5. QueueIsExact'
      BY <2>3, <2>4 DEF QueueIsExact, Waiting
    <2>6. TypeOK'
      BY <1>2, <2>1, <2>3 DEF TypeOK, pauseVars, portVars
    <2>7. ShapeInv'
      BY <1>2, <2>1 DEF ShapeInv
    <2>8. ExchangeIsQuiet'
      BY <2>1 DEF ExchangeIsQuiet
    <2>9. PauseInv'
      BY <2>1 DEF PauseInv, PauseIsOwned, pauseVars
    <2>10. QED
      BY <2>5, <2>6, <2>7, <2>8, <2>9
  <1>5. CASE LoopPauses
    <2>1. /\ loop = "ready" /\ paused /\ loop' = "paused"
          /\ UNCHANGED <<buffer, snapshot, pauseVars, lock, queue, pc, data, tx, portVars>>
      BY <1>5 DEF LoopPauses
    <2>2. TypeOK' /\ ShapeInv'
      BY <2>1 DEF TypeOK, ShapeInv, pauseVars, portVars
    <2>3. QueueIsExact' /\ ExchangeIsQuiet'
      BY <2>1 DEF QueueIsExact, ExchangeIsQuiet
    <2>4. PauseInv'
      BY <2>1 DEF PauseInv, PauseIsOwned, pauseVars
    <2>5. QED
      BY <2>2, <2>3, <2>4
  <1>6. CASE LoopTurn
    <2>1. /\ Turn(Loop) /\ SendFrame(snapshot) /\ loop' = "ready" /\ snapshot' = None
          /\ UNCHANGED <<buffer, pauseVars, lock, pc, data, portVars>>
      BY <1>6 DEF LoopTurn
    <2>2. /\ Loop \in Waiting /\ lock = None
          /\ queue' \in Seq(User \union {Loop})
          /\ ToSet(queue') = Waiting \ {Loop}
          /\ IsInjective(queue')
      BY <2>1, TurnExact
    <2>3. snapshot \in Frame
      BY <1>1, <2>2 DEF Waiting, ShapeInv
    <2>4. tx' \in Seq(Item) /\ Len(tx') <= TxLimit
      BY <2>1, <2>3, SendFrameTypes
    <2>5. Waiting' = Waiting \ {Loop}
      BY <1>1, <2>1 DEF Waiting
    <2>6. QueueIsExact'
      BY <2>2, <2>5 DEF QueueIsExact, Waiting
    <2>7. TypeOK'
      BY <2>1, <2>2, <2>4 DEF TypeOK, pauseVars, portVars
    <2>8. ShapeInv'
      BY <2>1 DEF ShapeInv
    <2>9. ExchangeIsQuiet'
      BY <2>1, <2>2 DEF ExchangeIsQuiet
    <2>10. PauseInv'
      BY <2>1 DEF PauseInv, PauseIsOwned, pauseVars
    <2>11. QED
      BY <2>6, <2>7, <2>8, <2>9, <2>10
  <1>7. QED
    BY <1>3, <1>4, <1>5, <1>6 DEF LoopStep

(* Those of a requester.  The packet of an exchange goes on a wire that    *)
(* nobody holds.                                                           *)
LEMMA RequesterKeeps ==
    ASSUME OutputInv, NEW r \in Requester, RequesterStep(r)
    PROVE  OutputInv'
  <1> USE DEF OutputInv
  <1>1. r \in User /\ r # None /\ r # Loop /\ r \notin Sender /\ Loop \notin User
    BY OutputAssumption DEF User
  <1>2. \A s \in Sender : s \in User /\ s # r
    BY <1>1 DEF User
  <1>3. ASSUME Exchange(r), lock = None,
               queue' \in Seq(User \union {Loop}),
               ToSet(queue') = Waiting \ {r},
               IsInjective(queue'),
               UNCHANGED <<buffer, loopVars, paused, ending, data, portVars>>
        PROVE  OutputInv'
    <2>1. /\ tx' \in Seq(Item) /\ Len(tx') <= TxLimit
          /\ pc' \in [User -> {"idle", "stopping", "queued", "waiting"}]
          /\ ExchangeIsQuiet'
          /\ \A u \in User \ {r} : pc'[u] = pc[u]
          /\ pc'[r] = "waiting" /\ lock' = r /\ pause' = "new"
      BY <1>3, ExchangeKeeps
    <2>2. TypeOK'
      BY <1>3, <2>1 DEF TypeOK, loopVars, portVars
    <2>3. ShapeInv'
      BY <1>2, <1>3, <2>1 DEF ShapeInv, loopVars
    <2>4. Waiting' = Waiting \ {r}
      BY <1>1, <1>3, <2>1 DEF Waiting, loopVars
    <2>5. QueueIsExact'
      BY <1>3, <2>4 DEF QueueIsExact, Waiting
    <2>6. PauseInv'
      <3>1. pause = "none"
        BY <1>3 DEF PauseInv, PauseIsOwned
      <3>2. QED
        BY <1>1, <1>3, <2>1, <3>1 DEF PauseInv, PauseIsOwned, loopVars
    <2>7. QED
      BY <2>1, <2>2, <2>3, <2>5, <2>6
  <1>4. ASSUME pc[r] # "waiting",
               pc' = [pc EXCEPT ![r] = "idle"],
               queue' \in Seq(User \union {Loop}),
               ToSet(queue') = Waiting \ {r},
               IsInjective(queue'),
               UNCHANGED <<buffer, loopVars, pauseVars, lock, data, tx, portVars>>
        PROVE  OutputInv'
    <2>1. TypeOK'
      BY <1>1, <1>4 DEF TypeOK, loopVars, pauseVars, portVars
    <2>2. ShapeInv'
      BY <1>2, <1>4 DEF ShapeInv, TypeOK, loopVars
    <2>3. Waiting' = Waiting \ {r}
      BY <1>1, <1>4 DEF Waiting, TypeOK, loopVars
    <2>4. QueueIsExact'
      BY <1>4, <2>3 DEF QueueIsExact, Waiting
    <2>5. ExchangeIsQuiet'
      BY <1>1, <1>4 DEF ExchangeIsQuiet, TypeOK, User
    <2>6. PauseInv'
      BY <1>4 DEF PauseInv, PauseIsOwned, loopVars, pauseVars
    <2>7. QED
      BY <2>1, <2>2, <2>4, <2>5, <2>6
  <1>5. CASE Request(r) /\ Admitted
    <2>1. /\ Exchange(r) /\ lock = None /\ pc[r] = "idle"
          /\ UNCHANGED <<buffer, loopVars, paused, ending, queue, data, portVars>>
      BY <1>5 DEF Request, Join, Admitted
    <2>2. queue' \in Seq(User \union {Loop}) /\ ToSet(queue') = Waiting /\ IsInjective(queue')
      BY <2>1 DEF TypeOK, QueueIsExact, Waiting
    <2>3. Waiting \ {r} = Waiting
      BY <1>1, <2>1 DEF Waiting
    <2>4. QED
      BY <1>3, <2>1, <2>2, <2>3
  <1>6. CASE Request(r) /\ ~Admitted
    <2>1. /\ Join(r) /\ pc[r] = "idle" /\ pc' = [pc EXCEPT ![r] = "queued"]
          /\ UNCHANGED <<buffer, loopVars, pauseVars, lock, data, tx, portVars>>
      BY <1>6 DEF Request, pauseVars
    <2>2. r \in User \union {Loop} /\ r \notin Waiting
      BY <1>1, <2>1 DEF Waiting
    <2>3. /\ queue' \in Seq(User \union {Loop})
          /\ ToSet(queue') = Waiting \union {r}
          /\ IsInjective(queue')
      BY <2>1, <2>2, JoinExact
    <2>4. Waiting' = Waiting \union {r}
      BY <1>1, <2>1 DEF Waiting, TypeOK, loopVars
    <2>5. QueueIsExact'
      BY <2>3, <2>4 DEF QueueIsExact, Waiting
    <2>6. TypeOK'
      BY <1>1, <2>1, <2>3 DEF TypeOK, loopVars, pauseVars, portVars
    <2>7. ShapeInv'
      BY <1>2, <2>1 DEF ShapeInv, TypeOK, loopVars
    <2>8. ExchangeIsQuiet'
      BY <1>1, <2>1 DEF ExchangeIsQuiet, TypeOK, User
    <2>9. PauseInv'
      BY <2>1 DEF PauseInv, PauseIsOwned, loopVars, pauseVars
    <2>10. QED
      BY <2>5, <2>6, <2>7, <2>8, <2>9
  <1>7. CASE RequesterTurn(r)
    <2>1. Turn(r) /\ UNCHANGED <<buffer, loopVars, paused, ending, data, portVars>>
      BY <1>7 DEF RequesterTurn
    <2>2. /\ r \in Waiting /\ lock = None
          /\ queue' \in Seq(User \union {Loop})
          /\ ToSet(queue') = Waiting \ {r}
          /\ IsInjective(queue')
      BY <2>1, TurnExact
    <2>3. pc[r] = "queued"
      BY <1>1, <2>2 DEF Waiting
    <2>4. CASE Exchange(r)
      BY <1>3, <2>1, <2>2, <2>4
    <2>5. CASE pc' = [pc EXCEPT ![r] = "idle"] /\ UNCHANGED <<lock, tx, pause>>
      BY <1>4, <2>1, <2>2, <2>3, <2>5 DEF pauseVars
    <2>6. QED
      BY <1>7, <2>4, <2>5 DEF RequesterTurn
  <1>8. CASE RequesterCancelled(r)
    <2>1. /\ Leave(r) /\ pc[r] = "queued" /\ pc' = [pc EXCEPT ![r] = "idle"]
          /\ UNCHANGED <<buffer, loopVars, pauseVars, lock, data, tx, portVars>>
      BY <1>8 DEF RequesterCancelled
    <2>2. /\ queue' \in Seq(User \union {Loop})
          /\ ToSet(queue') = Waiting \ {r}
          /\ IsInjective(queue')
      BY <2>1, LeaveExact
    <2>3. QED
      BY <1>4, <2>1, <2>2
  <1>9. CASE ExchangeEnds(r)
    <2>1. /\ pc[r] = "waiting" /\ pc' = [pc EXCEPT ![r] = "idle"] /\ lock' = None
          /\ ending' = (ending \/ pause = "sleeping") /\ pause' = "none"
          /\ UNCHANGED <<buffer, loopVars, paused, queue, data, tx, portVars>>
      BY <1>9 DEF ExchangeEnds
    <2>2. lock = r
      BY <2>1 DEF ExchangeIsQuiet
    <2>3. TypeOK'
      <3>1. ending' \in BOOLEAN
        BY <2>1
      <3>2. QED
        BY <1>1, <2>1, <3>1 DEF TypeOK, loopVars, portVars
    <2>4. ShapeInv'
      BY <1>2, <2>1 DEF ShapeInv, TypeOK, loopVars
    <2>5. Waiting' = Waiting
      BY <1>1, <2>1 DEF Waiting, TypeOK, loopVars
    <2>6. QueueIsExact'
      BY <2>1, <2>5 DEF QueueIsExact, Waiting
    <2>7. ASSUME NEW q \in Requester
          PROVE  pc'[q] # "waiting" /\ q # None
      <3>1. q \in User /\ q # None
        BY OutputAssumption DEF User
      <3>2. pc[q] = "waiting" => q = r
        BY <2>2 DEF ExchangeIsQuiet
      <3>3. QED
        BY <2>1, <3>1, <3>2 DEF TypeOK
    <2>8. ExchangeIsQuiet'
      BY <2>1, <2>7 DEF ExchangeIsQuiet
    <2>9. PauseInv'
      BY <2>1 DEF PauseInv, PauseIsOwned, loopVars
    <2>10. QED
      BY <2>3, <2>4, <2>6, <2>8, <2>9
  <1>10. QED
    BY <1>5, <1>6, <1>7, <1>8, <1>9 DEF RequesterStep

(* Those of the tasks that pause the loop.                                 *)
LEMMA PauseKeeps ==
    ASSUME OutputInv, PauseStep
    PROVE  OutputInv'
  <1> USE DEF OutputInv
  <1>1. CASE PauseBegins
    <2>1. TypeOK' /\ ShapeInv'
      BY <1>1 DEF PauseBegins, TypeOK, ShapeInv, loopVars, portVars
    <2>2. QueueIsExact' /\ ExchangeIsQuiet'
      BY <1>1 DEF PauseBegins, QueueIsExact, ExchangeIsQuiet, loopVars
    <2>3. PauseInv'
      BY <1>1 DEF PauseBegins, PauseInv, PauseIsOwned, loopVars
    <2>4. QED
      BY <2>1, <2>2, <2>3
  <1>2. CASE PauseEnds
    <2>1. /\ paused' = FALSE
          /\ loop' = IF loop = "paused" THEN "woken" ELSE loop
          /\ UNCHANGED <<buffer, snapshot, lock, queue, pc, data, tx, portVars>>
      BY <1>2 DEF PauseEnds, Resume
    <2>2. \/ pause = "sleeping" /\ pause' = "none" /\ UNCHANGED ending
          \/ ending /\ ending' = FALSE /\ UNCHANGED pause
      BY <1>2 DEF PauseEnds
    <2>3. TypeOK'
      <3>1. paused' \in BOOLEAN /\ ending' \in BOOLEAN
        BY <2>1, <2>2 DEF TypeOK
      <3>2. pause' \in {"none", "new", "sleeping"}
        BY <2>2 DEF TypeOK
      <3>3. QED
        BY <2>1, <3>1, <3>2 DEF TypeOK, portVars
    <2>4. ShapeInv'
      BY <2>1 DEF ShapeInv
    <2>5. QueueIsExact' /\ ExchangeIsQuiet'
      BY <2>1 DEF QueueIsExact, ExchangeIsQuiet
    <2>6. PauseInv'
      BY <2>1, <2>2 DEF PauseInv, PauseIsOwned
    <2>7. QED
      BY <2>3, <2>4, <2>5, <2>6
  <1>3. QED
    BY <1>1, <1>2 DEF PauseStep

(* Those of the port, which takes the first item and never the last one of *)
(* more than one.                                                          *)
LEMMA PortKeeps ==
    ASSUME OutputInv, PortStep
    PROVE  OutputInv'
  <1> USE DEF OutputInv
  <1>1. CASE TakeItem
    <2>1. /\ tx # <<>> /\ writing' = Head(tx) /\ tx' = Tail(tx)
          /\ UNCHANGED <<buffer, loopVars, pauseVars, lock, queue, pc, data, shown>>
      BY <1>1 DEF TakeItem
    <2>2. /\ tx \in Seq(Item) /\ Len(tx) \in Nat /\ Len(tx) # 0 /\ Len(tx) <= TxLimit
          /\ Head(tx) = tx[1]
      BY <2>1 DEF TypeOK
    <2>3. /\ tx' \in Seq(Item) /\ Len(tx') = Len(tx) - 1 /\ writing' \in Item
          /\ \A i \in 1 .. Len(tx') : tx'[i] = tx[i + 1]
      BY <2>1, <2>2, HeadTailProperties
    <2>4. Len(tx') <= TxLimit
      BY <2>2, <2>3, OutputAssumption
    <2>5. TypeOK'
      BY <2>1, <2>3, <2>4 DEF TypeOK, loopVars, pauseVars
    <2>6. ShapeInv' /\ QueueIsExact'
      BY <2>1 DEF ShapeInv, QueueIsExact, loopVars
    <2>7. tx' = <<>> \/ Last(tx') = Last(tx)
      <3>1. CASE Len(tx) = 1
        BY <2>2, <2>3, <3>1
      <3>2. CASE Len(tx) # 1
        <4>1. Len(tx') \in 1 .. Len(tx') /\ Len(tx') + 1 = Len(tx)
          BY <2>2, <2>3, <3>2
        <4>2. QED
          BY <2>3, <4>1 DEF Last
      <3>3. QED
        BY <3>1, <3>2
    <2>8. ExchangeIsQuiet'
      BY <2>1, <2>7 DEF ExchangeIsQuiet, Packet
    <2>9. PauseInv'
      BY <2>1 DEF PauseInv, PauseIsOwned, loopVars, pauseVars
    <2>10. QED
      BY <2>5, <2>6, <2>8, <2>9
  <1>2. CASE Written \/ WriteFails
    <2>1. /\ writing # None /\ writing' = None
          /\ UNCHANGED <<buffer, loopVars, pauseVars, lock, queue, pc, data, tx>>
      BY <1>2 DEF Written, WriteFails
    <2>2. shown' = shown \/ (writing.kind = "dmx" /\ shown' = writing.of)
      BY <1>2 DEF Written, WriteFails
    <2>3. shown' \in Frame \union {None}
      BY <2>1, <2>2 DEF TypeOK, Item
    <2>4. TypeOK'
      BY <2>1, <2>3 DEF TypeOK, loopVars, pauseVars
    <2>5. ShapeInv' /\ QueueIsExact' /\ ExchangeIsQuiet'
      BY <2>1 DEF ShapeInv, QueueIsExact, ExchangeIsQuiet, loopVars
    <2>6. PauseInv'
      BY <2>1 DEF PauseInv, PauseIsOwned, loopVars, pauseVars
    <2>7. QED
      BY <2>4, <2>5, <2>6
  <1>3. QED
    BY <1>1, <1>2 DEF PortStep

-----------------------------------------------------------------------------
(* The theorems.                                                           *)

(* The inductive invariant: types, who waits with what, the two queues and *)
(* the owner of the pause, in every reachable state.                       *)
THEOREM OutputInvariant == Spec => []OutputInv
  <1>1. Init => OutputInv
    BY InitOutput
  <1>2. OutputInv /\ [Next]_vars => OutputInv'
    <2> SUFFICES ASSUME OutputInv, [Next]_vars PROVE OutputInv'
      OBVIOUS
    <2>1. CASE Next
      BY <2>1, SenderKeeps, LoopKeeps, RequesterKeeps, PauseKeeps, PortKeeps DEF Next
    <2>2. CASE UNCHANGED vars
      <3>1. TypeOK' /\ ShapeInv'
        BY <2>2 DEF vars, loopVars, pauseVars, portVars, OutputInv, TypeOK, ShapeInv
      <3>2. QueueIsExact' /\ ExchangeIsQuiet'
        BY <2>2 DEF vars, loopVars, OutputInv, QueueIsExact, ExchangeIsQuiet
      <3>3. PauseInv'
        BY <2>2 DEF vars, loopVars, pauseVars, OutputInv, PauseInv, PauseIsOwned
      <3>4. QED
        BY <3>1, <3>2, <3>3 DEF OutputInv
    <2>3. QED
      BY <2>1, <2>2
  <1>3. QED
    BY <1>1, <1>2, PTL DEF Spec

(* Every variable keeps its type; the transmit queue keeps its limit.      *)
THEOREM OutputTypes == Spec => []TypeOK
  <1>1. OutputInv => TypeOK
    BY DEF OutputInv
  <1>2. QED
    BY <1>1, OutputInvariant, PTL

(* One exchange at a time, and nothing on the wire behind its packet.      *)
THEOREM ExchangesAreQuiet == Spec => []ExchangeIsQuiet
  <1>1. OutputInv => ExchangeIsQuiet
    BY DEF OutputInv
  <1>2. QED
    BY <1>1, OutputInvariant, PTL

(* A paused loop has a task that will resume it; no wake-up is lost.       *)
THEOREM PausesAreOwned == Spec => []PauseIsOwned
  <1>1. OutputInv => PauseIsOwned
    BY DEF OutputInv, PauseInv
  <1>2. QED
    BY <1>1, OutputInvariant, PTL

(* The queue of the wire lock holds those who wait, each once.             *)
THEOREM WaitersAreExact == Spec => []QueueIsExact
  <1>1. OutputInv => QueueIsExact
    BY DEF OutputInv
  <1>2. QED
    BY <1>1, OutputInvariant, PTL

(* Senders, the loop and exchanges use the wire lock as one first-come,    *)
(* first-served lock: every step is one of the lock, or leaves it alone.   *)
THEOREM OutputSharesTheWire == Spec => WirePromise
  <1>1. Init => Wire!LockInit
    BY DEF Init, Wire!LockInit
  <1>2. OutputInv /\ [Next]_vars => [Wire!LockNext]_<<lock, queue>>
    <2> SUFFICES ASSUME OutputInv, [Next]_vars
                 PROVE  [Wire!LockNext]_<<lock, queue>>
      OBVIOUS
    <2>1. queue \in Seq(User \union {Loop}) /\ DOMAIN queue = 1 .. Len(queue)
      BY DEF OutputInv, TypeOK
    <2>2. ASSUME NEW t \in User \union {Loop}, t \notin ToSet(queue), lock # t,
                 Join(t), UNCHANGED lock
          PROVE  Wire!LockNext
      <3>1. \A i \in DOMAIN queue : queue[i] # t
        BY <2>2 DEF ToSet
      <3>2. Wire!Wait(t)
        BY <2>2, <3>1 DEF Join, Admitted, Wire!Wait, Wire!Free
      <3>3. QED
        BY <3>2 DEF Wire!LockNext
    <2>3. ASSUME NEW t, Turn(t), lock' = t \/ UNCHANGED lock
          PROVE  Wire!LockNext
      BY <2>3 DEF Turn, Wire!LockNext, Wire!Turn, Wire!Free
    <2>4. ASSUME NEW t, Leave(t), UNCHANGED lock
          PROVE  Wire!LockNext
      BY <2>1, <2>4 DEF Leave, Wire!LockNext, Wire!GiveUpWaiting, RemoveAt,
                       Wire!RemoveAt
    <2>5. ASSUME NEW u \in User, pc[u] # "queued", pc[u] # "waiting"
          PROVE  u \notin ToSet(queue) /\ lock # u
      BY <2>5, OutputAssumption
         DEF OutputInv, TypeOK, QueueIsExact, ExchangeIsQuiet, User
    <2>6. ASSUME NEW s \in Sender, NEW f \in Frame \union {None}, pc[s] \in {"idle", "stopping"},
                 Transmit(s, f), UNCHANGED lock
          PROVE  [Wire!LockNext]_<<lock, queue>>
      BY <2>2, <2>5, <2>6 DEF Transmit, User
    <2>7. ASSUME NEW s \in Sender, SenderStep(s)
          PROVE  [Wire!LockNext]_<<lock, queue>>
      <3>1. data[s] \in Frame \union {None}
        BY DEF OutputInv, TypeOK
      <3>2. CASE \E f \in Frame : SendRepeated(s, f) \/ SendOnce(s, f)
        BY <2>6, <3>2 DEF SendRepeated, SendOnce
      <3>3. CASE \E f \in Frame : SendAndStop(s, f)
        BY <2>4, <3>3 DEF SendAndStop, LeaveLoop
      <3>4. CASE SenderResumes(s)
        BY <2>6, <3>1, <3>4 DEF SenderResumes
      <3>5. CASE SenderTurn(s)
        BY <2>3, <3>5 DEF SenderTurn
      <3>6. CASE SenderCancelled(s)
        BY <2>4, <3>6 DEF SenderCancelled
      <3>7. QED
        BY <2>7, <3>2, <3>3, <3>4, <3>5, <3>6 DEF SenderStep
    <2>8. ASSUME LoopStep
          PROVE  [Wire!LockNext]_<<lock, queue>>
      <3>1. ASSUME LoopSends
            PROVE  [Wire!LockNext]_<<lock, queue>>
        <4>1. Loop \notin ToSet(queue) /\ lock # Loop
          BY <3>1, OutputAssumption DEF LoopSends, OutputInv, TypeOK, QueueIsExact, User
        <4>2. QED
          BY <2>2, <3>1, <4>1 DEF LoopSends
      <3>2. QED
        BY <2>3, <2>8, <3>1 DEF LoopStep, LoopPauses, LoopTurn
    <2>9. ASSUME NEW r \in Requester, RequesterStep(r)
          PROVE  [Wire!LockNext]_<<lock, queue>>
      <3>1. r \in User
        BY DEF User
      <3>2. CASE Request(r)
        <4>1. CASE Admitted /\ Exchange(r) /\ UNCHANGED queue
          <5>1. Wire!Acquire(r)
            BY <4>1 DEF Admitted, Exchange, Wire!Acquire, Wire!Free
          <5>2. QED
            BY <3>1, <5>1 DEF Wire!LockNext
        <4>2. CASE Join(r) /\ UNCHANGED lock
          BY <2>2, <2>5, <3>1, <3>2, <4>2 DEF Request
        <4>3. QED
          BY <3>2, <4>1, <4>2 DEF Request
      <3>3. CASE RequesterTurn(r)
        BY <2>3, <3>3 DEF RequesterTurn, Exchange
      <3>4. CASE RequesterCancelled(r)
        BY <2>4, <3>4 DEF RequesterCancelled
      <3>5. CASE ExchangeEnds(r)
        <4>1. lock = r /\ r # None
          BY <3>5, OutputAssumption DEF ExchangeEnds, OutputInv, ExchangeIsQuiet
        <4>2. QED
          BY <3>5, <4>1 DEF ExchangeEnds, Wire!LockNext, Wire!Release, Wire!Free
      <3>6. QED
        BY <2>9, <3>2, <3>3, <3>4, <3>5 DEF RequesterStep
    <2>10. CASE UNCHANGED <<lock, queue>>
      BY <2>10
    <2>11. QED
      BY <2>7, <2>8, <2>9, <2>10
         DEF Next, PauseStep, PauseBegins, PauseEnds, PortStep, TakeItem, Written, WriteFails,
             vars
  <1>3. QED
    BY <1>1, <1>2, OutputInvariant, PTL DEF Spec, WirePromise, Wire!LockSpec
=============================================================================
