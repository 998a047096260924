------------------------- MODULE ReceivePathProofs -------------------------
(***************************************************************************)
(* Theorems about the receiving half of the serial transport, for every    *)
(* stream of bytes, every adapter, every way in which the stream is cut    *)
(* into reads, and every size of the buffer and of the queue; and about    *)
(* packets, for every request and every answer.                            *)
(***************************************************************************)
EXTENDS ReceivePath, FiniteSetTheorems, SequenceTheorems, WellFoundedInduction, TLAPS

-----------------------------------------------------------------------------
(* Pieces of sequences.                                                    *)

(* What is left when the first n elements are dropped.                     *)
LEMMA DropPlaces ==
    ASSUME NEW S, NEW s \in Seq(S), NEW n \in 0 .. Len(s)
    PROVE  /\ Drop(s, n) \in Seq(S)
           /\ Len(Drop(s, n)) = Len(s) - n
           /\ \A i \in 1 .. Len(s) - n : Drop(s, n)[i] = s[i + n]
  <1>1. n + 1 \in Int /\ Len(s) \in Int /\ \A i \in n + 1 .. Len(s) : s[i] \in S
    OBVIOUS
  <1>2. /\ SubSeq(s, n + 1, Len(s)) \in Seq(S)
        /\ Len(SubSeq(s, n + 1, Len(s))) =
              IF n + 1 <= Len(s) THEN Len(s) - (n + 1) + 1 ELSE 0
        /\ \A i \in 1 .. Len(s) - (n + 1) + 1 : SubSeq(s, n + 1, Len(s))[i] = s[n + 1 + i - 1]
    BY <1>1, SubSeqProperties
  <1> DEFINE d == SubSeq(s, n + 1, Len(s))
  <1> HIDE DEF d
  <1>3. /\ d \in Seq(S)
        /\ Len(d) = Len(s) - n
        /\ \A i \in 1 .. Len(s) - n : d[i] = s[i + n]
    BY <1>2 DEF d
  <1>4. Drop(s, n) = d
    BY DEF Drop, d
  <1>5. QED
    BY <1>3, <1>4

(* A piece from the middle.                                                *)
LEMMA PiecePlaces ==
    ASSUME NEW S, NEW s \in Seq(S), NEW m \in Nat \ {0}, NEW n \in 0 .. Len(s)
    PROVE  /\ SubSeq(s, m, n) \in Seq(S)
           /\ \A i \in 1 .. Len(SubSeq(s, m, n)) :
                 m + i - 1 \in m .. n /\ SubSeq(s, m, n)[i] = s[m + i - 1]
  <1>1. m \in Int /\ n \in Int /\ \A i \in m .. n : s[i] \in S
    OBVIOUS
  <1>2. /\ SubSeq(s, m, n) \in Seq(S)
        /\ Len(SubSeq(s, m, n)) = IF m <= n THEN n - m + 1 ELSE 0
        /\ \A i \in 1 .. n - m + 1 : SubSeq(s, m, n)[i] = s[m + i - 1]
    BY <1>1, SubSeqProperties
  <1> DEFINE p == SubSeq(s, m, n)
  <1> HIDE DEF p
  <1>3. /\ p \in Seq(S)
        /\ Len(p) = IF m <= n THEN n - m + 1 ELSE 0
        /\ \A i \in 1 .. n - m + 1 : p[i] = s[m + i - 1]
    BY <1>2 DEF p
  <1>4. \A i \in 1 .. Len(p) : m + i - 1 \in m .. n /\ p[i] = s[m + i - 1]
    BY <1>3
  <1>5. QED
    BY <1>3, <1>4 DEF p

(* Consecutive places.                                                     *)
LEMMA PlacesAre ==
    ASSUME NEW t \in Nat, NEW n \in Nat
    PROVE  /\ Places(t, t + n) \in Seq(1 .. t + n)
           /\ Len(Places(t, t + n)) = n
           /\ \A i \in 1 .. n : Places(t, t + n)[i] = t + i
  <1>1. Places(t, t + n) = [i \in 1 .. n |-> t + i]
    <2>1. t + n - t = n
      OBVIOUS
    <2>2. QED
      BY <2>1 DEF Places
  <1>2. [i \in 1 .. n |-> t + i] \in [1 .. n -> 1 .. t + n]
    OBVIOUS
  <1>3. [i \in 1 .. n |-> t + i] \in Seq(1 .. t + n)
    BY <1>2, SeqDef
  <1>4. QED
    BY <1>1, <1>3

-----------------------------------------------------------------------------
(* Chains: the packets so far, and the bytes that they may be followed by. *)
Chain(packets, rest) ==
    /\ InOrder(packets)
    /\ \A k \in 1 .. Len(packets) : Before(packets[k], rest)

(* A chain stays one when bytes at the front of the rest are dropped.      *)
LEMMA ChainShrinks ==
    ASSUME NEW t \in Nat, NEW packets \in Seq(Seq(1 .. t)), NEW rest \in Seq(1 .. t),
           NEW n \in 0 .. Len(rest), Increasing(rest), Chain(packets, rest)
    PROVE  /\ Chain(packets, Drop(rest, n))
           /\ Increasing(Drop(rest, n))
  <1> DEFINE d == Drop(rest, n)
  <1>1. /\ d \in Seq(1 .. t)
        /\ Len(d) = Len(rest) - n
        /\ \A i \in 1 .. Len(rest) - n : d[i] = rest[i + n]
    BY DropPlaces
  <1> HIDE DEF d
  <1>2. \A i \in 1 .. Len(d) : i + n \in 1 .. Len(rest) /\ d[i] = rest[i + n]
    BY <1>1, SMTT(40)
  <1>3. Increasing(d)
    <2> SUFFICES ASSUME NEW i \in 1 .. Len(d), NEW j \in 1 .. Len(d), i < j
                 PROVE  d[i] < d[j]
      BY DEF Increasing
    <2>1. i + n < j + n
      BY <1>1
    <2>2. QED
      BY <1>2, <2>1 DEF Increasing
  <1>4. \A k \in 1 .. Len(packets) : Before(packets[k], d)
    BY <1>2 DEF Chain, Before
  <1>5. QED
    BY <1>3, <1>4 DEF Chain, d

(* A chain stays one when the bytes of a new packet are cut out of the     *)
(* front of the rest, with or without something before and after them.     *)
LEMMA ChainGrows ==
    ASSUME NEW t \in Nat, NEW packets \in Seq(Seq(1 .. t)), NEW rest \in Seq(1 .. t),
           NEW size \in 0 .. Len(rest), NEW m \in Nat \ {0}, NEW n \in 0 .. size,
           Increasing(rest), Chain(packets, rest)
    PROVE  /\ SubSeq(rest, m, n) \in Seq(1 .. t)
           /\ Chain(Append(packets, SubSeq(rest, m, n)), Drop(rest, size))
  <1> DEFINE p == SubSeq(rest, m, n)
             d == Drop(rest, size)
             longer == Append(packets, p)
  <1>1. /\ p \in Seq(1 .. t)
        /\ \A i \in 1 .. Len(p) : m + i - 1 \in m .. n /\ p[i] = rest[m + i - 1]
    <2> DEFINE T == 1 .. t
    <2>1. n \in 0 .. Len(rest) /\ m \in Nat \ {0} /\ rest \in Seq(T)
      OBVIOUS
    <2> HIDE DEF T
    <2>2. /\ SubSeq(rest, m, n) \in Seq(T)
          /\ \A i \in 1 .. Len(SubSeq(rest, m, n)) :
                m + i - 1 \in m .. n /\ SubSeq(rest, m, n)[i] = rest[m + i - 1]
      BY ONLY <2>1, PiecePlaces
    <2>3. QED
      BY <2>2 DEF T
  <1>2. /\ d \in Seq(1 .. t)
        /\ Len(d) = Len(rest) - size
        /\ \A i \in 1 .. Len(rest) - size : d[i] = rest[i + size]
    BY DropPlaces
  <1> HIDE DEF p, d
  <1>3. /\ longer \in Seq(Seq(1 .. t))
        /\ Len(longer) = Len(packets) + 1
        /\ \A k \in 1 .. Len(packets) : longer[k] = packets[k]
        /\ longer[Len(packets) + 1] = p
    BY <1>1, AppendProperties
  <1> HIDE DEF longer
  <1>4. Len(p) \in Nat /\ Len(d) \in Nat /\ Len(packets) \in Nat
    BY <1>1, <1>2
  <1>5. \A i \in 1 .. Len(p) : m + i - 1 \in 1 .. Len(rest)
    <2> SUFFICES ASSUME NEW i \in 1 .. Len(p)
                 PROVE  m + i - 1 \in 1 .. Len(rest)
      OBVIOUS
    <2>1. m + i - 1 \in m .. n
      BY <1>1
    <2>2. QED
      BY <2>1
  <1>6. Increasing(p)
    <2> SUFFICES ASSUME NEW i \in 1 .. Len(p), NEW j \in 1 .. Len(p), i < j
                 PROVE  p[i] < p[j]
      BY DEF Increasing
    <2>1. m + i - 1 < m + j - 1
      BY <1>4
    <2>2. QED
      BY <1>1, <1>5, <2>1 DEF Increasing
  <1>7. ASSUME NEW k \in 1 .. Len(packets)
        PROVE  Before(packets[k], p) /\ Before(packets[k], d)
    <2>1. \A i \in 1 .. Len(packets[k]), j \in 1 .. Len(rest) : packets[k][i] < rest[j]
      BY DEF Chain, Before
    <2>2. Before(packets[k], p)
      BY <1>1, <1>5, <2>1 DEF Before
    <2>3. \A i \in 1 .. Len(d) : i + size \in 1 .. Len(rest)
      BY <1>2
    <2>4. Before(packets[k], d)
      BY <1>2, <2>1, <2>3 DEF Before
    <2>5. QED
      BY <2>2, <2>4
  <1>8. Before(p, d)
    <2> SUFFICES ASSUME NEW i \in 1 .. Len(p), NEW j \in 1 .. Len(d)
                 PROVE  p[i] < d[j]
      BY DEF Before
    <2>1. p[i] = rest[m + i - 1] /\ m + i - 1 \in 1 .. Len(rest) /\ m + i - 1 <= n
      BY <1>1, <1>5
    <2>2. d[j] = rest[j + size] /\ j + size \in 1 .. Len(rest)
      BY <1>2
    <2>3. m + i - 1 < j + size
      BY <1>4, <2>1
    <2>4. QED
      BY <2>1, <2>2, <2>3 DEF Increasing
  <1>9. \A k \in 1 .. Len(longer) : k \in 1 .. Len(packets) \/ k = Len(packets) + 1
    BY <1>3, <1>4
  <1>10. InOrder(longer)
    <2>1. \A k \in 1 .. Len(longer) : Increasing(longer[k])
      BY <1>3, <1>6, <1>9 DEF Chain, InOrder
    <2>2. ASSUME NEW k \in 1 .. Len(longer), NEW l \in 1 .. Len(longer), k < l
          PROVE  Before(longer[k], longer[l])
      <3>1. k \in 1 .. Len(packets)
        BY <1>3, <1>4, <2>2
      <3>2. CASE l \in 1 .. Len(packets)
        BY <1>3, <2>2, <3>1, <3>2 DEF Chain, InOrder
      <3>3. CASE l = Len(packets) + 1
        BY <1>3, <1>7, <3>1, <3>3
      <3>4. QED
        BY <1>9, <3>2, <3>3
    <2>3. QED
      BY <2>1, <2>2 DEF InOrder
  <1>11. \A k \in 1 .. Len(longer) : Before(longer[k], d)
    BY <1>3, <1>7, <1>8, <1>9
  <1>12. Chain(longer, d)
    BY <1>10, <1>11 DEF Chain
  <1>13. QED
    BY <1>1, <1>12 DEF longer, p, d

(* A chain stays one when bytes arrive, which come after all the others.   *)
LEMMA ChainReads ==
    ASSUME NEW t \in Nat, NEW packets \in Seq(Seq(1 .. t)), NEW rest \in Seq(1 .. t),
           NEW n \in Nat, Increasing(rest), Chain(packets, rest)
    PROVE  /\ rest \o Places(t, t + n) \in Seq(1 .. t + n)
           /\ Chain(packets, rest \o Places(t, t + n))
           /\ Increasing(rest \o Places(t, t + n))
  <1> DEFINE new == Places(t, t + n)
             longer == rest \o new
  <1>1. /\ new \in Seq(1 .. t + n)
        /\ Len(new) = n
        /\ \A i \in 1 .. n : new[i] = t + i
    BY PlacesAre
  <1> HIDE DEF new
  <1>2. rest \in Seq(1 .. t + n)
    <2>1. 1 .. t \subseteq 1 .. t + n
      OBVIOUS
    <2>2. QED
      BY <2>1, SeqMonotonic
  <1>3. /\ longer \in Seq(1 .. t + n)
        /\ Len(longer) = Len(rest) + n
        /\ \A i \in 1 .. Len(rest) + n :
              longer[i] = IF i <= Len(rest) THEN rest[i] ELSE new[i - Len(rest)]
    <2>1. /\ longer \in Seq(1 .. t + n)
          /\ Len(longer) = Len(rest) + Len(new)
          /\ \A i \in 1 .. Len(rest) + Len(new) :
                longer[i] = IF i <= Len(rest) THEN rest[i] ELSE new[i - Len(rest)]
      BY <1>1, <1>2, ConcatProperties
    <2>2. QED
      BY <1>1, <2>1
  <1> HIDE DEF longer
  <1>4. /\ Len(rest) \in Nat
        /\ \A i \in 1 .. Len(rest) : longer[i] = rest[i] /\ rest[i] \in 1 .. t
        /\ \A i \in Len(rest) + 1 .. Len(rest) + n : longer[i] = t + (i - Len(rest))
    <2>1. Len(rest) \in Nat /\ \A i \in 1 .. Len(rest) : rest[i] \in 1 .. t
      OBVIOUS
    <2>2. \A i \in 1 .. Len(rest) : longer[i] = rest[i]
      BY <1>3, <2>1, SMTT(40)
    <2>3. ASSUME NEW i \in Len(rest) + 1 .. Len(rest) + n
          PROVE  longer[i] = t + (i - Len(rest))
      <3>1. i \in 1 .. Len(rest) + n /\ ~(i <= Len(rest)) /\ i - Len(rest) \in 1 .. n
        BY <2>1
      <3>2. QED
        BY <1>1, <1>3, <3>1
    <2>4. QED
      BY <2>1, <2>2, <2>3
  <1>5. \A i \in 1 .. Len(longer) :
           i \in 1 .. Len(rest) \/ i \in Len(rest) + 1 .. Len(rest) + n
    BY <1>3, <1>4
  <1>6. Increasing(longer)
    <2> SUFFICES ASSUME NEW i \in 1 .. Len(longer), NEW j \in 1 .. Len(longer), i < j
                 PROVE  longer[i] < longer[j]
      BY DEF Increasing
    <2>1. CASE j \in 1 .. Len(rest)
      <3>1. i \in 1 .. Len(rest)
        BY <1>4, <2>1
      <3>2. QED
        BY <1>4, <2>1, <3>1 DEF Increasing
    <2>2. CASE j \in Len(rest) + 1 .. Len(rest) + n
      <3>1. CASE i \in 1 .. Len(rest)
        <4>1. longer[i] \in 1 .. t
          BY <1>4, <3>1
        <4>2. longer[j] = t + (j - Len(rest)) /\ j - Len(rest) \in Nat \ {0}
          BY <1>4, <2>2
        <4>3. QED
          BY <4>1, <4>2
      <3>2. CASE i \in Len(rest) + 1 .. Len(rest) + n
        BY <1>4, <2>2, <3>2
      <3>3. QED
        BY <1>5, <3>1, <3>2
    <2>3. QED
      BY <1>5, <2>1, <2>2
  <1>7. ASSUME NEW k \in 1 .. Len(packets)
        PROVE  Before(packets[k], longer)
    <2> SUFFICES ASSUME NEW i \in 1 .. Len(packets[k]), NEW j \in 1 .. Len(longer)
                 PROVE  packets[k][i] < longer[j]
      BY DEF Before
    <2>1. packets[k][i] \in 1 .. t
      <3>1. packets[k] \in Seq(1 .. t)
        OBVIOUS
      <3>2. QED
        BY <3>1, SMTT(40)
    <2>2. CASE j \in 1 .. Len(rest)
      BY <1>4, <2>2 DEF Chain, Before
    <2>3. CASE j \in Len(rest) + 1 .. Len(rest) + n
      <3>1. longer[j] = t + (j - Len(rest)) /\ j - Len(rest) >= 1
        BY <1>4, <2>3
      <3>2. QED
        BY <1>4, <2>1, <3>1, SMTT(40)
    <2>4. QED
      BY <1>5, <2>2, <2>3
  <1>8. Chain(packets, longer)
    BY <1>7 DEF Chain
  <1>9. QED
    BY <1>3, <1>6, <1>8 DEF longer, new

(* A chain stays one when its first packet is taken.                       *)
LEMMA ChainTaken ==
    ASSUME NEW S, NEW packets \in Seq(S), packets # <<>>, NEW rest, Chain(packets, rest)
    PROVE  Chain(Tail(packets), rest)
  <1>1. /\ Len(Tail(packets)) = Len(packets) - 1
        /\ \A i \in 1 .. Len(Tail(packets)) : Tail(packets)[i] = packets[i + 1]
    BY HeadTailProperties
  <1> DEFINE left == Tail(packets)
  <1> HIDE DEF left
  <1>2. \A i \in 1 .. Len(left) : left[i] = packets[i + 1] /\ i + 1 \in 1 .. Len(packets)
    BY <1>1 DEF left
  <1>3. \A k, l \in 1 .. Len(left) : k < l => k + 1 < l + 1
    BY <1>1 DEF left
  <1>4. Chain(left, rest)
    BY <1>2, <1>3 DEF Chain, InOrder
  <1>5. QED
    BY <1>4 DEF left

-----------------------------------------------------------------------------
(* What the adapters find.                                                 *)

(* The preamble of a discovery response is counted.                        *)
LEMMA PreambleCounted ==
    ASSUME NEW b \in Seq(Byte)
    PROVE  /\ PreambleLen(b) \in 0 .. MAX_PREAMBLE_BYTES
           /\ PreambleLen(b) <= Len(b)
           /\ \A i \in 1 .. PreambleLen(b) : b[i] = RDM_DISCOVERY
           /\ PreambleLen(b) < MAX_PREAMBLE_BYTES /\ PreambleLen(b) < Len(b) =>
                  b[PreambleLen(b) + 1] # RDM_DISCOVERY
  <1> DEFINE Run(n) == n <= Len(b) /\ \A i \in 1 .. n : b[i] = RDM_DISCOVERY
             Ends(n) == (n < MAX_PREAMBLE_BYTES /\ n < Len(b)) => b[n + 1] # RDM_DISCOVERY
  <1>1. Len(b) \in Nat
    OBVIOUS
  <1>2. Run(0)
    BY <1>1
  <1>3. ASSUME NEW n \in 0 .. 6, Run(n), ~Ends(n)
        PROVE  Run(n + 1)
    <2>1. n + 1 <= Len(b) /\ b[n + 1] = RDM_DISCOVERY
      BY <1>1, <1>3
    <2>2. \A i \in 1 .. n + 1 : i \in 1 .. n \/ i = n + 1
      OBVIOUS
    <2>3. QED
      BY <1>3, <2>1, <2>2
  <1>4. Ends(7)
    BY DEF MAX_PREAMBLE_BYTES
  <1> HIDE DEF Run, Ends
  <1>5. \E n \in 0 .. 7 : Run(n) /\ Ends(n)
    <2> SUFFICES ASSUME \A n \in 0 .. 7 : ~(Run(n) /\ Ends(n))
                 PROVE  FALSE
      OBVIOUS
    <2>1. \A n \in 0 .. 6 : Run(n) => Run(n + 1)
      BY <1>3
    <2>2. Run(1) /\ Run(2) /\ Run(3)
      BY <1>2, <2>1
    <2>3. Run(4) /\ Run(5) /\ Run(6) /\ Run(7)
      BY <2>1, <2>2
    <2>4. QED
      BY <1>4, <2>3
  <1>6. PreambleLen(b) = CHOOSE n \in 0 .. MAX_PREAMBLE_BYTES : Run(n) /\ Ends(n)
    BY DEF PreambleLen, Run, Ends
  <1>7. /\ PreambleLen(b) \in 0 .. MAX_PREAMBLE_BYTES
        /\ Run(PreambleLen(b)) /\ Ends(PreambleLen(b))
    BY <1>5, <1>6 DEF MAX_PREAMBLE_BYTES
  <1>8. QED
    BY <1>7 DEF Run, Ends

(* A set of numbers has a first one: the sets of the numbers below them    *)
(* are finite, and strict inclusion is well-founded on finite sets.        *)
LEMMA FirstExists ==
    ASSUME NEW at \in SUBSET Nat, at # {}
    PROVE  \E i \in at : \A j \in at : i <= j
  <1> DEFINE Below(i) == 0 .. i - 1
             T == {Below(i) : i \in at}
             R == StrictSubsetOrdering(Nat)
  <1>1. IsWellFoundedOn(R, FiniteSubsetsOf(Nat))
    BY FS_StrictSubsetOrderingWellFounded
  <1>2. \A i \in at : Below(i) \in FiniteSubsetsOf(Nat)
    <2> SUFFICES ASSUME NEW i \in at
                 PROVE  Below(i) \in FiniteSubsetsOf(Nat)
      OBVIOUS
    <2>1. 0 \in Int /\ i - 1 \in Int /\ Below(i) \subseteq Nat
      OBVIOUS
    <2>2. IsFiniteSet(Below(i))
      BY <2>1, FS_Interval
    <2>3. QED
      BY <2>1, <2>2 DEF FiniteSubsetsOf
  <1>3. \A i, j \in at : j < i => <<Below(j), Below(i)>> \in R
    <2> SUFFICES ASSUME NEW i \in at, NEW j \in at, j < i
                 PROVE  <<Below(j), Below(i)>> \in R
      OBVIOUS
    <2>1. Below(j) \subseteq Below(i) /\ j \in Below(i) /\ j \notin Below(j)
      OBVIOUS
    <2>2. Below(i) \in SUBSET Nat /\ Below(j) \in SUBSET Nat
      OBVIOUS
    <2> HIDE DEF Below
    <2>3. QED
      BY <2>1, <2>2 DEF StrictSubsetOrdering
  <1>4. T \subseteq FiniteSubsetsOf(Nat) /\ T # {}
    BY <1>2
  <1> HIDE DEF R, Below
  <1>5. PICK x \in T : \A y \in T : ~(<<y, x>> \in R)
    BY <1>1, <1>4, WFMin
  <1>6. PICK i \in at : x = Below(i)
    OBVIOUS
  <1>7. \A j \in at : ~(j < i)
    BY <1>3, <1>5, <1>6
  <1>8. QED
    BY <1>7

(* No frame is longer than what has been received.                         *)
LEMMA FrameFits ==
    ASSUME NEW adapter \in Adapter, NEW b \in Seq(Byte)
    PROVE  FindFrame(adapter, b) \in 0 .. Len(b)
  <1>1. Len(b) \in Nat /\ \A i \in 1 .. Len(b) : b[i] \in Nat
    <2>1. \A i \in 1 .. Len(b) : b[i] \in Byte
      BY ElementOfSeq
    <2>2. Len(b) \in Nat
      OBVIOUS
    <2>3. Byte \subseteq Nat
      BY DEF Byte
    <2>4. QED
      BY <2>1, <2>2, <2>3
  <1>2. \A size \in Nat : IfWhole(b, size) \in 0 .. Len(b)
    BY <1>1 DEF IfWhole
  <1>3. CASE adapter = "enttec"
    <2>1. CASE Len(b) >= 5
      <3>1. b[3] \in Nat /\ b[4] \in Nat
        BY <1>1, <2>1
      <3>2. EnttecSize(b) \in Nat
        BY <3>1 DEF EnttecSize
      <3>3. QED
        BY <1>1, <1>3, <3>2 DEF FindFrame, FindEnttec
    <2>2. CASE ~(Len(b) >= 5)
      BY <1>1, <1>3, <2>2 DEF FindFrame, FindEnttec
    <2>3. QED
      BY <2>1, <2>2
  <1>4. CASE adapter = "bare"
    <2>1. FindDiscovery(b) \in 0 .. Len(b)
      <3>1. PreambleLen(b) + 1 + MANCHESTER_DATA_LEN \in Nat
        BY PreambleCounted DEF MAX_PREAMBLE_BYTES, MANCHESTER_DATA_LEN
      <3>2. QED
        BY <1>1, <1>2, <3>1 DEF FindDiscovery
    <2>2. CASE b # <<>> /\ b[1] = RDM_DISCOVERY
      <3>1. FindBare(b) = FindDiscovery(b)
        BY <2>2 DEF FindBare, RDM, RDM_DISCOVERY
      <3>2. FindFrame(adapter, b) = FindBare(b)
        BY <1>4 DEF FindFrame
      <3>3. QED
        BY <2>1, <3>1, <3>2
    <2>3. CASE ~(b # <<>> /\ b[1] = RDM_DISCOVERY) /\ Len(b) >= 3 /\ b[1] = RDM
      <3>1. b[3] + 2 \in Nat
        BY <1>1, <2>3
      <3>2. QED
        BY <1>2, <1>4, <2>3, <3>1 DEF FindFrame, FindBare
    <2>4. CASE ~(b # <<>> /\ b[1] = RDM_DISCOVERY) /\ ~(Len(b) >= 3 /\ b[1] = RDM)
      BY <1>1, <1>4, <2>4 DEF FindFrame, FindBare
    <2>5. QED
      BY <2>2, <2>3, <2>4
  <1>5. CASE adapter \in {"line", "delimiter"}
    <2> DEFINE at == {i \in 1 .. Len(b) : b[i] = Newline}
    <2>1. CASE at = {}
      BY <1>1, <1>5, <2>1 DEF FindFrame, FindDelimiter
    <2>2. CASE at # {}
      <3>1. \E i \in at : \A j \in at : i <= j
        <4>1. at \in SUBSET Nat
          BY <1>1
        <4>2. QED
          BY <2>2, <4>1, FirstExists
      <3>2. FindDelimiter(b) = CHOOSE i \in at : \A j \in at : i <= j
        BY <2>2 DEF FindDelimiter
      <3>3. FindDelimiter(b) \in at
        BY <3>1, <3>2
      <3>4. QED
        BY <1>1, <1>5, <3>3 DEF FindFrame
    <2>3. QED
      BY <2>1, <2>2
  <1>6. CASE adapter = "length"
    <2>1. CASE b = <<>>
      BY <1>1, <1>6, <2>1 DEF FindFrame, FindLength
    <2>2. CASE b # <<>>
      <3>1. 1 + b[1] \in Nat
        BY <1>1, <2>2
      <3>2. QED
        BY <1>2, <1>6, <2>2, <3>1 DEF FindFrame, FindLength
    <2>3. QED
      BY <2>1, <2>2
  <1>7. CASE adapter = "raw"
    BY <1>1, <1>7 DEF FindFrame
  <1>8. QED
    BY <1>3, <1>4, <1>5, <1>6, <1>7 DEF Adapter

(* What follows a frame does not change it: a frame that is found stays    *)
(* the same when more bytes arrive.  In RAW mode every read is a frame.    *)
LEMMA FoundStays ==
    ASSUME NEW adapter \in Adapter \ {"raw"}, NEW b \in Seq(Byte), NEW c \in Seq(Byte),
           Len(b) <= Len(c), \A i \in 1 .. Len(b) : c[i] = b[i],
           FindFrame(adapter, b) > 0
    PROVE  FindFrame(adapter, c) = FindFrame(adapter, b)
  <1>1. /\ Len(b) \in Nat /\ Len(c) \in Nat
        /\ \A i \in 1 .. Len(b) : b[i] \in Nat
    <2>1. \A i \in 1 .. Len(b) : b[i] \in Byte
      BY ElementOfSeq
    <2>2. Byte \subseteq Nat
      BY DEF Byte
    <2>3. Len(b) \in Nat /\ Len(c) \in Nat
      OBVIOUS
    <2>4. QED
      BY <2>1, <2>2, <2>3
  <1>2. (b = <<>> <=> Len(b) = 0) /\ (c = <<>> <=> Len(c) = 0)
    OBVIOUS
  <1>3. CASE adapter = "enttec"
    <2>1. Len(b) >= 5 /\ FindFrame(adapter, b) = EnttecSize(b) /\ Len(b) >= EnttecSize(b)
          /\ b[1] = START_OF_MESSAGE /\ b[EnttecSize(b)] = END_OF_MESSAGE
      BY <1>3 DEF FindFrame, FindEnttec
    <2>2. b[3] \in Nat /\ b[4] \in Nat /\ c[1] = b[1] /\ c[3] = b[3] /\ c[4] = b[4]
      BY <1>1, <2>1
    <2>3. EnttecSize(c) = EnttecSize(b) /\ EnttecSize(b) \in 1 .. Len(b)
      BY <1>1, <2>1, <2>2 DEF EnttecSize
    <2>4. c[EnttecSize(c)] = END_OF_MESSAGE
      BY <2>1, <2>3
    <2>5. QED
      BY <1>1, <1>3, <2>1, <2>2, <2>3, <2>4 DEF FindFrame, FindEnttec
  <1>4. CASE adapter = "bare"
    <2>1. CASE b # <<>> /\ b[1] = RDM_DISCOVERY
      <3> DEFINE m == PreambleLen(b)
                 n == PreambleLen(c)
      <3>1. /\ FindFrame(adapter, b) = FindDiscovery(b)
            /\ c # <<>> /\ c[1] = RDM_DISCOVERY
        <4>1. FindBare(b) = FindDiscovery(b)
          BY <2>1 DEF FindBare, RDM, RDM_DISCOVERY
        <4>2. 1 \in 1 .. Len(b)
          BY <1>1, <1>2, <2>1
        <4>3. c # <<>> /\ c[1] = RDM_DISCOVERY
          BY <1>1, <1>2, <2>1, <4>2
        <4>4. QED
          BY <1>4, <4>1, <4>3 DEF FindFrame
      <3>2. FindFrame(adapter, c) = FindDiscovery(c)
        <4>1. FindBare(c) = FindDiscovery(c)
          BY <3>1 DEF FindBare, RDM, RDM_DISCOVERY
        <4>2. QED
          BY <1>4, <4>1 DEF FindFrame
      <3>3. /\ m \in 0 .. 7 /\ m <= Len(b) /\ \A i \in 1 .. m : b[i] = 254
            /\ n \in 0 .. 7 /\ n <= Len(c) /\ \A i \in 1 .. n : c[i] = 254
            /\ n < 7 /\ n < Len(c) => c[n + 1] # 254
        BY PreambleCounted DEF MAX_PREAMBLE_BYTES, RDM_DISCOVERY
      <3>4. /\ m + 1 > 1 /\ m + 1 <= Len(b) /\ b[m + 1] = DISCOVERY_START
            /\ FindDiscovery(b) = IfWhole(b, m + 1 + MANCHESTER_DATA_LEN)
        BY <3>1 DEF FindDiscovery
      <3> HIDE DEF m, n
      <3>5. ~(n < m)
        <4>1. SUFFICES ASSUME n < m PROVE FALSE
          OBVIOUS
        <4>2. n + 1 \in 1 .. m /\ n + 1 \in 1 .. Len(b) /\ n < 7 /\ n < Len(c)
          BY <1>1, <3>3, <4>1
        <4>3. c[n + 1] = 254
          BY <3>3, <4>2
        <4>4. QED
          BY <3>3, <4>2, <4>3
      <3>6. ~(m < n)
        <4>1. SUFFICES ASSUME m < n PROVE FALSE
          OBVIOUS
        <4>2. m + 1 \in 1 .. n /\ m + 1 \in 1 .. Len(b)
          BY <1>1, <3>3, <3>4, <4>1
        <4>3. c[m + 1] = 254 /\ c[m + 1] = 170
          BY <3>3, <3>4, <4>2 DEF DISCOVERY_START
        <4>4. QED
          BY <4>3
      <3>7. n = m
        BY <3>3, <3>5, <3>6
      <3>8. c[n + 1] = DISCOVERY_START
        BY <1>1, <3>3, <3>4, <3>7
      <3>9. FindDiscovery(c) = IfWhole(c, n + 1 + MANCHESTER_DATA_LEN)
        BY <1>1, <3>3, <3>4, <3>7, <3>8 DEF FindDiscovery, n
      <3>10. m + 1 + MANCHESTER_DATA_LEN <= Len(b)
        BY <3>1, <3>4 DEF IfWhole
      <3>11. QED
        BY <1>1, <3>1, <3>2, <3>3, <3>4, <3>7, <3>9, <3>10 DEF IfWhole, MANCHESTER_DATA_LEN
    <2>2. CASE ~(b # <<>> /\ b[1] = RDM_DISCOVERY)
      <3>1. Len(b) >= 3 /\ b[1] = RDM /\ FindFrame(adapter, b) = IfWhole(b, b[3] + 2)
        BY <1>4, <2>2 DEF FindFrame, FindBare
      <3>2. c[1] = RDM /\ c[3] = b[3] /\ Len(c) >= 3 /\ b[3] \in Nat
        BY <1>1, <3>1
      <3>3. ~(c[1] = RDM_DISCOVERY)
        BY <3>2 DEF RDM, RDM_DISCOVERY
      <3>4. FindFrame(adapter, c) = IfWhole(c, c[3] + 2)
        BY <1>4, <3>2, <3>3 DEF FindFrame, FindBare
      <3>5. QED
        BY <1>1, <3>1, <3>2, <3>4 DEF IfWhole
    <2>3. QED
      BY <2>1, <2>2
  <1>5. CASE adapter \in {"line", "delimiter"}
    <2> DEFINE at(s) == {i \in 1 .. Len(s) : s[i] = Newline}
    <2>1. at(b) # {} /\ FindFrame(adapter, b) = CHOOSE i \in at(b) : \A j \in at(b) : i <= j
      BY <1>5 DEF FindFrame, FindDelimiter
    <2>2. \E i \in at(b) : \A j \in at(b) : i <= j
      <3>1. at(b) \in SUBSET Nat
        BY <1>1
      <3>2. QED
        BY <2>1, <3>1, FirstExists
    <2> HIDE DEF at
    <2>3. FindFrame(adapter, b) \in at(b) /\ \A j \in at(b) : FindFrame(adapter, b) <= j
      BY <2>1, <2>2
    <2> DEFINE f == FindFrame(adapter, b)
    <2> HIDE DEF f
    <2> USE DEF at
    <2>4. f \in 1 .. Len(b) /\ b[f] = Newline
      BY <2>3 DEF f
    <2>5. f \in at(c)
      BY <1>1, <2>4
    <2>6. \A j \in at(c) : f <= j
      <3>1. SUFFICES ASSUME NEW j \in at(c), ~(f <= j) PROVE FALSE
        OBVIOUS
      <3>2. j \in 1 .. Len(c) /\ c[j] = Newline
        BY <3>1
      <3>3. j \in 1 .. Len(b)
        BY <1>1, <2>4, <3>1, <3>2
      <3>4. b[j] = Newline
        BY <3>2, <3>3
      <3>5. f <= j
        BY <2>3, <3>3, <3>4 DEF f
      <3>6. QED
        BY <3>1, <3>5
    <2>7. \A i \in at(c) : (\A j \in at(c) : i <= j) => i = f
      BY <1>1, <2>4, <2>5, <2>6
    <2>8. FindFrame(adapter, c) = CHOOSE i \in at(c) : \A j \in at(c) : i <= j
      BY <1>5, <2>5 DEF FindFrame, FindDelimiter
    <2> HIDE DEF at
    <2>9. FindFrame(adapter, c) = f
      BY <2>5, <2>6, <2>7, <2>8
    <2>10. QED
      BY <2>9 DEF f
  <1>6. CASE adapter = "length"
    <2>1. b # <<>> /\ FindFrame(adapter, b) = IfWhole(b, 1 + b[1])
      BY <1>6 DEF FindFrame, FindLength
    <2>2. c # <<>> /\ c[1] = b[1] /\ b[1] \in Nat
      BY <1>1, <1>2, <2>1
    <2>3. FindFrame(adapter, c) = IfWhole(c, 1 + c[1])
      BY <1>6, <2>2 DEF FindFrame, FindLength
    <2>4. QED
      BY <1>1, <2>1, <2>2, <2>3 DEF IfWhole
  <1>7. QED
    BY <1>3, <1>4, <1>5, <1>6 DEF Adapter

(* A packet is inside the frame that it comes in.                          *)
LEMMA PayloadFits ==
    ASSUME NEW adapter \in Adapter, NEW size \in Nat \ {0}
    PROVE  /\ Payload(adapter, size)[1] \in Nat \ {0}
           /\ Payload(adapter, size)[2] \in 0 .. size
  BY DEF Payload, Adapter

-----------------------------------------------------------------------------
(* The inductive invariant.  BytesInOrderOnce says nothing about the order *)
(* of the bytes in the buffer, nor that what is received later comes after *)
(* what waits in the queue; a packet is in order for these two reasons.    *)
IInv ==
    /\ TypeOK
    /\ Increasing(buffer)
    /\ Chain(extracted, buffer)
    /\ Chain(rx_queue, buffer)

(* The stream is one that the constants describe.                          *)
LEMMA StreamTypes ==
    ASSUME TypeOK
    PROVE  /\ stream.adapter \in Adapter
           /\ stream.bytes \in Seq(Byte)
           /\ Len(stream.bytes) \in Nat
  <1>1. stream.adapter \in Adapter /\ stream.bytes \in Seq(Byte)
    BY ReceiveAssumption DEF TypeOK, stream
  <1>2. QED
    BY <1>1, LenProperties

(* The bytes at places that have been read.                                *)
LEMMA BytesTypes ==
    ASSUME TypeOK, NEW s \in Seq(1 .. taken)
    PROVE  Bytes(s) \in Seq(Byte) /\ Len(Bytes(s)) = Len(s)
  <1>1. Len(s) \in Nat /\ DOMAIN s = 1 .. Len(s) /\ \A i \in 1 .. Len(s) : s[i] \in 1 .. taken
    BY LenProperties, ElementOfSeq
  <1>2. \A i \in 1 .. Len(s) : stream.bytes[s[i]] \in Byte
    <2> SUFFICES ASSUME NEW i \in 1 .. Len(s)
                 PROVE  stream.bytes[s[i]] \in Byte
      OBVIOUS
    <2>1. s[i] \in 1 .. taken
      BY <1>1
    <2>2. taken \in 0 .. Len(stream.bytes)
      BY DEF TypeOK
    <2>3. s[i] \in 1 .. Len(stream.bytes)
      BY <2>1, <2>2, StreamTypes
    <2>4. QED
      BY <2>3, StreamTypes, ElementOfSeq
  <1>3. Bytes(s) = [i \in 1 .. Len(s) |-> stream.bytes[s[i]]]
    BY <1>1 DEF Bytes
  <1>4. Bytes(s) \in [1 .. Len(s) -> Byte]
    BY <1>2, <1>3
  <1>5. Bytes(s) \in Seq(Byte)
    BY <1>1, <1>4, SeqDef
  <1>6. QED
    BY <1>1, <1>3, <1>5

(* Bytes at the front of the buffer go.                                    *)
LEMMA BufferShrinks ==
    ASSUME IInv, NEW n \in 0 .. Len(buffer), buffer' = Drop(buffer, n),
           UNCHANGED <<wire, taken, packetVars, interrupted>>,
           stalled' \in Int, phase' \in {"read", "extract"}, steps' \in 0 .. MaxIterations
    PROVE  IInv'
  <1>1. taken \in Nat /\ buffer \in Seq(1 .. taken)
    BY StreamTypes DEF IInv, TypeOK
  <1>2. extracted \in Seq(Seq(1 .. taken)) /\ rx_queue \in Seq(Seq(1 .. taken))
    BY DEF IInv, TypeOK, Packet
  <1>3. Increasing(buffer) /\ Chain(extracted, buffer) /\ Chain(rx_queue, buffer)
    BY DEF IInv
  <1>4. /\ Chain(extracted, buffer')
        /\ Chain(rx_queue, buffer')
        /\ Increasing(buffer')
    BY <1>1, <1>2, <1>3, ChainShrinks
  <1>5. buffer' \in Seq(1 .. taken)
    BY <1>1, DropPlaces
  <1>6. TypeOK'
    BY <1>5 DEF IInv, TypeOK, packetVars, stream, Packet
  <1>7. QED
    BY <1>4, <1>6 DEF IInv, packetVars

(* Bytes are read.                                                         *)
LEMMA ReadKeeps ==
    ASSUME IInv, NEW n \in 1 .. Len(stream.bytes) - taken, Read(n)
    PROVE  IInv'
  <1>1. taken \in Nat /\ buffer \in Seq(1 .. taken) /\ n \in Nat
    BY StreamTypes DEF IInv, TypeOK
  <1>2. extracted \in Seq(Seq(1 .. taken)) /\ rx_queue \in Seq(Seq(1 .. taken))
    BY DEF IInv, TypeOK, Packet
  <1>3. Increasing(buffer) /\ Chain(extracted, buffer) /\ Chain(rx_queue, buffer)
    BY DEF IInv
  <1>4. /\ buffer' \in Seq(1 .. taken + n)
        /\ Chain(extracted, buffer')
        /\ Chain(rx_queue, buffer')
        /\ Increasing(buffer')
    BY <1>1, <1>2, <1>3, ChainReads DEF Read
  <1>5. taken' = taken + n /\ taken' \in 0 .. Len(stream.bytes)
    BY <1>1, StreamTypes DEF Read, IInv
  <1>6. extracted \in Seq(Seq(1 .. taken + n)) /\ rx_queue \in Seq(Seq(1 .. taken + n))
    <2>1. 1 .. taken \subseteq 1 .. taken + n
      BY <1>1
    <2>2. Seq(1 .. taken) \subseteq Seq(1 .. taken + n)
      BY <2>1, SeqMonotonic
    <2>3. QED
      BY <1>2, <2>2, SeqMonotonic
  <1>7. 0 \in 0 .. MaxIterations
    BY ReceiveAssumption
  <1>8. TypeOK'
    BY <1>4, <1>5, <1>6, <1>7 DEF Read, IInv, TypeOK, packetVars, stream, Packet
  <1>9. QED
    BY <1>4, <1>8 DEF IInv, Read, packetVars

(* A frame is consumed, and the packet in it joins the others.             *)
LEMMA TakeFrameKeeps ==
    ASSUME IInv, TakeFrame
    PROVE  IInv'
  <1>1. taken \in Nat /\ buffer \in Seq(1 .. taken) /\ Len(buffer) \in Nat
    BY StreamTypes DEF IInv, TypeOK
  <1>2. extracted \in Seq(Seq(1 .. taken)) /\ rx_queue \in Seq(Seq(1 .. taken))
    BY DEF IInv, TypeOK, Packet
  <1>3. Increasing(buffer) /\ Chain(extracted, buffer) /\ Chain(rx_queue, buffer)
    BY DEF IInv
  <1> DEFINE size == FrameAtFront
  <1>4. size \in 1 .. Len(buffer)
    <2>1. FrameAtFront \in 0 .. Len(Bytes(buffer))
      BY <1>1, BytesTypes, StreamTypes, FrameFits DEF IInv, FrameAtFront
    <2>2. Len(Bytes(buffer)) = Len(buffer)
      BY <1>1, BytesTypes DEF IInv
    <2>3. QED
      BY <1>1, <2>1, <2>2 DEF TakeFrame
  <1> HIDE DEF size
  <1>5. /\ steps' \in 0 .. MaxIterations /\ stalled' \in Int
        /\ phase' = phase /\ phase \in {"read", "extract"}
        /\ UNCHANGED <<wire, taken, interrupted>>
    <2>1. steps \in 0 .. MaxIterations /\ steps < MaxIterations /\ steps' = steps + 1
      BY DEF TakeFrame, Extracting, IInv, TypeOK
    <2>2. QED
      BY <2>1, ReceiveAssumption DEF TakeFrame, Extracting, IInv, TypeOK, NoLength
  <1>6. buffer' = Drop(buffer, size)
    BY DEF TakeFrame, Consumed, size
  <1>7. CASE UNCHANGED packetVars
    <2>1. size \in 0 .. Len(buffer)
      BY <1>4
    <2>2. QED
      BY <1>5, <1>6, <1>7, <2>1, BufferShrinks
  <1>8. CASE ~UNCHANGED packetVars
    <2> DEFINE m == Payload(stream.adapter, size)[1]
               n == Payload(stream.adapter, size)[2]
               packet == SubSeq(buffer, m, n)
    <2>1. Put(packet)
      BY <1>8 DEF TakeFrame, size
    <2>2. m \in Nat \ {0} /\ n \in 0 .. size
      <3>1. size \in Nat \ {0}
        BY <1>1, <1>4
      <3>2. QED
        BY <3>1, StreamTypes, PayloadFits DEF IInv
    <2>3. size \in 0 .. Len(buffer)
      BY <1>4
    <2> HIDE DEF m, n
    <2>4. /\ packet \in Seq(1 .. taken)
          /\ Chain(Append(extracted, packet), buffer')
          /\ Chain(Append(rx_queue, packet), buffer')
      BY <1>1, <1>2, <1>3, <1>6, <2>2, <2>3, ChainGrows
    <2>5. Chain(rx_queue, buffer') /\ Increasing(buffer')
      BY <1>1, <1>2, <1>3, <1>6, <2>3, ChainShrinks
    <2>6. buffer' \in Seq(1 .. taken)
      BY <1>1, <1>6, <2>3, DropPlaces
    <2> HIDE DEF packet
    <2>7. /\ extracted' = Append(extracted, packet)
          /\ extracted' \in Seq(Seq(1 .. taken))
      BY <1>2, <2>1, <2>4 DEF Put
    <2>8. /\ rx_queue' \in {rx_queue, Append(rx_queue, packet)}
          /\ rx_queue' \in Seq(Seq(1 .. taken))
          /\ Len(rx_queue') <= QueueSize
      <3>1. CASE Len(rx_queue) < QueueSize
        <4>1. rx_queue' = Append(rx_queue, packet)
          BY <2>1, <3>1 DEF Put
        <4>2. Append(rx_queue, packet) \in Seq(Seq(1 .. taken))
              /\ Len(Append(rx_queue, packet)) = Len(rx_queue) + 1
          BY <1>2, <2>4, AppendProperties
        <4>3. Len(rx_queue) \in Nat
          BY <1>2, LenProperties
        <4>4. QED
          BY <3>1, <4>1, <4>2, <4>3, ReceiveAssumption
      <3>2. CASE ~(Len(rx_queue) < QueueSize)
        BY <1>2, <2>1, <3>2 DEF Put, IInv, TypeOK
      <3>3. QED
        BY <3>1, <3>2
    <2>9. TypeOK'
      BY <1>5, <2>6, <2>7, <2>8 DEF IInv, TypeOK, stream, Packet
    <2>10. QED
      BY <2>4, <2>5, <2>7, <2>8, <2>9 DEF IInv
  <1>9. QED
    BY <1>7, <1>8

(* A stall drops a byte if the buffer is as long as it was, and one if it  *)
(* is too long then.                                                       *)
LEMMA StallDrops ==
    ASSUME TypeOK, Stall
    PROVE  \E stuck, over \in 0 .. 1 :
              /\ stuck = 1 <=> Len(buffer) = stalled
              /\ over = 1 <=> Len(buffer) - stuck > MaxSize
              /\ stuck + over \in 0 .. Len(buffer)
              /\ buffer' = Drop(buffer, stuck + over)
              /\ stalled' = Len(buffer) - stuck
              /\ phase' = IF stuck + over = 0 THEN "read" ELSE "extract"
  <1>1. taken \in Nat /\ buffer \in Seq(1 .. taken) /\ Len(buffer) \in Nat
    BY StreamTypes DEF TypeOK
  <1>2. Len(buffer) >= 5 /\ MaxSize \in Nat
    BY ReceiveAssumption DEF Stall, Extracting
  <1> DEFINE left == IF Len(buffer) = stalled THEN Tail(buffer) ELSE buffer
             stuck == IF Len(buffer) = stalled THEN 1 ELSE 0
             over == IF Len(left) > MaxSize THEN 1 ELSE 0
  <1>3. /\ stalled' = Len(left)
        /\ buffer' = IF Len(left) > MaxSize THEN Tail(left) ELSE left
        /\ phase' = IF buffer' = buffer THEN "read" ELSE "extract"
    BY DEF Stall
  <1>4. left = Drop(buffer, stuck)
    <2>1. buffer # <<>> /\ Tail(buffer) = Drop(buffer, 1)
      BY <1>1, <1>2, TailIsSubSeq DEF Drop
    <2>2. buffer = Drop(buffer, 0)
      BY <1>1, SubSeqFull DEF Drop
    <2>3. QED
      BY <2>1, <2>2
  <1>5. stuck \in 0 .. 1 /\ over \in 0 .. 1 /\ (stuck = 1 <=> Len(buffer) = stalled)
        /\ (over = 1 <=> Len(left) > MaxSize)
    OBVIOUS
  <1> HIDE DEF left, stuck, over
  <1>6. stuck \in 0 .. Len(buffer) /\ stuck + over \in 0 .. Len(buffer)
    BY <1>1, <1>2, <1>5
  <1>7. /\ left \in Seq(1 .. taken) /\ Len(left) = Len(buffer) - stuck
        /\ \A i \in 1 .. Len(buffer) - stuck : left[i] = buffer[i + stuck]
    BY <1>1, <1>4, <1>6, DropPlaces
  <1>8. /\ Drop(buffer, stuck + over) \in Seq(1 .. taken)
        /\ Len(Drop(buffer, stuck + over)) = Len(buffer) - (stuck + over)
        /\ \A i \in 1 .. Len(buffer) - (stuck + over) :
              Drop(buffer, stuck + over)[i] = buffer[i + (stuck + over)]
    BY <1>1, <1>6, DropPlaces
  <1>9. buffer' = Drop(buffer, stuck + over)
    <2>1. CASE over = 0
      BY <1>3, <1>4, <1>5, <2>1
    <2>2. CASE over = 1
      <3>1. buffer' = Tail(left)
        BY <1>3, <1>5, <2>2
      <3>2. left # <<>>
        BY <1>1, <1>2, <1>5, <1>7
      <3>3. /\ Tail(left) \in Seq(1 .. taken) /\ Len(Tail(left)) = Len(left) - 1
            /\ \A i \in 1 .. Len(Tail(left)) : Tail(left)[i] = left[i + 1]
        BY <1>7, <3>2, HeadTailProperties
      <3>4. Len(Tail(left)) = Len(Drop(buffer, stuck + over))
        BY <1>1, <1>5, <1>7, <1>8, <2>2, <3>3, SMTT(40)
      <3>5. ASSUME NEW i \in 1 .. Len(Tail(left))
            PROVE  Tail(left)[i] = Drop(buffer, stuck + over)[i]
        <4>1. i + 1 \in 1 .. Len(buffer) - stuck /\ i \in 1 .. Len(buffer) - (stuck + over)
          BY <1>1, <1>5, <1>7, <2>2, <3>3
        <4>2. (i + 1) + stuck = i + (stuck + over)
          BY <1>5, <2>2
        <4>3. QED
          BY <1>7, <1>8, <3>3, <4>1, <4>2
      <3>6. Tail(left) = Drop(buffer, stuck + over)
        BY <1>8, <3>3, <3>4, <3>5, SeqEqual
      <3>7. QED
        BY <3>1, <3>6
    <2>3. QED
      BY <1>5, <2>1, <2>2
  <1>10. buffer' = buffer <=> stuck + over = 0
    <2>1. CASE stuck + over = 0
      <3>1. stuck = 0 /\ over = 0
        BY <1>5, <2>1
      <3>2. left = buffer
        BY <1>5, <3>1 DEF left
      <3>3. buffer' = left
        BY <1>3, <1>5, <3>1
      <3>4. QED
        BY <2>1, <3>2, <3>3
    <2>2. CASE stuck + over # 0
      <3>1. Len(buffer') = Len(buffer) - (stuck + over)
        BY <1>8, <1>9
      <3>2. Len(buffer) - (stuck + over) # Len(buffer)
        BY <1>1, <1>5, <2>2
      <3>3. QED
        BY <2>2, <3>1, <3>2
    <2>3. QED
      BY <2>1, <2>2
  <1>11. phase' = IF stuck + over = 0 THEN "read" ELSE "extract"
    BY <1>3, <1>10
  <1>12. stalled' = Len(buffer) - stuck /\ (over = 1 <=> Len(buffer) - stuck > MaxSize)
    BY <1>3, <1>5, <1>7
  <1> QED
    BY <1>5, <1>6, <1>9, <1>11, <1>12

(* Garbage is cut out before a frame, or at the front of the buffer.       *)
LEMMA GarbageKeeps ==
    ASSUME IInv, Resync \/ Stall
    PROVE  IInv'
  <1>1. taken \in Nat /\ buffer \in Seq(1 .. taken) /\ Len(buffer) \in Nat
    BY StreamTypes DEF IInv, TypeOK
  <1>2. /\ steps' \in 0 .. MaxIterations /\ Len(buffer) >= 5
        /\ UNCHANGED <<wire, taken, packetVars, interrupted>>
    <2>1. /\ steps \in 0 .. MaxIterations /\ steps < MaxIterations
          /\ steps' = steps + 1
      BY DEF Resync, Stall, Extracting, IInv, TypeOK
    <2>2. QED
      BY <2>1, ReceiveAssumption DEF Resync, Stall, Extracting, packetVars
  <1>3. CASE Resync
    <2>1. PICK offset \in Offsets : buffer' = Drop(buffer, offset)
      BY <1>3 DEF Resync
    <2>2. offset \in 0 .. Len(buffer)
      BY <1>1 DEF Offsets
    <2>3. stalled' \in Int /\ phase' \in {"read", "extract"}
      BY <1>3 DEF Resync, NoLength, IInv, TypeOK
    <2>4. QED
      BY <1>2, <2>1, <2>2, <2>3, BufferShrinks
  <1>4. CASE Stall
    <2>1. TypeOK
      BY DEF IInv
    <2>2. PICK stuck, over \in 0 .. 1 :
             /\ stuck + over \in 0 .. Len(buffer)
             /\ buffer' = Drop(buffer, stuck + over)
             /\ stalled' = Len(buffer) - stuck
             /\ phase' = IF stuck + over = 0 THEN "read" ELSE "extract"
      BY <1>4, <2>1, StallDrops
    <2>3. stalled' \in Int /\ phase' \in {"read", "extract"}
      BY <1>1, <2>2
    <2>4. QED
      BY <1>2, <2>2, <2>3, BufferShrinks
  <1>5. QED
    BY <1>3, <1>4

(* The protocol takes a packet.                                            *)
LEMMA ReceiveKeeps ==
    ASSUME IInv, Receive
    PROVE  IInv'
  <1>1. rx_queue \in Seq(Packet) /\ Len(rx_queue) <= QueueSize /\ rx_queue # <<>>
    BY DEF IInv, TypeOK, Receive
  <1>2. /\ Tail(rx_queue) \in Seq(Packet) /\ Len(Tail(rx_queue)) = Len(rx_queue) - 1
    BY <1>1, HeadTailProperties
  <1>3. Chain(Tail(rx_queue), buffer)
    BY <1>1, ChainTaken DEF IInv
  <1>4. Len(Tail(rx_queue)) <= QueueSize
    <2>1. Len(rx_queue) \in Nat
      BY <1>1, LenProperties
    <2>2. QED
      BY <1>1, <1>2, <2>1, ReceiveAssumption
  <1>5. Packet' = Packet
    BY DEF Receive, Packet
  <1>6. TypeOK'
    BY <1>2, <1>4, <1>5 DEF IInv, TypeOK, Receive, bufferVars, stream
  <1>7. QED
    BY <1>3, <1>6 DEF IInv, Receive, bufferVars

(* Bytes that a new connection loses are like bytes never seen.            *)
LEMMA ReconnectKeeps ==
    ASSUME IInv, NEW n \in Losses, Reconnect(n)
    PROVE  IInv'
  <1>1. n \in Nat /\ taken \in Nat
    BY ReceiveAssumption, StreamTypes DEF IInv, TypeOK
  <1>2. taken' = taken + n /\ taken' \in 0 .. Len(stream.bytes)
    BY <1>1, StreamTypes DEF Reconnect, IInv
  <1>3. Seq(1 .. taken) \subseteq Seq(1 .. taken')
    <2>1. 1 .. taken \subseteq 1 .. taken'
      BY <1>1, <1>2
    <2>2. QED
      BY <2>1, SeqMonotonic
  <1>4. /\ buffer' \in Seq(1 .. taken')
        /\ extracted' \in Seq(Seq(1 .. taken'))
        /\ rx_queue' \in Seq(Seq(1 .. taken'))
    BY <1>3, SeqMonotonic DEF Reconnect, bufferVars, packetVars, IInv, TypeOK, Packet
  <1>5. TypeOK'
    BY <1>2, <1>4 DEF Reconnect, bufferVars, packetVars, IInv, TypeOK, Packet, stream
  <1>6. QED
    BY <1>5 DEF IInv, Reconnect, bufferVars, packetVars

(* Every step keeps the invariant.                                         *)
LEMMA NextKeeps ==
    ASSUME IInv, [Next]_vars
    PROVE  IInv'
  <1>1. CASE EndExtract
    BY <1>1 DEF EndExtract, IInv, TypeOK, bufferVars, packetVars, stream, Packet
  <1>2. CASE UNCHANGED vars
    BY <1>2 DEF vars, IInv, TypeOK, bufferVars, packetVars, stream, Packet
  <1>3. QED
    BY <1>1, <1>2, ReadKeeps, TakeFrameKeeps, GarbageKeeps, ReceiveKeeps, ReconnectKeeps
       DEF Next

(* It holds at the start.                                                  *)
LEMMA InitKeeps ==
    ASSUME Init
    PROVE  IInv
  <1>1. wire \in DOMAIN Wires /\ Len(stream.bytes) \in Nat
    BY ReceiveAssumption, LenProperties DEF Init, stream
  <1>2. Len(<<>>) = 0
    OBVIOUS
  <1>3. Increasing(<<>>) /\ Chain(<<>>, <<>>)
    BY <1>2 DEF Increasing, Chain, InOrder
  <1>4. \A S : <<>> \in Seq(S)
    OBVIOUS
  <1>5. TypeOK
    <2>1. taken \in 0 .. Len(stream.bytes) /\ steps \in 0 .. MaxIterations
      BY <1>1, ReceiveAssumption DEF Init
    <2>2. /\ buffer \in Seq(1 .. taken)
          /\ extracted \in Seq(Packet)
          /\ rx_queue \in Seq(Packet)
      BY <1>4 DEF Init
    <2>3. Len(rx_queue) <= QueueSize
      BY <1>2, ReceiveAssumption DEF Init
    <2>4. interrupted \in BOOLEAN
      BY DEF Init
    <2>5. stalled \in Int /\ phase \in {"read", "extract"}
      BY DEF Init, NoLength
    <2>6. QED
      BY <1>1, <2>1, <2>2, <2>3, <2>4, <2>5 DEF TypeOK
  <1>6. QED
    BY <1>3, <1>5 DEF Init, IInv

(* Every variable has its type: the queue is never longer than it may be,  *)
(* and the buffer holds bytes that the port has delivered.                 *)
THEOREM ReceiveTypes == Spec => []TypeOK
  <1>1. IInv => TypeOK
    BY DEF IInv
  <1>2. Init => IInv
    BY InitKeeps
  <1>3. IInv /\ [Next]_vars => IInv'
    BY NextKeeps
  <1>4. QED
    BY <1>1, <1>2, <1>3, PTL DEF Spec

(* No byte is used twice and the packets come out in the order of their    *)
(* bytes, whatever arrives and whatever is cut out, dropped or lost.       *)
THEOREM PacketsInOrder == Spec => []BytesInOrderOnce
  <1>1. IInv => BytesInOrderOnce
    BY DEF IInv, Chain, BytesInOrderOnce
  <1>2. Init => IInv
    BY InitKeeps
  <1>3. IInv /\ [Next]_vars => IInv'
    BY NextKeeps
  <1>4. QED
    BY <1>1, <1>2, <1>3, PTL DEF Spec

-----------------------------------------------------------------------------
(* Streams of frames.  What is looked at is always the rest of the bytes   *)
(* that have been taken, from some place on.                               *)
Window(from) == SubSeq(stream.bytes, from, taken)
Found(from) == FindFrame(stream.adapter, Window(from))

Frames == {k \in DOMAIN stream.pieces : IsFrame(stream, k)}
FrameStart(k) == FirstByte(stream, k)
FrameEnd(k) == LastByte(stream, k)
FrameSize(k) == Len(stream.pieces[k].bytes)

LEMMA WindowIs ==
    ASSUME TypeOK, NEW from \in 1 .. taken
    PROVE  /\ Window(from) \in Seq(Byte)
           /\ Len(Window(from)) = taken - from + 1
           /\ \A i \in 1 .. taken - from + 1 : Window(from)[i] = stream.bytes[from + i - 1]
  <1>1. /\ stream.bytes \in Seq(Byte) /\ Len(stream.bytes) \in Nat
        /\ taken \in 0 .. Len(stream.bytes)
    BY StreamTypes DEF TypeOK
  <1>2. from \in Int /\ taken \in Int /\ \A i \in from .. taken : stream.bytes[i] \in Byte
    <2>1. \A i \in from .. taken : i \in 1 .. Len(stream.bytes)
      BY <1>1
    <2>2. QED
      BY <1>1, <2>1, ElementOfSeq
  <1>3. /\ Window(from) \in Seq(Byte)
        /\ Len(Window(from)) = IF from <= taken THEN taken - from + 1 ELSE 0
        /\ \A i \in 1 .. taken - from + 1 : Window(from)[i] = stream.bytes[from + i - 1]
    BY <1>2, SubSeqProperties DEF Window
  <1> QED
    BY <1>1, <1>3

(* Frames lie in the stream side by side.                                  *)
LEMMA PieceFacts ==
    ASSUME TypeOK, NEW k \in DOMAIN stream.pieces
    PROVE  /\ stream.pieces[k].bytes \in Seq(Byte)
           /\ FrameSize(k) \in Nat
           /\ FrameEnd(k) \in 0 .. Len(stream.bytes)
           /\ FrameStart(k) = FrameEnd(k) - FrameSize(k) + 1 /\ FrameStart(k) >= 1
           /\ \A i \in 1 .. FrameSize(k) :
                 stream.pieces[k].bytes[i] = stream.bytes[FrameStart(k) + i - 1]
           /\ \A l \in DOMAIN stream.pieces \ {k} :
                 FrameEnd(k) < FrameStart(l) \/ FrameEnd(l) < FrameStart(k)
  <1>1. wire \in DOMAIN Wires /\ stream = Wires[wire]
    BY DEF TypeOK, stream
  <1>2. /\ stream.pieces[k].bytes \in Seq(Byte)
        /\ FrameEnd(k) \in 0 .. Len(stream.bytes)
        /\ FrameStart(k) >= 1
        /\ \A i \in 1 .. FrameSize(k) :
                 stream.pieces[k].bytes[i] = stream.bytes[FrameStart(k) + i - 1]
        /\ \A l \in DOMAIN stream.pieces \ {k} :
                 FrameEnd(k) < FrameStart(l) \/ FrameEnd(l) < FrameStart(k)
    BY <1>1, PiecesAssumption DEF FrameEnd, FrameStart, FrameSize
  <1>3. FrameSize(k) \in Nat
    BY <1>2, LenProperties DEF FrameSize
  <1>4. FrameStart(k) = FrameEnd(k) - FrameSize(k) + 1
    BY DEF FrameStart, FirstByte, FrameEnd, FrameSize
  <1> QED
    BY <1>2, <1>3, <1>4

(* Where a frame is found, in a stream without look-alikes.                *)
LEMMA Detected ==
    ASSUME TypeOK, wire \in CleanWires, NEW from \in 1 .. taken, Found(from) > 0
    PROVE  \E k \in Frames : \/ from = FrameStart(k) /\ Found(from) = FrameSize(k)
                             \/ from > FrameStart(k) /\ FrameEnd(k) \in from .. taken
  <1>1. Clean(stream) /\ stream.bytes \in Seq(Byte) /\ Len(stream.bytes) \in Nat
    BY StreamTypes DEF CleanWires, stream
  <1>2. from \in 1 .. Len(stream.bytes) /\ taken \in from .. Len(stream.bytes)
    BY <1>1 DEF TypeOK
  <1>3. \E k \in DOMAIN stream.pieces :
            /\ IsFrame(stream, k)
            /\ \/ from = FirstByte(stream, k) /\ Found(from) = Len(stream.pieces[k].bytes)
               \/ from > FirstByte(stream, k) /\ LastByte(stream, k) \in from .. taken
    BY <1>1, <1>2 DEF Clean, Found, Window
  <1> QED
    BY <1>3 DEF Frames, FrameStart, FrameEnd, FrameSize

LEMMA FrameFacts ==
    ASSUME TypeOK, wire \in CleanWires, NEW k \in Frames
    PROVE  /\ k \in DOMAIN stream.pieces
           /\ FrameSize(k) >= 5
           /\ FrameSize(k) + MaxIterations <= MaxSize + 2
           /\ FindFrame(stream.adapter, stream.pieces[k].bytes) = FrameSize(k)
  BY DEF CleanWires, Clean, Findable, Frames, FrameSize, stream

(* In RAW mode no stream with a frame is without look-alikes.              *)
LEMMA CleanIsNotRaw ==
    ASSUME TypeOK, wire \in CleanWires, NEW k \in Frames
    PROVE  stream.adapter # "raw"
  <1> SUFFICES ASSUME stream.adapter = "raw" PROVE FALSE
    OBVIOUS
  <1> DEFINE at == FrameStart(k)
             one == SubSeq(stream.bytes, at, at)
  <1>1. /\ k \in DOMAIN stream.pieces /\ FrameSize(k) \in Nat /\ FrameSize(k) >= 5
        /\ FrameEnd(k) \in 0 .. Len(stream.bytes)
        /\ at = FrameEnd(k) - FrameSize(k) + 1 /\ at >= 1
    BY FrameFacts, PieceFacts
  <1>2. stream.bytes \in Seq(Byte) /\ Len(stream.bytes) \in Nat
    BY StreamTypes
  <1> HIDE DEF at
  <1>3. at \in 1 .. Len(stream.bytes) /\ at \in at .. Len(stream.bytes)
    BY <1>1, <1>2
  <1>4. Len(one) = 1
    <2>1. at \in Int /\ \A i \in at .. at : stream.bytes[i] \in Byte
      BY <1>2, <1>3, ElementOfSeq
    <2>2. Len(SubSeq(stream.bytes, at, at)) = IF at <= at THEN at - at + 1 ELSE 0
      BY <2>1, SubSeqProperties
    <2>3. QED
      BY <2>1, <2>2
  <1> HIDE DEF one
  <1>5. FindFrame(stream.adapter, one) = 1
    BY <1>4 DEF FindFrame
  <1>6. PICK j \in DOMAIN stream.pieces :
            /\ IsFrame(stream, j)
            /\ \/ at = FirstByte(stream, j)
                  /\ FindFrame(stream.adapter, one) = Len(stream.pieces[j].bytes)
               \/ at > FirstByte(stream, j) /\ LastByte(stream, j) \in at .. at
    <2>1. Clean(stream)
      BY DEF CleanWires, stream
    <2>2. FindFrame(stream.adapter, one) > 0
      BY <1>5
    <2>3. QED
      BY <1>3, <2>1, <2>2 DEF Clean, one
  <1>7. j \in Frames /\ FrameSize(j) >= 5
    BY <1>6, FrameFacts DEF Frames
  <1>8. at > FrameStart(j) /\ FrameEnd(j) = at
    <2>1. FrameEnd(j) \in Nat
      BY <1>6, PieceFacts
    <2>2. at > FrameStart(j) /\ FrameEnd(j) \in at .. at
      BY <1>5, <1>6, <1>7 DEF FrameStart, FrameEnd, FrameSize
    <2>3. QED
      BY <1>2, <1>3, <2>1, <2>2
  <1>9. /\ FrameEnd(j) \in Nat /\ FrameStart(j) \in Int
        /\ j # k => FrameEnd(k) < FrameStart(j) \/ FrameEnd(j) < FrameStart(k)
    BY <1>1, <1>6, PieceFacts
  <1>10. j # k
    BY <1>8, <1>9 DEF at
  <1> QED
    BY <1>1, <1>8, <1>9, <1>10 DEF at

(* A frame that has arrived whole is found, whatever follows it.           *)
LEMMA WholeIsFound ==
    ASSUME TypeOK, wire \in CleanWires, NEW k \in Frames, FrameEnd(k) <= taken
    PROVE  /\ FrameStart(k) \in 1 .. taken
           /\ Found(FrameStart(k)) = FrameSize(k)
           /\ \A i \in 1 .. FrameSize(k) :
                 Window(FrameStart(k))[i] = stream.pieces[k].bytes[i]
  <1> DEFINE b == stream.pieces[k].bytes
             c == Window(FrameStart(k))
  <1>1. /\ k \in DOMAIN stream.pieces /\ FrameSize(k) >= 5
        /\ FindFrame(stream.adapter, b) = FrameSize(k)
    BY FrameFacts
  <1>2. /\ b \in Seq(Byte) /\ FrameSize(k) \in Nat /\ FrameEnd(k) \in Nat
        /\ FrameStart(k) = FrameEnd(k) - FrameSize(k) + 1 /\ FrameStart(k) >= 1
        /\ \A i \in 1 .. FrameSize(k) : b[i] = stream.bytes[FrameStart(k) + i - 1]
    BY <1>1, PieceFacts
  <1>3. taken \in Nat
    BY StreamTypes DEF TypeOK
  <1>4. FrameStart(k) \in 1 .. taken
    BY <1>1, <1>2, <1>3
  <1>5. /\ c \in Seq(Byte) /\ Len(c) = taken - FrameStart(k) + 1
        /\ \A i \in 1 .. taken - FrameStart(k) + 1 : c[i] = stream.bytes[FrameStart(k) + i - 1]
    BY <1>4, WindowIs
  <1>6. Len(b) = FrameSize(k)
    BY DEF FrameSize
  <1> HIDE DEF b, c
  <1>7. FrameSize(k) <= Len(c)
    BY <1>2, <1>3, <1>5
  <1>8. \A i \in 1 .. FrameSize(k) : c[i] = b[i]
    <2>1. \A i \in 1 .. FrameSize(k) : i \in 1 .. taken - FrameStart(k) + 1
      BY <1>2, <1>3, <1>5, <1>7
    <2>2. QED
      BY <1>2, <1>5, <2>1
  <1>9. stream.adapter \in Adapter \ {"raw"}
    BY CleanIsNotRaw, StreamTypes
  <1>10. FindFrame(stream.adapter, c) = FindFrame(stream.adapter, b)
    <2>1. Len(b) <= Len(c) /\ (\A i \in 1 .. Len(b) : c[i] = b[i])
          /\ FindFrame(stream.adapter, b) > 0
      BY <1>1, <1>6, <1>7, <1>8
    <2>2. QED
      BY <1>2, <1>5, <1>9, <2>1, FoundStays
  <1> QED
    BY <1>1, <1>4, <1>8, <1>10 DEF Found, b, c

-----------------------------------------------------------------------------
(* The buffer, while no connection has been lost: it holds the last of the *)
(* bytes that were taken.                                                  *)
Gone == taken - Len(buffer)
Contiguous == \A i \in 1 .. Len(buffer) : buffer[i] = Gone + i

LEMMA GoneIs ==
    ASSUME TypeOK, Contiguous
    PROVE  /\ taken \in Nat /\ Len(buffer) \in Nat /\ Gone \in 0 .. taken
           /\ Len(buffer) = taken - Gone
  <1>1. taken \in Nat /\ buffer \in Seq(1 .. taken)
    BY StreamTypes DEF TypeOK
  <1>2. Len(buffer) \in Nat /\ \A i \in 1 .. Len(buffer) : buffer[i] \in 1 .. taken
    BY <1>1, LenProperties, ElementOfSeq
  <1>3. CASE Len(buffer) = 0
    BY <1>1, <1>2, <1>3 DEF Gone
  <1>4. CASE Len(buffer) # 0
    <2>1. 1 \in 1 .. Len(buffer)
      BY <1>2, <1>4
    <2>2. Gone + 1 \in 1 .. taken
      BY <1>2, <2>1 DEF Contiguous
    <2>3. QED
      BY <1>1, <1>2, <2>2 DEF Gone
  <1> QED
    BY <1>3, <1>4

(* What is behind an offset is the rest of the stream from there on.       *)
LEMMA BufferWindow ==
    ASSUME TypeOK, Contiguous, NEW d \in 0 .. Len(buffer) - 1
    PROVE  Bytes(Drop(buffer, d)) = Window(Gone + d + 1)
  <1>1. /\ taken \in Nat /\ Len(buffer) \in Nat /\ Gone \in 0 .. taken
        /\ Len(buffer) = taken - Gone
        /\ buffer \in Seq(1 .. taken)
    BY GoneIs DEF TypeOK
  <1>2. d \in 0 .. Len(buffer) /\ Gone + d + 1 \in 1 .. taken
    BY <1>1
  <1> DEFINE s == Drop(buffer, d)
  <1>3. /\ s \in Seq(1 .. taken) /\ Len(s) = Len(buffer) - d
        /\ \A i \in 1 .. Len(buffer) - d : s[i] = buffer[i + d]
    BY <1>1, <1>2, DropPlaces
  <1> HIDE DEF s
  <1>4. /\ Bytes(s) \in Seq(Byte) /\ Len(Bytes(s)) = Len(s)
        /\ \A i \in 1 .. Len(s) : Bytes(s)[i] = stream.bytes[s[i]]
    <2>1. DOMAIN s = 1 .. Len(s)
      BY <1>3, LenProperties
    <2>2. \A i \in 1 .. Len(s) : Bytes(s)[i] = stream.bytes[s[i]]
      BY <2>1 DEF Bytes
    <2>3. QED
      BY <1>3, <2>2, BytesTypes
  <1>5. /\ Window(Gone + d + 1) \in Seq(Byte)
        /\ Len(Window(Gone + d + 1)) = taken - (Gone + d + 1) + 1
        /\ \A i \in 1 .. taken - (Gone + d + 1) + 1 :
              Window(Gone + d + 1)[i] = stream.bytes[Gone + d + 1 + i - 1]
    BY <1>2, WindowIs
  <1>6. Len(Bytes(s)) = Len(Window(Gone + d + 1))
    BY <1>1, <1>3, <1>4, <1>5
  <1>7. ASSUME NEW i \in 1 .. Len(Bytes(s))
        PROVE  Bytes(s)[i] = Window(Gone + d + 1)[i]
    <2>1. i \in 1 .. Len(buffer) - d /\ i + d \in 1 .. Len(buffer)
          /\ i \in 1 .. taken - (Gone + d + 1) + 1 /\ i \in 1 .. Len(s)
      <3>1. i \in 1 .. Len(buffer) - d /\ i \in 1 .. Len(s)
        BY <1>3, <1>4
      <3>2. d \in Nat /\ i \in Nat
        BY <1>2, <3>1
      <3>3. QED
        BY <1>1, <3>1, <3>2
    <2>2. Bytes(s)[i] = stream.bytes[Gone + (i + d)]
      BY <1>3, <1>4, <2>1 DEF Contiguous
    <2>3. Gone + (i + d) = Gone + d + 1 + i - 1
      BY <1>1
    <2>4. QED
      BY <1>5, <2>1, <2>2, <2>3
  <1>8. Bytes(s) = Window(Gone + d + 1)
    BY <1>4, <1>5, <1>6, <1>7, SeqEqual
  <1> QED
    BY <1>8 DEF s

LEMMA FrontWindow ==
    ASSUME TypeOK, Contiguous, Len(buffer) >= 5
    PROVE  /\ FrameAtFront = Found(Gone + 1)
           /\ Window(Gone + 1) = Bytes(buffer)
           /\ Gone + 1 \in 1 .. taken
           /\ \A d \in 1 .. Len(buffer) - 5 :
                 /\ Resyncs(d) <=> Found(Gone + d + 1) > 0
                 /\ Gone + d + 1 \in 1 .. taken
  <1>1. /\ taken \in Nat /\ Len(buffer) \in Nat /\ Gone \in 0 .. taken
        /\ Len(buffer) = taken - Gone
        /\ buffer \in Seq(1 .. taken)
    BY GoneIs DEF TypeOK
  <1>2. Drop(buffer, 0) = buffer
    BY <1>1, SubSeqFull DEF Drop
  <1>3. 0 \in 0 .. Len(buffer) - 1 /\ Gone + 0 + 1 = Gone + 1
    BY <1>1
  <1>4. Bytes(buffer) = Window(Gone + 1)
    BY <1>2, <1>3, BufferWindow
  <1>5. ASSUME NEW d \in 1 .. Len(buffer) - 5
        PROVE  Bytes(Drop(buffer, d)) = Window(Gone + d + 1)
    <2>1. d \in 0 .. Len(buffer) - 1
      BY <1>1
    <2>2. QED
      BY <2>1, BufferWindow
  <1>6. Gone + 1 \in 1 .. taken /\ \A d \in 1 .. Len(buffer) - 5 : Gone + d + 1 \in 1 .. taken
    BY <1>1
  <1> QED
    BY <1>4, <1>5, <1>6 DEF FrameAtFront, Found, Resyncs

(* No frame is cut in two, and those that have left the buffer are out;    *)
(* when the loop has come to its end none is left that is whole.           *)
OutInv ==
    \A k \in Frames :
        /\ FrameEnd(k) <= Gone \/ FrameStart(k) > Gone
        /\ FrameEnd(k) <= Gone => PacketPlaces(stream, k) \subseteq Extracted
        /\ phase = "read" /\ steps < MaxIterations /\ FrameEnd(k) <= taken =>
               FrameEnd(k) <= Gone

(* What has come out are packets of frames.                                *)
OnlyFrames ==
    \A places \in Extracted : \E k \in Frames : places \in PacketPlaces(stream, k)

(* The buffer is as long as it was the last time only after an overflow,   *)
(* and then it is nearly as long as it may be.                             *)
StallInv ==
    /\ Len(buffer) >= stalled \/ stalled > MaxSize
    /\ phase = "extract" /\ Len(buffer) = stalled => Len(buffer) + steps > MaxSize

WholeInv ==
    /\ StallInv
    /\ Undisturbed => Contiguous /\ OutInv /\ OnlyFrames

(* Bytes at the front of the buffer go, and with them no part of a frame   *)
(* that has not come out.                                                  *)
LEMMA FrontGoes ==
    ASSUME TypeOK, wire \in CleanWires, Contiguous, OutInv, NEW d \in 0 .. Len(buffer),
           buffer' = Drop(buffer, d), UNCHANGED <<wire, taken>>,
           Extracted \subseteq Extracted',
           \A k \in Frames : FrameStart(k) > Gone /\ FrameStart(k) <= Gone + d =>
               FrameEnd(k) <= Gone + d /\ PacketPlaces(stream, k) \subseteq Extracted',
           phase' = "read" /\ steps' < MaxIterations =>
               \A k \in Frames : FrameEnd(k) <= taken => FrameEnd(k) <= Gone + d
    PROVE  Contiguous' /\ OutInv'
  <1>1. /\ taken \in Nat /\ Len(buffer) \in Nat /\ Gone \in 0 .. taken
        /\ Len(buffer) = taken - Gone
        /\ buffer \in Seq(1 .. taken)
    BY GoneIs DEF TypeOK
  <1>2. /\ Len(buffer') = Len(buffer) - d
        /\ \A i \in 1 .. Len(buffer) - d : buffer'[i] = buffer[i + d]
    BY <1>1, DropPlaces
  <1>3. Gone' = Gone + d
    BY <1>1, <1>2 DEF Gone
  <1>4. Contiguous'
    <2>1. ASSUME NEW i \in 1 .. Len(buffer') PROVE buffer'[i] = Gone' + i
      <3>1. i \in 1 .. Len(buffer) - d /\ i + d \in 1 .. Len(buffer)
        BY <1>1, <1>2
      <3>2. buffer'[i] = Gone + (i + d)
        BY <1>2, <3>1 DEF Contiguous
      <3>3. QED
        BY <1>1, <1>3, <3>2
    <2>2. QED
      BY <2>1 DEF Contiguous
  <1>5. stream' = stream
    BY DEF stream
  <1>6. /\ Frames' = Frames
        /\ \A k \in Frames : /\ FrameStart(k)' = FrameStart(k) /\ FrameEnd(k)' = FrameEnd(k)
                             /\ PacketPlaces(stream, k)' = PacketPlaces(stream, k)
    BY <1>5 DEF Frames, FrameStart, FrameEnd
  <1>7. ASSUME NEW k \in Frames
        PROVE  /\ FrameEnd(k) <= Gone + d \/ FrameStart(k) > Gone + d
               /\ FrameEnd(k) <= Gone + d => PacketPlaces(stream, k) \subseteq Extracted'
    <2>1. FrameEnd(k) \in Int /\ FrameStart(k) \in Int /\ FrameStart(k) <= FrameEnd(k)
      BY FrameFacts, PieceFacts
    <2>2. CASE FrameEnd(k) <= Gone
      BY <1>1, <2>1, <2>2 DEF OutInv
    <2>3. CASE FrameStart(k) > Gone /\ FrameStart(k) <= Gone + d
      BY <2>3
    <2>4. CASE FrameStart(k) > Gone + d
      BY <1>1, <2>1, <2>4
    <2>5. QED
      BY <1>1, <2>1, <2>2, <2>3, <2>4 DEF OutInv
  <1>8. OutInv'
    BY <1>3, <1>6, <1>7 DEF OutInv
  <1> QED
    BY <1>4, <1>8

(* A piece of the buffer is a piece of the stream.                         *)
LEMMA PieceOfBuffer ==
    ASSUME TypeOK, Contiguous, NEW m \in 1 .. Len(buffer), NEW n \in m .. Len(buffer)
    PROVE  SubSeq(buffer, m, n) = Places(Gone + m - 1, Gone + n)
  <1>1. /\ taken \in Nat /\ Len(buffer) \in Nat /\ Gone \in 0 .. taken
        /\ Len(buffer) = taken - Gone
        /\ buffer \in Seq(1 .. taken)
    BY GoneIs DEF TypeOK
  <1>2. m \in Nat /\ m >= 1 /\ n \in Nat /\ m <= n /\ n <= Len(buffer)
    BY <1>1
  <1> DEFINE t == Gone + m - 1
             count == n - m + 1
             piece == SubSeq(buffer, m, n)
  <1>3. /\ piece \in Seq(1 .. taken) /\ Len(piece) = count
        /\ \A i \in 1 .. count : piece[i] = buffer[m + i - 1]
    <2>1. m \in Int /\ n \in Int /\ \A i \in m .. n : buffer[i] \in 1 .. taken
      <3>1. \A i \in m .. n : i \in 1 .. Len(buffer)
        BY <1>1, <1>2
      <3>2. QED
        BY <1>1, <1>2, <3>1, ElementOfSeq
    <2>2. /\ piece \in Seq(1 .. taken)
          /\ Len(piece) = IF m <= n THEN n - m + 1 ELSE 0
          /\ \A i \in 1 .. n - m + 1 : piece[i] = buffer[m + i - 1]
      BY <2>1, SubSeqProperties
    <2>3. QED
      BY <1>2, <2>2
  <1>4. t \in Nat /\ count \in Nat /\ t + count = Gone + n
    BY <1>1, <1>2
  <1> HIDE DEF piece, t, count
  <1>5. /\ Places(t, Gone + n) \in Seq(1 .. Gone + n)
        /\ Len(Places(t, Gone + n)) = count
        /\ \A i \in 1 .. count : Places(t, Gone + n)[i] = t + i
    <2>1. /\ Places(t, t + count) \in Seq(1 .. t + count)
          /\ Len(Places(t, t + count)) = count
          /\ \A i \in 1 .. count : Places(t, t + count)[i] = t + i
      BY <1>4, PlacesAre
    <2>2. QED
      BY <1>4, <2>1
  <1>6. ASSUME NEW i \in 1 .. count
        PROVE  piece[i] = Places(t, Gone + n)[i]
    <2>1. m + i - 1 \in 1 .. Len(buffer) /\ Gone + (m + i - 1) = t + i
      BY <1>1, <1>2, <1>4 DEF t, count
    <2>2. QED
      BY <1>3, <1>5, <2>1 DEF Contiguous
  <1>7. piece = Places(t, Gone + n)
    BY <1>3, <1>5, <1>6, SeqEqual
  <1> QED
    BY <1>7 DEF piece, t

(* A frame at the front comes out whole.                                   *)
LEMMA TakeGoes ==
    ASSUME IInv, wire \in CleanWires, Contiguous, OutInv, TakeFrame
    PROVE  /\ Contiguous' /\ OutInv'
           /\ \E k \in Frames : Extracted' \subseteq Extracted \cup PacketPlaces(stream, k)
  <1>1. TypeOK /\ Len(buffer) >= 5 /\ phase' = "extract" /\ UNCHANGED <<wire, taken>>
    BY DEF IInv, TakeFrame, Extracting
  <1>2. /\ taken \in Nat /\ Len(buffer) \in Nat /\ Gone \in 0 .. taken
        /\ Len(buffer) = taken - Gone
        /\ buffer \in Seq(1 .. taken)
    BY <1>1, GoneIs DEF TypeOK
  <1>3. /\ FrameAtFront = Found(Gone + 1) /\ Window(Gone + 1) = Bytes(buffer)
        /\ Gone + 1 \in 1 .. taken /\ FrameAtFront > 0
    BY <1>1, FrontWindow DEF TakeFrame
  <1>4. PICK k \in Frames : \/ Gone + 1 = FrameStart(k) /\ Found(Gone + 1) = FrameSize(k)
                            \/ Gone + 1 > FrameStart(k) /\ FrameEnd(k) \in Gone + 1 .. taken
    BY <1>1, <1>3, Detected
  <1>5. /\ k \in DOMAIN stream.pieces /\ FrameSize(k) >= 5 /\ FrameSize(k) \in Nat
        /\ FrameEnd(k) \in Int /\ FrameStart(k) \in Int
        /\ FrameStart(k) = FrameEnd(k) - FrameSize(k) + 1
        /\ stream.pieces[k].bytes \in Seq(Byte)
    BY <1>1, FrameFacts, PieceFacts
  <1> DEFINE size == FrameSize(k)
             bytes == stream.pieces[k].bytes
             before == FirstByte(stream, k) - 1
  <1>6. /\ FrameStart(k) = Gone + 1 /\ FrameAtFront = size
        /\ size \in Nat /\ size >= 5 /\ FrameEnd(k) = Gone + size
    <2>1. FrameEnd(k) <= Gone \/ FrameStart(k) > Gone
      BY DEF OutInv
    <2>2. Gone + 1 = FrameStart(k) /\ Found(Gone + 1) = FrameSize(k)
      BY <1>2, <1>4, <1>5, <2>1
    <2>3. FrameEnd(k) = Gone + size
      <3>1. \A first, last, long, gone \in Int :
                gone + 1 = first /\ first = last - long + 1 => last = gone + long
        OBVIOUS
      <3>2. Gone \in Int /\ size \in Int
        BY <1>2, <1>5
      <3>3. QED
        BY <1>5, <2>2, <3>1, <3>2
    <2>4. QED
      BY <1>3, <1>5, <2>2, <2>3
  <1>7. Len(bytes) = size /\ before = Gone
    BY <1>2, <1>6 DEF FrameSize, FrameStart
  <1> HIDE DEF size, bytes, before
  <1>8. size \in 5 .. Len(buffer) /\ FrameEnd(k) = Gone + size /\ FrameEnd(k) <= taken
    <2>1. FrameAtFront \in 0 .. Len(buffer)
      <3>1. Bytes(buffer) \in Seq(Byte) /\ Len(Bytes(buffer)) = Len(buffer)
        BY <1>1, <1>2, BytesTypes
      <3>2. FrameAtFront \in 0 .. Len(Bytes(buffer))
        BY <1>1, <3>1, StreamTypes, FrameFits DEF FrameAtFront
      <3>3. QED
        BY <3>1, <3>2
    <2>2. QED
      BY <1>2, <1>6, <2>1
  <1>9. \A i \in 1 .. size : Bytes(buffer)[i] = bytes[i]
    BY <1>1, <1>3, <1>6, <1>8, WholeIsFound DEF size, bytes
  <1>10. Parses(stream.adapter, Bytes(buffer), size) <=> Parses(stream.adapter, bytes, size)
    <2>1. Bytes(buffer)[2] = bytes[2]
      BY <1>2, <1>8, <1>9
    <2>2. QED
      BY <2>1 DEF Parses
  <1>11. /\ Extracted \subseteq Extracted' /\ PacketPlaces(stream, k) \subseteq Extracted'
         /\ Extracted' \subseteq Extracted \cup PacketPlaces(stream, k)
    <2> DEFINE part == Payload(stream.adapter, size)
               packet == SubSeq(buffer, part[1], part[2])
    <2>1. PacketPlaces(stream, k) =
              IF Parses(stream.adapter, bytes, size)
              THEN {Places(before + part[1] - 1, before + part[2])} ELSE {}
      BY <1>7 DEF PacketPlaces, bytes, before
    <2>2. CASE Parses(stream.adapter, bytes, size)
      <3>1. part[1] \in 1 .. Len(buffer) /\ part[2] \in part[1] .. Len(buffer)
        <4>1. stream.adapter = "enttec" => size >= 7
          BY <2>2 DEF Parses
        <4>2. stream.adapter \in Adapter
          BY <1>1, StreamTypes
        <4>3. size \in Nat /\ size >= 5 /\ size <= Len(buffer)
          BY <1>2, <1>8
        <4>4. CASE stream.adapter = "enttec"
          <5>1. part = <<6, size - 1>>
            BY <4>4 DEF Payload
          <5>2. part[1] = 6 /\ part[2] = size - 1
            BY <5>1
          <5>3. size >= 7
            BY <4>1, <4>4
          <5>4. QED
            BY <1>2, <4>3, <5>2, <5>3
        <4>5. CASE stream.adapter # "enttec"
          <5>1. part \in {<<2, size>>, <<1, size - 1>>, <<1, size>>}
            BY <4>2, <4>5 DEF Payload, Adapter
          <5>2. QED
            BY <1>2, <4>3, <5>1, SMTT(30)
        <4>6. QED
          BY <4>4, <4>5
      <3> HIDE DEF part
      <3>2. packet = Places(before + part[1] - 1, before + part[2])
        BY <1>1, <1>7, <3>1, PieceOfBuffer
      <3> HIDE DEF packet
      <3>3. extracted' = Append(extracted, packet)
        BY <1>6, <1>10, <2>2 DEF TakeFrame, Put, part, packet
      <3>4. extracted \in Seq(Packet)
        BY <1>1 DEF TypeOK
      <3>5. /\ DOMAIN extracted \subseteq DOMAIN extracted'
            /\ \A i \in DOMAIN extracted : extracted'[i] = extracted[i]
            /\ \E i \in DOMAIN extracted' : extracted'[i] = packet
            /\ \A i \in DOMAIN extracted' :
                  extracted'[i] = packet \/ \E j \in DOMAIN extracted : extracted'[i] = extracted[j]
        <4>1. /\ Len(extracted) \in Nat
              /\ DOMAIN extracted = 1 .. Len(extracted)
              /\ DOMAIN extracted' = 1 .. Len(extracted) + 1
              /\ \A i \in 1 .. Len(extracted) : extracted'[i] = extracted[i]
              /\ extracted'[Len(extracted) + 1] = packet
          BY <3>3, <3>4
        <4>2. Len(extracted) + 1 \in DOMAIN extracted'
              /\ DOMAIN extracted \subseteq DOMAIN extracted'
          BY <4>1
        <4>3. \A i \in 1 .. Len(extracted) + 1 :
                 i \in 1 .. Len(extracted) \/ i = Len(extracted) + 1
          BY <4>1
        <4>4. QED
          BY <4>1, <4>2, <4>3
      <3>6. /\ Extracted \subseteq Extracted' /\ packet \in Extracted'
            /\ Extracted' \subseteq Extracted \cup {packet}
        BY <3>5 DEF Extracted
      <3>7. QED
        BY <2>1, <2>2, <3>2, <3>6 DEF part
    <2>3. CASE ~Parses(stream.adapter, bytes, size)
      <3>1. UNCHANGED packetVars
        BY <1>6, <1>10, <2>3 DEF TakeFrame
      <3>2. Extracted' = Extracted
        BY <3>1 DEF Extracted, packetVars
      <3>3. QED
        BY <2>1, <2>3, <3>2
    <2>4. QED
      BY <2>2, <2>3
  <1>12. ASSUME NEW j \in Frames, FrameStart(j) > Gone, FrameStart(j) <= Gone + size
         PROVE  FrameEnd(j) <= Gone + size /\ PacketPlaces(stream, j) \subseteq Extracted'
    <2>1. j = k
      <3>1. SUFFICES ASSUME j # k PROVE FALSE
        OBVIOUS
      <3>2. /\ j \in DOMAIN stream.pieces /\ FrameSize(j) >= 5
            /\ FrameEnd(j) \in Int /\ FrameSize(j) \in Nat
            /\ FrameStart(j) = FrameEnd(j) - FrameSize(j) + 1
        BY <1>1, FrameFacts, PieceFacts
      <3>3. FrameEnd(k) < FrameStart(j) \/ FrameEnd(j) < FrameStart(k)
        BY <1>1, <1>5, <3>1, <3>2, PieceFacts
      <3>4. QED
        BY <1>2, <1>6, <1>8, <1>12, <3>2, <3>3, SMTT(30)
    <2>2. QED
      BY <1>2, <1>8, <1>11, <2>1
  <1>13. size \in 0 .. Len(buffer) /\ buffer' = Drop(buffer, size)
    BY <1>2, <1>6, <1>8 DEF TakeFrame, Consumed
  <1>14. phase' # "read"
    BY <1>1
  <1> QED
    BY <1>1, <1>11, <1>12, <1>13, <1>14, FrontGoes

LEMMA FrameNumbers ==
    ASSUME TypeOK, wire \in CleanWires, NEW k \in Frames
    PROVE  /\ FrameStart(k) \in Int /\ FrameEnd(k) \in Int /\ FrameSize(k) \in Nat
           /\ FrameSize(k) = FrameEnd(k) - FrameStart(k) + 1
           /\ FrameEnd(k) >= FrameStart(k) + 4
           /\ \A l \in Frames \ {k} :
                 FrameEnd(k) < FrameStart(l) \/ FrameEnd(l) < FrameStart(k)
  <1>1. /\ FrameSize(k) >= 5 /\ FrameSize(k) \in Nat
        /\ FrameEnd(k) \in 0 .. Len(stream.bytes)
        /\ FrameStart(k) = FrameEnd(k) - FrameSize(k) + 1
        /\ \A l \in DOMAIN stream.pieces \ {k} :
              FrameEnd(k) < FrameStart(l) \/ FrameEnd(l) < FrameStart(k)
    BY FrameFacts, PieceFacts
  <1>2. FrameEnd(k) \in Int
    BY <1>1, StreamTypes
  <1>3. \A first, last, long \in Int : first = last - long + 1 /\ long >= 5 =>
            long = last - first + 1 /\ last >= first + 4
    OBVIOUS
  <1>4. FrameStart(k) \in Int
    BY <1>1, <1>2
  <1>5. \A l \in Frames \ {k} : FrameEnd(k) < FrameStart(l) \/ FrameEnd(l) < FrameStart(k)
    BY <1>1 DEF Frames
  <1> QED
    BY <1>1, <1>2, <1>3, <1>4, <1>5

(* A frame that waits whole in the buffer is at its front, or at an offset *)
(* that is looked at.                                                      *)
LEMMA WholeIsSeen ==
    ASSUME TypeOK, wire \in CleanWires, Contiguous, Len(buffer) >= 5, NEW k \in Frames,
           FrameStart(k) > Gone, FrameEnd(k) <= taken
    PROVE  \/ FrameAtFront > 0
           \/ FrameStart(k) - Gone - 1 \in Offsets
  <1>1. /\ taken \in Nat /\ Len(buffer) \in Nat /\ Gone \in 0 .. taken
        /\ Len(buffer) = taken - Gone
    BY GoneIs
  <1>2. /\ FrameStart(k) \in Int /\ FrameEnd(k) \in Int /\ FrameSize(k) \in Nat
        /\ FrameSize(k) = FrameEnd(k) - FrameStart(k) + 1
        /\ FrameEnd(k) >= FrameStart(k) + 4
    BY FrameNumbers
  <1>3. Found(FrameStart(k)) > 0
    BY <1>2, WholeIsFound
  <1> DEFINE d == FrameStart(k) - Gone - 1
  <1>4. d \in 0 .. Len(buffer) - 5 /\ Gone + d + 1 = FrameStart(k)
    BY <1>1, <1>2
  <1> HIDE DEF d
  <1>5. CASE d = 0
    <2>1. FrameStart(k) = Gone + 1
      BY <1>1, <1>4, <1>5
    <2>2. QED
      BY <1>3, <2>1, FrontWindow
  <1>6. CASE d # 0
    <2>1. d \in 1 .. Len(buffer) - 5
      BY <1>1, <1>4, <1>6
    <2>2. Resyncs(d)
      BY <1>3, <1>4, <2>1, FrontWindow
    <2>3. QED
      BY <2>1, <2>2 DEF Offsets, d
  <1> QED
    BY <1>5, <1>6

(* What is discarded before a frame is no part of another.                 *)
LEMMA ResyncGoes ==
    ASSUME IInv, wire \in CleanWires, Contiguous, OutInv, Resync
    PROVE  Contiguous' /\ OutInv'
  <1>1. /\ TypeOK /\ Len(buffer) >= 5 /\ phase' = "extract" /\ UNCHANGED <<wire, taken>>
        /\ FrameAtFront = 0 /\ UNCHANGED packetVars
    BY DEF IInv, Resync, Extracting
  <1>2. /\ taken \in Nat /\ Len(buffer) \in Nat /\ Gone \in 0 .. taken
        /\ Len(buffer) = taken - Gone
    BY <1>1, GoneIs
  <1>3. PICK o \in Offsets : buffer' = Drop(buffer, o) /\ \A other \in Offsets : o <= other
    BY DEF Resync
  <1>4. o \in 1 .. Len(buffer) - 5 /\ Resyncs(o)
    BY DEF Offsets
  <1>5. Found(Gone + o + 1) > 0 /\ Gone + o + 1 \in 1 .. taken
    BY <1>1, <1>4, FrontWindow
  <1>6. PICK k \in Frames : \/ Gone + o + 1 = FrameStart(k)
                            \/ Gone + o + 1 > FrameStart(k) /\ FrameEnd(k) \in Gone + o + 1 .. taken
    BY <1>1, <1>5, Detected
  <1>7. ASSUME NEW j \in Frames, FrameStart(j) > Gone, FrameStart(j) <= Gone + o
        PROVE  FALSE
    <2>1. /\ FrameStart(j) \in Int /\ FrameEnd(j) \in Int
          /\ FrameEnd(j) >= FrameStart(j) + 4
          /\ FrameStart(k) \in Int /\ FrameEnd(k) \in Int
          /\ FrameEnd(k) >= FrameStart(k) + 4
          /\ j # k => FrameEnd(k) < FrameStart(j) \/ FrameEnd(j) < FrameStart(k)
      BY <1>1, FrameNumbers
    <2>2. CASE FrameEnd(j) <= taken
      <3>1. FrameStart(j) - Gone - 1 \in Offsets
        BY <1>1, <1>7, <2>2, WholeIsSeen
      <3>2. o <= FrameStart(j) - Gone - 1
        BY <1>3, <3>1
      <3>3. QED
        BY <1>2, <1>4, <1>7, <2>1, <3>2
    <2>3. CASE FrameEnd(j) > taken
      <3>1. Gone \in Int /\ o \in Int /\ Gone + o + 1 <= taken
        BY <1>2, <1>4
      <3>2. CASE Gone + o + 1 = FrameStart(k)
        BY <1>2, <1>7, <2>1, <2>3, <3>1, <3>2
      <3>3. CASE Gone + o + 1 > FrameStart(k) /\ FrameEnd(k) \in Gone + o + 1 .. taken
        BY <1>2, <1>7, <2>1, <2>3, <3>1, <3>3
      <3>4. QED
        BY <1>6, <3>2, <3>3
    <2>4. QED
      BY <1>2, <2>1, <2>2, <2>3
  <1>8. o \in 0 .. Len(buffer)
    BY <1>2, <1>4
  <1>9. phase' # "read" /\ Extracted' = Extracted
    BY <1>1 DEF Extracted, packetVars
  <1> QED
    BY <1>1, <1>3, <1>7, <1>8, <1>9, FrontGoes

(* What a stall drops is no part of a frame: none is whole, and one that   *)
(* is still arriving is too short to be reached.                           *)
LEMMA StallGoes ==
    ASSUME IInv, StallInv, wire \in CleanWires, Contiguous, OutInv, Stall
    PROVE  Contiguous' /\ OutInv'
  <1>1. /\ TypeOK /\ Len(buffer) >= 5 /\ phase = "extract" /\ UNCHANGED <<wire, taken>>
        /\ FrameAtFront = 0 /\ Offsets = {} /\ UNCHANGED packetVars
        /\ steps < MaxIterations /\ steps \in Nat
        /\ MaxIterations \in Nat /\ MaxIterations > 0 /\ MaxSize \in Nat
    BY ReceiveAssumption DEF IInv, TypeOK, Stall, Extracting
  <1>2. /\ taken \in Nat /\ Len(buffer) \in Nat /\ Gone \in 0 .. taken
        /\ Len(buffer) = taken - Gone
    BY <1>1, GoneIs
  <1>3. PICK stuck, over \in 0 .. 1 :
           /\ stuck = 1 <=> Len(buffer) = stalled
           /\ over = 1 <=> Len(buffer) - stuck > MaxSize
           /\ stuck + over \in 0 .. Len(buffer)
           /\ buffer' = Drop(buffer, stuck + over)
           /\ phase' = IF stuck + over = 0 THEN "read" ELSE "extract"
    BY <1>1, StallDrops
  <1> DEFINE d == stuck + over
  <1>4. ASSUME d # 0
        PROVE  Len(buffer) - d > MaxSize - MaxIterations
    <2>1. CASE over = 1
      BY <1>1, <1>2, <1>3, <2>1
    <2>2. CASE over = 0
      <3>1. stuck = 1
        BY <1>3, <1>4, <2>2
      <3>2. Len(buffer) + steps > MaxSize
        BY <1>1, <1>3, <3>1 DEF StallInv
      <3>3. QED
        BY <1>1, <1>2, <2>2, <3>1, <3>2
    <2>3. QED
      BY <1>3, <2>1, <2>2
  <1>5. d \in Nat /\ d \in 0 .. Len(buffer)
    BY <1>3
  <1>6. buffer' = Drop(buffer, d) /\ (phase' = "read" => d = 0)
    BY <1>3
  <1> HIDE DEF d
  <1>7. ASSUME NEW k \in Frames, FrameStart(k) > Gone
        PROVE  FrameEnd(k) > taken
    <2>1. SUFFICES ASSUME FrameEnd(k) <= taken PROVE FALSE
      BY <1>1, <1>2, FrameNumbers
    <2>2. QED
      BY <1>1, <1>7, <2>1, WholeIsSeen
  <1>8. ASSUME NEW k \in Frames, FrameStart(k) > Gone, FrameStart(k) <= Gone + d
        PROVE  FALSE
    <2>1. /\ FrameStart(k) \in Int /\ FrameEnd(k) \in Int /\ FrameSize(k) \in Nat
          /\ FrameSize(k) = FrameEnd(k) - FrameStart(k) + 1
          /\ FrameSize(k) + MaxIterations <= MaxSize + 2
      BY <1>1, FrameNumbers, FrameFacts
    <2>2. FrameEnd(k) > taken
      BY <1>7, <1>8
    <2>3. d # 0
      BY <1>2, <1>8, <2>1
    <2>4. Len(buffer) - d > MaxSize - MaxIterations
      BY <1>4, <2>3
    <2>5. QED
      BY <1>1, <1>2, <1>5, <1>8, <2>1, <2>2, <2>4
  <1>9. ASSUME phase' = "read", NEW k \in Frames, FrameEnd(k) <= taken
        PROVE  FrameEnd(k) <= Gone + d
    <2>1. d = 0 /\ Gone + d = Gone
      BY <1>2, <1>6, <1>9
    <2>2. FrameEnd(k) <= Gone \/ FrameStart(k) > Gone
      BY DEF OutInv
    <2>3. FrameEnd(k) \in Int
      BY <1>1, FrameNumbers
    <2>4. QED
      BY <1>2, <1>7, <1>9, <2>1, <2>2, <2>3
  <1>10. Extracted' = Extracted
    BY <1>1 DEF Extracted, packetVars
  <1> QED
    BY <1>1, <1>5, <1>6, <1>8, <1>9, <1>10, FrontGoes

(* What arrives lengthens the buffer; it is part of no frame that is out.  *)
LEMMA ReadGoes ==
    ASSUME IInv, wire \in CleanWires, Contiguous, OutInv,
           NEW n \in 1 .. Len(stream.bytes) - taken, Read(n)
    PROVE  Contiguous' /\ OutInv'
  <1>1. TypeOK /\ UNCHANGED wire /\ taken' = taken + n /\ phase' = "extract"
        /\ buffer' = buffer \o Places(taken, taken + n) /\ Extracted' = Extracted
    BY DEF IInv, Read, Extracted, packetVars
  <1>2. /\ taken \in Nat /\ Len(buffer) \in Nat /\ Gone \in 0 .. taken
        /\ Len(buffer) = taken - Gone /\ n \in Nat
        /\ buffer \in Seq(1 .. taken)
    BY <1>1, GoneIs, StreamTypes DEF TypeOK
  <1>3. /\ Places(taken, taken + n) \in Seq(1 .. taken + n)
        /\ Len(Places(taken, taken + n)) = n
        /\ \A i \in 1 .. n : Places(taken, taken + n)[i] = taken + i
    BY <1>2, PlacesAre
  <1>4. buffer \in Seq(1 .. taken + n)
    <2>1. 1 .. taken \subseteq 1 .. taken + n
      BY <1>2
    <2>2. QED
      BY <1>2, <2>1, SeqMonotonic
  <1> DEFINE new == Places(taken, taken + n)
  <1> HIDE DEF new
  <1>5. /\ Len(buffer') = Len(buffer) + n
        /\ \A i \in 1 .. Len(buffer) + n :
              buffer'[i] = IF i <= Len(buffer) THEN buffer[i] ELSE new[i - Len(buffer)]
    BY <1>1, <1>3, <1>4, ConcatProperties DEF new
  <1>6. Gone' = Gone
    BY <1>1, <1>2, <1>5 DEF Gone
  <1>7. ASSUME NEW i \in 1 .. Len(buffer')
        PROVE  buffer'[i] = Gone + i
    <2>1. i \in 1 .. Len(buffer) + n /\ i \in Nat
      BY <1>2, <1>5
    <2>2. CASE i <= Len(buffer)
      <3>1. i \in 1 .. Len(buffer)
        BY <1>2, <2>1, <2>2
      <3>2. buffer'[i] = buffer[i]
        BY <1>5, <2>1, <2>2
      <3>3. QED
        BY <3>1, <3>2 DEF Contiguous
    <2>3. CASE ~(i <= Len(buffer))
      <3>1. i - Len(buffer) \in 1 .. n
        BY <1>2, <2>1, <2>3
      <3>2. buffer'[i] = new[i - Len(buffer)]
        BY <1>5, <2>1, <2>3
      <3>3. new[i - Len(buffer)] = taken + (i - Len(buffer))
        BY <1>3, <3>1 DEF new
      <3>4. taken + (i - Len(buffer)) = Gone + i
        BY <1>2, <2>1
      <3>5. QED
        BY <3>2, <3>3, <3>4
    <2>4. QED
      BY <2>2, <2>3
  <1>8. Contiguous'
    BY <1>6, <1>7 DEF Contiguous
  <1>9. stream' = stream
    BY <1>1 DEF stream
  <1>10. OutInv'
    <2>1. /\ Frames' = Frames
          /\ \A k \in Frames : /\ FrameStart(k)' = FrameStart(k) /\ FrameEnd(k)' = FrameEnd(k)
                               /\ PacketPlaces(stream, k)' = PacketPlaces(stream, k)
      BY <1>9 DEF Frames, FrameStart, FrameEnd
    <2>2. phase' # "read"
      BY <1>1
    <2>3. QED
      BY <1>1, <1>6, <2>1, <2>2 DEF OutInv
  <1> QED
    BY <1>8, <1>10

(* Nothing is left that is whole when fewer than 5 bytes are.              *)
LEMMA EndGoes ==
    ASSUME IInv, wire \in CleanWires, Contiguous, OutInv, EndExtract
    PROVE  Contiguous' /\ OutInv'
  <1>1. /\ TypeOK /\ UNCHANGED <<wire, taken, buffer, stalled, steps, extracted>>
        /\ Len(buffer) < 5 \/ steps = MaxIterations
        /\ steps \in Nat /\ MaxIterations \in Nat
    BY ReceiveAssumption DEF IInv, TypeOK, EndExtract, bufferVars, packetVars
  <1>2. /\ taken \in Nat /\ Len(buffer) \in Nat /\ Gone \in 0 .. taken
        /\ Len(buffer) = taken - Gone
    BY <1>1, GoneIs
  <1>3. ASSUME NEW k \in Frames, steps < MaxIterations, FrameEnd(k) <= taken
        PROVE  FrameEnd(k) <= Gone
    <2>1. Len(buffer) < 5
      BY <1>1, <1>3
    <2>2. FrameStart(k) \in Int /\ FrameEnd(k) \in Int /\ FrameEnd(k) >= FrameStart(k) + 4
      BY <1>1, FrameNumbers
    <2>3. FrameEnd(k) <= Gone \/ FrameStart(k) > Gone
      BY DEF OutInv
    <2>4. QED
      BY <1>2, <1>3, <2>1, <2>2, <2>3
  <1>4. stream' = stream /\ Gone' = Gone /\ Extracted' = Extracted
    BY <1>1 DEF stream, Gone, Extracted
  <1>5. /\ Frames' = Frames
        /\ \A k \in Frames : /\ FrameStart(k)' = FrameStart(k) /\ FrameEnd(k)' = FrameEnd(k)
                             /\ PacketPlaces(stream, k)' = PacketPlaces(stream, k)
    BY <1>4 DEF Frames, FrameStart, FrameEnd
  <1>6. Contiguous'
    BY <1>1, <1>4 DEF Contiguous
  <1>7. OutInv'
    BY <1>1, <1>3, <1>4, <1>5 DEF OutInv
  <1> QED
    BY <1>6, <1>7

LEMMA StallInvKept ==
    ASSUME IInv, StallInv, [Next]_vars
    PROVE  StallInv'
  <1>1. /\ TypeOK /\ Len(buffer) \in Nat /\ stalled \in Int /\ steps \in Nat
        /\ MaxSize \in Nat /\ taken \in Nat /\ buffer \in Seq(1 .. taken)
    BY ReceiveAssumption, StreamTypes, LenProperties DEF IInv, TypeOK
  <1>2. IInv' /\ Len(buffer') \in Nat
    <2>1. IInv'
      BY NextKeeps
    <2>2. buffer' \in Seq(1 .. taken')
      BY <2>1 DEF IInv, TypeOK
    <2>3. QED
      BY <2>1, <2>2, LenProperties
  <1>3. ASSUME NEW n \in 1 .. Len(stream.bytes) - taken, Read(n)
        PROVE  StallInv'
    <2>1. n \in Nat /\ n >= 1
      BY <1>1, StreamTypes
    <2>2. Len(buffer') = Len(buffer) + n
      <3>1. /\ Places(taken, taken + n) \in Seq(1 .. taken + n)
            /\ Len(Places(taken, taken + n)) = n
        BY <1>1, <2>1, PlacesAre
      <3>2. buffer \in Seq(1 .. taken + n)
        <4>1. 1 .. taken \subseteq 1 .. taken + n
          BY <1>1, <2>1
        <4>2. QED
          BY <1>1, <4>1, SeqMonotonic
      <3>3. buffer' = buffer \o Places(taken, taken + n)
        BY <1>3 DEF Read
      <3>4. QED
        BY <3>1, <3>2, <3>3, ConcatProperties
    <2>3. stalled' = stalled /\ steps' = 0
      BY <1>3 DEF Read
    <2>4. Len(buffer) >= stalled \/ stalled > MaxSize
      BY DEF StallInv
    <2>5. QED
      BY <1>1, <2>1, <2>2, <2>3, <2>4 DEF StallInv
  <1>4. CASE TakeFrame \/ Resync
    <2>1. stalled' = -1
      BY <1>4 DEF TakeFrame, Resync, NoLength
    <2>2. QED
      BY <1>2, <2>1 DEF StallInv
  <1>5. CASE Stall
    <2>1. PICK stuck, over \in 0 .. 1 :
             /\ stuck = 1 <=> Len(buffer) = stalled
             /\ over = 1 <=> Len(buffer) - stuck > MaxSize
             /\ stuck + over \in 0 .. Len(buffer)
             /\ buffer' = Drop(buffer, stuck + over)
             /\ stalled' = Len(buffer) - stuck
             /\ phase' = IF stuck + over = 0 THEN "read" ELSE "extract"
      BY <1>1, <1>5, StallDrops
    <2>2. Len(buffer') = Len(buffer) - (stuck + over)
      BY <1>1, <2>1, DropPlaces
    <2>3. phase = "extract" /\ steps' = steps + 1
      BY <1>5 DEF Stall, Extracting
    <2>4. CASE over = 1
      BY <1>1, <2>1, <2>2, <2>4 DEF StallInv
    <2>5. CASE over = 0
      <3>1. Len(buffer') = stalled'
        BY <1>1, <2>1, <2>2, <2>5
      <3>2. ASSUME phase' = "extract"
            PROVE  Len(buffer') + steps' > MaxSize
        <4>1. stuck = 1
          BY <2>1, <2>5, <3>2
        <4>2. Len(buffer) + steps > MaxSize
          BY <2>1, <2>3, <4>1 DEF StallInv
        <4>3. QED
          BY <1>1, <2>2, <2>3, <2>5, <4>1, <4>2
      <3>3. stalled' \in Int
        BY <1>2, <3>1
      <3>4. QED
        BY <3>1, <3>2, <3>3 DEF StallInv
    <2>6. QED
      BY <2>1, <2>4, <2>5
  <1>6. CASE EndExtract
    BY <1>6 DEF EndExtract, bufferVars, StallInv
  <1>7. CASE Receive
    BY <1>7 DEF Receive, bufferVars, StallInv
  <1>8. CASE \E n \in Losses : Reconnect(n)
    BY <1>8 DEF Reconnect, bufferVars, StallInv
  <1>9. CASE UNCHANGED vars
    BY <1>9 DEF vars, bufferVars, StallInv
  <1> QED
    BY <1>3, <1>4, <1>5, <1>6, <1>7, <1>8, <1>9 DEF Next

(* What neither reads, drops, nor ends changes nothing of it.              *)
LEMMA OutInvStays ==
    ASSUME Contiguous, OutInv, UNCHANGED <<wire, taken, buffer, phase, steps, extracted>>
    PROVE  Contiguous' /\ OutInv'
  <1>1. stream' = stream /\ Gone' = Gone /\ Extracted' = Extracted
    BY DEF stream, Gone, Extracted
  <1>2. /\ Frames' = Frames
        /\ \A k \in Frames : /\ FrameStart(k)' = FrameStart(k) /\ FrameEnd(k)' = FrameEnd(k)
                             /\ PacketPlaces(stream, k)' = PacketPlaces(stream, k)
    BY <1>1 DEF Frames, FrameStart, FrameEnd
  <1>3. Contiguous'
    BY <1>1 DEF Contiguous
  <1>4. OutInv'
    BY <1>1, <1>2 DEF OutInv
  <1> QED
    BY <1>3, <1>4

(* Only a frame that is taken brings a packet out.                         *)
LEMMA OnlyFramesStay ==
    ASSUME wire' = wire, OnlyFrames, Extracted' = Extracted
    PROVE  OnlyFrames'
  <1>1. stream' = stream /\ Frames' = Frames
        /\ \A k \in Frames : PacketPlaces(stream, k)' = PacketPlaces(stream, k)
    BY DEF stream, Frames
  <1> QED
    BY <1>1 DEF OnlyFrames

LEMMA OnlyFramesKept ==
    ASSUME IInv, wire \in CleanWires, Contiguous, OutInv, OnlyFrames, [Next]_vars
    PROVE  OnlyFrames'
  <1>1. CASE TakeFrame
    <2>1. PICK k \in Frames : Extracted' \subseteq Extracted \cup PacketPlaces(stream, k)
      BY <1>1, TakeGoes
    <2>2. stream' = stream
      BY <1>1 DEF TakeFrame, Extracting, stream
    <2>3. Frames' = Frames /\ \A l \in Frames : PacketPlaces(stream, l)' = PacketPlaces(stream, l)
      BY <2>2 DEF Frames
    <2>4. ASSUME NEW places \in Extracted'
          PROVE  \E l \in Frames : places \in PacketPlaces(stream, l)
      BY <2>1, <2>4 DEF OnlyFrames
    <2>5. QED
      BY <2>3, <2>4 DEF OnlyFrames
  <1>2. CASE ~TakeFrame
    <2>1. wire' = wire
      BY DEF Next, vars, Read, TakeFrame, Resync, Stall, Extracting, EndExtract, Receive, Reconnect
    <2>2. extracted' = extracted
      BY <1>2 DEF Next, vars, packetVars, Read, Resync, Stall, EndExtract, Receive, Reconnect
    <2>3. QED
      BY <2>1, <2>2, OnlyFramesStay DEF Extracted
  <1> QED
    BY <1>1, <1>2

LEMMA WholeKept ==
    ASSUME IInv, WholeInv, [Next]_vars
    PROVE  WholeInv'
  <1>1. StallInv'
    BY StallInvKept DEF WholeInv
  <1>2. wire' = wire
    BY DEF Next, vars, Read, TakeFrame, Resync, Stall, Extracting, EndExtract, Receive, Reconnect
  <1>3. ASSUME Undisturbed'
        PROVE  Contiguous' /\ OutInv' /\ OnlyFrames'
    <2>1. ~interrupted /\ ~\E n \in Losses : Reconnect(n)
      <3>1. ~interrupted'
        BY <1>3 DEF Undisturbed
      <3>2. QED
        BY <3>1 DEF Next, vars, Read, TakeFrame, Resync, Stall, Extracting, EndExtract, Receive,
                    Reconnect
    <2>2. wire \in CleanWires
      BY <1>2, <1>3 DEF CleanWires, Undisturbed
    <2>3. StallInv /\ Contiguous /\ OutInv /\ OnlyFrames
      BY <2>1, <2>2 DEF WholeInv, Undisturbed
    <2>4. OnlyFrames'
      BY <2>2, <2>3, OnlyFramesKept
    <2>5. CASE Receive
      BY <2>3, <2>4, <2>5, OutInvStays DEF Receive, bufferVars
    <2>6. CASE UNCHANGED vars
      BY <2>3, <2>4, <2>6, OutInvStays DEF vars, bufferVars, packetVars
    <2>7. QED
      BY <2>1, <2>2, <2>3, <2>4, <2>5, <2>6, ReadGoes, TakeGoes, ResyncGoes, StallGoes, EndGoes
         DEF Next
  <1> QED
    BY <1>1, <1>3 DEF WholeInv

LEMMA WholeStarts ==
    ASSUME Init
    PROVE  WholeInv
  <1>1. IInv /\ TypeOK
    BY InitKeeps DEF IInv
  <1>2. Len(buffer) = 0 /\ taken = 0 /\ stalled = -1 /\ phase = "read"
    BY DEF Init, NoLength
  <1>3. StallInv
    BY <1>2 DEF StallInv
  <1>4. Contiguous /\ Gone = 0
    BY <1>2 DEF Contiguous, Gone
  <1>5. ASSUME wire \in CleanWires
        PROVE  OutInv /\ OnlyFrames
    <2>1. ASSUME NEW k \in Frames
          PROVE  FrameStart(k) > 0 /\ ~(FrameEnd(k) <= 0)
      <3>1. /\ FrameStart(k) \in Int /\ FrameEnd(k) \in Int
            /\ FrameEnd(k) >= FrameStart(k) + 4
        BY <1>1, <1>5, FrameNumbers
      <3>2. FrameStart(k) >= 1
        BY <1>1, <1>5, FrameFacts, PieceFacts
      <3>3. QED
        BY <3>1, <3>2
    <2>2. Extracted = {}
      BY DEF Init, Extracted
    <2>3. QED
      BY <1>2, <1>4, <2>1, <2>2 DEF OutInv, OnlyFrames
  <1> QED
    BY <1>3, <1>4, <1>5 DEF WholeInv, Undisturbed

(* Frames come out whole and nothing else does, at any size of the buffer  *)
(* and any limit of iterations that leave them room, with any noise around *)
(* them and however the reads cut the stream, if nothing else looks like a *)
(* frame; and none that has arrived whole stays behind.                    *)
THEOREM FramesComeOut == Spec => []WholeFramesComeOut
  <1>1. IInv /\ WholeInv => WholeFramesComeOut
    <2> SUFFICES ASSUME IInv, WholeInv, Undisturbed
                 PROVE  /\ \A places \in Extracted : \E k \in DOMAIN stream.pieces :
                              IsFrame(stream, k) /\ places \in PacketPlaces(stream, k)
                        /\ phase = "read" /\ steps < MaxIterations
                           => \A k \in DOMAIN stream.pieces :
                                 IsFrame(stream, k) /\ LastByte(stream, k) <= taken
                                 => PacketPlaces(stream, k) \subseteq Extracted
      BY DEF WholeFramesComeOut
    <2>1. OutInv /\ OnlyFrames
      BY DEF WholeInv
    <2>2. \A k : k \in Frames <=> k \in DOMAIN stream.pieces /\ IsFrame(stream, k)
      BY DEF Frames
    <2>3. \A k \in Frames : LastByte(stream, k) <= taken => FrameEnd(k) <= taken
      BY DEF FrameEnd
    <2>4. QED
      BY <2>1, <2>2, <2>3 DEF OutInv, OnlyFrames
  <1>2. Init => IInv /\ WholeInv
    BY InitKeeps, WholeStarts
  <1>3. IInv /\ WholeInv /\ [Next]_vars => (IInv /\ WholeInv)'
    BY NextKeeps, WholeKept
  <1>4. QED
    BY <1>1, <1>2, <1>3, PTL DEF Spec

-----------------------------------------------------------------------------
(* The sum of bytes.                                                       *)

(* Induction: the first number that is not in S would be a counterexample. *)
LEMMA Induction ==
    ASSUME NEW S, 0 \in S, \A n \in Nat : n \in S => n + 1 \in S
    PROVE  Nat \subseteq S
  <1> SUFFICES ASSUME Nat \ S # {} PROVE FALSE
    OBVIOUS
  <1>1. PICK n \in Nat \ S : \A m \in Nat \ S : n <= m
    BY FirstExists
  <1>2. n # 0 /\ n - 1 \in Nat /\ n - 1 \in S /\ (n - 1) + 1 = n
    BY <1>1
  <1> QED
    BY <1>2

(* The sums of the first bytes of a sequence, as ByteSum defines them.     *)
IsSums(f, b) == f = [n \in 0 .. Len(b) |-> IF n = 0 THEN 0 ELSE f[n - 1] + b[n]]

\* There are such sums of the first m bytes.
SumsTo(b, m) ==
    \E f : /\ DOMAIN f = 0 .. m
           /\ f[0] = 0
           /\ \A n \in 1 .. m : f[n] = f[n - 1] + b[n]

(* Whatever the sequence, the recursion defines its sums.                  *)
LEMMA SumsExist ==
    ASSUME NEW b \in Seq(Int)
    PROVE  \E f : IsSums(f, b)
  <1> DEFINE S == {m \in Nat : SumsTo(b, m)}
  <1>1. 0 \in S
    <2> DEFINE f == [n \in 0 .. 0 |-> 0]
    <2>1. DOMAIN f = 0 .. 0 /\ f[0] = 0 /\ \A n \in 1 .. 0 : f[n] = f[n - 1] + b[n]
      OBVIOUS
    <2> HIDE DEF f
    <2>2. QED
      BY <2>1 DEF SumsTo
  <1>2. ASSUME NEW m \in Nat, m \in S
        PROVE  m + 1 \in S
    <2>1. PICK f : /\ DOMAIN f = 0 .. m
                   /\ f[0] = 0
                   /\ \A n \in 1 .. m : f[n] = f[n - 1] + b[n]
      BY <1>2 DEF SumsTo
    <2> DEFINE g == [n \in 0 .. m + 1 |-> IF n = m + 1 THEN f[m] + b[m + 1] ELSE f[n]]
    <2>2. DOMAIN g = 0 .. m + 1 /\ g[0] = 0
      BY <2>1
    <2>3. ASSUME NEW n \in 1 .. m + 1
          PROVE  g[n] = g[n - 1] + b[n]
      <3>1. g[n - 1] = f[n - 1]
        <4>1. n - 1 \in 0 .. m + 1 /\ n - 1 # m + 1
          OBVIOUS
        <4>2. QED
          BY <4>1
      <3>2. CASE n = m + 1
        BY <3>1, <3>2
      <3>3. CASE n # m + 1
        <4>1. n \in 1 .. m /\ n \in 0 .. m + 1
          BY <3>3
        <4>2. QED
          BY <2>1, <3>1, <3>3, <4>1
      <3>4. QED
        BY <3>2, <3>3
    <2> HIDE DEF g
    <2>4. SumsTo(b, m + 1)
      <3> HIDE DEF S
      <3>1. QED
        BY <2>2, <2>3 DEF SumsTo
    <2>5. QED
      BY <2>4
  <1> HIDE DEF S
  <1>3. Nat \subseteq S
    BY <1>1, <1>2, Induction
  <1>4. Len(b) \in Nat
    OBVIOUS
  <1>5. SumsTo(b, Len(b))
    BY <1>3, <1>4 DEF S
  <1>6. PICK f : /\ DOMAIN f = 0 .. Len(b)
                 /\ f[0] = 0
                 /\ \A n \in 1 .. Len(b) : f[n] = f[n - 1] + b[n]
    BY <1>5 DEF SumsTo
  <1> DEFINE g == [n \in 0 .. Len(b) |-> f[n]]
  <1>7. IsSums(g, b)
    <2>1. ASSUME NEW n \in 0 .. Len(b)
          PROVE  g[n] = IF n = 0 THEN 0 ELSE g[n - 1] + b[n]
      <3>1. CASE n = 0
        BY <1>6, <3>1
      <3>2. CASE n # 0
        <4>1. n \in 1 .. Len(b) /\ n - 1 \in 0 .. Len(b)
          BY <1>4, <3>2
        <4>2. QED
          BY <1>6, <3>2, <4>1
      <3>3. QED
        BY <3>1, <3>2
    <2>2. g = [n \in 0 .. Len(b) |-> IF n = 0 THEN 0 ELSE g[n - 1] + b[n]]
      BY <2>1
    <2> HIDE DEF g
    <2>3. QED
      BY <2>2 DEF IsSums
  <1> QED
    BY <1>7

(* ByteSum(b) is the last of the sums.                                     *)
LEMMA ByteSumIs ==
    ASSUME NEW b \in Seq(Int)
    PROVE  \E f : /\ ByteSum(b) = f[Len(b)]
                  /\ f[0] = 0
                  /\ \A n \in 1 .. Len(b) : f[n] = f[n - 1] + b[n]
  <1> DEFINE upto == CHOOSE f : IsSums(f, b)
  <1>1. IsSums(upto, b)
    BY SumsExist
  <1>2. ByteSum(b) = upto[Len(b)]
    BY DEF ByteSum, IsSums
  <1> HIDE DEF upto
  <1>3. Len(b) \in Nat
    OBVIOUS
  <1>4. upto[0] = 0
    BY <1>1, <1>3 DEF IsSums
  <1>5. \A n \in 1 .. Len(b) : n \in 0 .. Len(b) /\ n # 0
    BY <1>3
  <1>6. \A n \in 1 .. Len(b) : upto[n] = upto[n - 1] + b[n]
    BY <1>1, <1>5 DEF IsSums
  <1> QED
    BY <1>2, <1>4, <1>6

(* A sum of bytes is a number, and not larger than 255 times their count.  *)
LEMMA SumType ==
    ASSUME NEW b \in Seq(Byte)
    PROVE  ByteSum(b) \in 0 .. 255 * Len(b)
  <1>1. b \in Seq(Int) /\ Len(b) \in Nat /\ \A n \in 1 .. Len(b) : b[n] \in 0 .. 255
    <2>1. Byte \subseteq Int
      BY DEF Byte
    <2>2. b \in Seq(Int)
      BY <2>1, SeqMonotonic
    <2>3. Len(b) \in Nat /\ \A n \in 1 .. Len(b) : b[n] \in Byte
      OBVIOUS
    <2>4. QED
      BY <2>2, <2>3 DEF Byte
  <1>2. PICK f : /\ ByteSum(b) = f[Len(b)]
                 /\ f[0] = 0
                 /\ \A n \in 1 .. Len(b) : f[n] = f[n - 1] + b[n]
    BY <1>1, ByteSumIs
  <1> DEFINE S == {n \in Nat : n <= Len(b) => f[n] \in Int /\ 0 <= f[n] /\ f[n] <= 255 * n}
  <1>3. 0 \in S
    BY <1>2
  <1>4. ASSUME NEW n \in Nat, n \in S
        PROVE  n + 1 \in S
    <2>1. SUFFICES ASSUME n + 1 <= Len(b)
                   PROVE  f[n + 1] \in Int /\ 0 <= f[n + 1] /\ f[n + 1] <= 255 * (n + 1)
      OBVIOUS
    <2>2. n + 1 \in 1 .. Len(b) /\ n <= Len(b) /\ (n + 1) - 1 = n
      BY <1>1, <2>1
    <2>3. b[n + 1] \in 0 .. 255
      BY <1>1, <2>2
    <2>4. f[n + 1] = f[n] + b[n + 1]
      BY <1>2, <2>2
    <2> DEFINE x == f[n]
               y == b[n + 1]
               z == f[n + 1]
    <2>5. x \in Int /\ 0 <= x /\ x <= 255 * n /\ y \in 0 .. 255 /\ z = x + y
      BY <1>4, <2>2, <2>3, <2>4
    <2>6. z \in Int /\ 0 <= z /\ z <= 255 * (n + 1)
      <3> HIDE DEF S, x, y, z
      <3>1. QED
        BY <2>5
    <2>7. QED
      BY <2>6
  <1> HIDE DEF S
  <1>5. Nat \subseteq S
    BY <1>3, <1>4, Induction
  <1>6. f[Len(b)] \in Int /\ 0 <= f[Len(b)] /\ f[Len(b)] <= 255 * Len(b)
    BY <1>1, <1>5 DEF S
  <1> QED
    BY <1>1, <1>2, <1>6

(* One changed byte changes the sum by as much.                            *)
LEMMA SumOfChanged ==
    ASSUME NEW b \in Seq(Int), NEW c \in Seq(Int), Len(c) = Len(b), NEW i \in 1 .. Len(b),
           \A n \in 1 .. Len(b) : n # i => c[n] = b[n]
    PROVE  /\ ByteSum(b) \in Int /\ ByteSum(c) \in Int
           /\ ByteSum(c) = ByteSum(b) + (c[i] - b[i])
  <1>1. Len(b) \in Nat /\ i \in Nat
    OBVIOUS
  <1>2. \A n \in 1 .. Len(b) : b[n] \in Int /\ c[n] \in Int
    OBVIOUS
  <1>3. PICK f : /\ ByteSum(b) = f[Len(b)]
                 /\ f[0] = 0
                 /\ \A n \in 1 .. Len(b) : f[n] = f[n - 1] + b[n]
    BY ByteSumIs
  <1>4. PICK g : /\ ByteSum(c) = g[Len(b)]
                 /\ g[0] = 0
                 /\ \A n \in 1 .. Len(b) : g[n] = g[n - 1] + c[n]
    <2>1. \E g : /\ ByteSum(c) = g[Len(c)]
                 /\ g[0] = 0
                 /\ \A n \in 1 .. Len(c) : g[n] = g[n - 1] + c[n]
      BY ByteSumIs
    <2>2. QED
      BY <2>1
  <1> DEFINE more(n) == IF n < i THEN 0 ELSE c[i] - b[i]
             S == {n \in Nat : n <= Len(b) =>
                      f[n] \in Int /\ g[n] \in Int /\ g[n] = f[n] + more(n)}
  <1>5. 0 \in S
    BY <1>3, <1>4
  <1>6. ASSUME NEW n \in Nat, n \in S
        PROVE  n + 1 \in S
    <2>1. SUFFICES ASSUME n + 1 <= Len(b)
                   PROVE  /\ f[n + 1] \in Int /\ g[n + 1] \in Int
                          /\ g[n + 1] = f[n + 1] + more(n + 1)
      OBVIOUS
    <2>2. n + 1 \in 1 .. Len(b) /\ n <= Len(b) /\ (n + 1) - 1 = n
      <3>1. \A m, l \in Nat : m + 1 <= l => m + 1 \in 1 .. l /\ m <= l /\ (m + 1) - 1 = m
        OBVIOUS
      <3>2. n \in Nat /\ Len(b) \in Nat
        BY <1>1, <1>6
      <3>3. QED
        BY <2>1, <3>1, <3>2, Zenon
    <2>3. f[n + 1] = f[n] + b[n + 1] /\ g[n + 1] = g[n] + c[n + 1]
      BY <1>3, <1>4, <2>2
    <2>4. f[n] \in Int /\ g[n] \in Int /\ g[n] = f[n] + more(n)
      BY <1>6, <2>2
    <2>5. b[n + 1] \in Int /\ c[n + 1] \in Int /\ b[i] \in Int /\ c[i] \in Int
      BY <1>2, <2>2
    <2>6. c[n + 1] + more(n) = b[n + 1] + more(n + 1)
      <3>1. CASE n + 1 = i
        BY <1>1, <2>5, <3>1
      <3>2. CASE n + 1 # i
        <4>1. c[n + 1] = b[n + 1]
          BY <2>2, <3>2
        <4>2. n < i <=> n + 1 < i
          BY <1>1, <3>2
        <4>3. QED
          BY <4>1, <4>2
      <3>3. QED
        BY <3>1, <3>2
    <2>7. more(n) \in Int /\ more(n + 1) \in Int
      BY <2>5
    <2> HIDE DEF more
    <2> DEFINE x == f[n]
               y == f[n + 1]
               u == more(n)
               v == more(n + 1)
               d == b[n + 1]
               e == c[n + 1]
    <2>8. /\ x \in Int /\ u \in Int /\ v \in Int /\ d \in Int /\ e \in Int
          /\ y = x + d /\ g[n + 1] = (x + u) + e /\ e + u = d + v
      BY <2>3, <2>4, <2>5, <2>6, <2>7
    <2>9. y \in Int /\ g[n + 1] = y + v /\ g[n + 1] \in Int
      <3> HIDE DEF S, x, y, u, v, d, e
      <3>1. QED
        BY <2>8
    <2>10. QED
      BY <2>9
  <1> HIDE DEF S, more
  <1>7. Nat \subseteq S
    BY <1>5, <1>6, Induction
  <1>8. f[Len(b)] \in Int /\ g[Len(b)] \in Int /\ g[Len(b)] = f[Len(b)] + more(Len(b))
    BY <1>1, <1>7 DEF S
  <1>9. more(Len(b)) = c[i] - b[i]
    BY <1>1 DEF more
  <1> QED
    BY <1>3, <1>4, <1>8, <1>9

-----------------------------------------------------------------------------
(* The layout of packets.                                                  *)

(* Two sequences are the same in their first n elements.                   *)
SameUpTo(s, t, n) == \A i \in Int : 1 <= i /\ i <= n => s[i] = t[i]

(* Being the same up to n is transitive.                                   *)
LEMMA SameSeries ==
    ASSUME NEW r, NEW s, NEW t, NEW m \in Int, NEW n \in Int, n <= m,
           SameUpTo(r, s, m), SameUpTo(s, t, n)
    PROVE  SameUpTo(r, t, n)
  BY DEF SameUpTo

(* Sequences that consist of two parts.                                    *)
Follows(S, u, s, t) ==
    /\ u \in Seq(S)
    /\ Len(u) = Len(s) + Len(t)
    /\ SameUpTo(u, s, Len(s))
    /\ \A i \in Int : 1 <= i /\ i <= Len(t) => u[Len(s) + i] = t[i]

(* A concatenation consists of its parts.                                  *)
LEMMA FollowedBy ==
    ASSUME NEW S, NEW s \in Seq(S), NEW t \in Seq(S)
    PROVE  Follows(S, s \o t, s, t)
  <1>1. Len(s) \in Nat /\ Len(t) \in Nat
    OBVIOUS
  <1>2. /\ s \o t \in Seq(S) /\ Len(s \o t) = Len(s) + Len(t)
        /\ \A i \in 1 .. Len(s) + Len(t) :
              (s \o t)[i] = IF i <= Len(s) THEN s[i] ELSE t[i - Len(s)]
    BY ConcatProperties
  <1> DEFINE u == s \o t
  <1> HIDE DEF u
  <1>3. ASSUME NEW i \in Int, 1 <= i, i <= Len(s)
        PROVE  u[i] = s[i]
    <2>1. i \in 1 .. Len(s) + Len(t) /\ i <= Len(s)
      BY <1>1, <1>3
    <2>2. QED
      BY <1>2, <2>1 DEF u
  <1>4. ASSUME NEW i \in Int, 1 <= i, i <= Len(t)
        PROVE  u[Len(s) + i] = t[i]
    <2>1. Len(s) + i \in 1 .. Len(s) + Len(t) /\ ~(Len(s) + i <= Len(s))
          /\ (Len(s) + i) - Len(s) = i
      BY <1>1, <1>4
    <2>2. QED
      BY <1>2, <2>1 DEF u
  <1> QED
    BY <1>2, <1>3, <1>4 DEF u, SameUpTo, Follows

(* What a byte is, in the form that the arithmetic needs.                  *)
LEMMA ByteIs == \A n : n \in Byte <=> n \in Int /\ 0 <= n /\ n <= 255
  BY DEF Byte

(* What a number of 16 bits is.                                            *)
LEMMA NumberIs == \A n : n \in Number16 <=> n \in Int /\ 0 <= n /\ n <= MAX_WORD
  <1>1. MAX_WORD \in Int
    BY DEF MAX_WORD
  <1> QED
    BY <1>1 DEF Number16

(* A number of 16 bits comes out of the two bytes that it is sent as.      *)
LEMMA PairIs ==
    ASSUME NEW n \in Number16
    PROVE  /\ Pair(n) \in Seq(Byte) /\ Len(Pair(n)) = 2
           /\ Pair(n)[1] = n \div 256 /\ Pair(n)[2] = n % 256
           /\ n \div 256 \in Byte /\ n % 256 \in Byte
           /\ Word(n \div 256, n % 256) = n
  <1>1. n \in Int /\ 0 <= n /\ n <= 256 * 256 - 1
    BY NumberIs DEF MAX_WORD
  <1>2. n \div 256 \in Byte /\ n % 256 \in Byte /\ 256 * (n \div 256) + (n % 256) = n
    <2>1. n \div 256 \in Int /\ n % 256 \in Int /\ 0 <= n % 256 /\ n % 256 <= 255
      BY <1>1
    <2>2. 256 * (n \div 256) + (n % 256) = n
      BY <1>1
    <2>3. \A q, r \in Int : /\ 0 <= 256 * q + r /\ 256 * q + r <= 256 * 256 - 1
                            /\ 0 <= r /\ r <= 255
                            => 0 <= q /\ q <= 255
      OBVIOUS
    <2>4. QED
      BY <1>1, <2>1, <2>2, <2>3, ByteIs
  <1>3. \A x, y \in Byte : /\ <<x, y>> \in Seq(Byte) /\ Len(<<x, y>>) = 2
                          /\ <<x, y>>[1] = x /\ <<x, y>>[2] = y
    OBVIOUS
  <1>4. PICK q, r : q = n \div 256 /\ r = n % 256
    OBVIOUS
  <1>5. Pair(n) = <<q, r>> /\ Word(q, r) = n /\ q \in Byte /\ r \in Byte
    BY <1>2, <1>4 DEF Pair, Word
  <1> QED
    BY <1>3, <1>4, <1>5

(* A UID is a sequence of six bytes.                                       *)
LEMMA UidIs ==
    ASSUME NEW uid \in Uid
    PROVE  uid \in Seq(Byte) /\ Len(uid) = 6 /\ DOMAIN uid = 1 .. 6
  <1>1. uid \in [1 .. 6 -> Byte]
    BY DEF Uid
  <1>2. uid \in Seq(Byte)
    BY <1>1, SeqDef, SMTT(30)
  <1>3. DOMAIN uid = 1 .. 6
    BY <1>1
  <1>4. DOMAIN uid = 1 .. Len(uid) /\ Len(uid) \in Nat
    BY <1>2, LenProperties
  <1>5. Len(uid) = 6
    <2>1. \A n \in Nat : 1 .. n = 1 .. 6 => n = 6
      <3>1. SUFFICES ASSUME NEW n \in Nat, 1 .. n = 1 .. 6
                     PROVE  n = 6
        OBVIOUS
      <3>2. 6 \in 1 .. n /\ 7 \notin 1 .. n
        BY <3>1
      <3>3. QED
        BY <3>2
    <2>2. QED
      BY <1>3, <1>4, <2>1
  <1> QED
    BY <1>2, <1>3, <1>5

(* All of a packet but the checksum.                                       *)
Body(p) ==
    <<RDM, 1, HEADER + Len(p.data)>> \o p.dest \o p.src
        \o <<p.txn, p.port, 0>> \o Pair(p.sub) \o <<p.cc>>
        \o Pair(p.pid) \o <<Len(p.data)>> \o p.data

(* Where the fields of a packet are.                                       *)
Laid(s, dest, src, txn, port, sub, cc, pid, n, all, data) ==
    /\ s \in Seq(Byte) /\ Len(s) = 24 + n
    /\ s[1] = RDM /\ s[2] = 1 /\ s[3] = all
    /\ \A i \in Int : 1 <= i /\ i <= 6 => s[3 + i] = dest[i]
    /\ \A i \in Int : 1 <= i /\ i <= 6 => s[9 + i] = src[i]
    /\ s[16] = txn /\ s[17] = port /\ s[18] = 0
    /\ s[19] = sub \div 256 /\ s[20] = sub % 256
    /\ s[21] = cc
    /\ s[22] = pid \div 256 /\ s[23] = pid % 256
    /\ s[24] = n
    /\ \A i \in Int : 1 <= i /\ i <= n => s[24 + i] = data[i]

(* encode_rdm_request() puts the fields in their places.                   *)
LEMMA LayoutIs ==
    ASSUME NEW dest \in Uid, NEW src \in Uid, NEW txn \in Byte, NEW port \in Byte,
           NEW sub \in Number16, NEW cc \in Byte, NEW pid \in Number16,
           NEW n \in Byte, NEW all \in Byte, NEW data \in Seq(Byte), Len(data) = n
    PROVE  Laid(<<RDM, 1, all>> \o dest \o src \o <<txn, port, 0>> \o Pair(sub) \o <<cc>>
                    \o Pair(pid) \o <<n>> \o data,
                dest, src, txn, port, sub, cc, pid, n, all, data)
  <1>1. RDM \in Byte /\ 1 \in Byte /\ 0 \in Byte
    BY ByteIs DEF RDM
  <1>2. n \in Int
    BY ByteIs
  <1>3. \A x, y, z \in Byte : <<x, y, z>> \in Seq(Byte) /\ Len(<<x, y, z>>) = 3
    OBVIOUS
  <1>4. \A x \in Byte : <<x>> \in Seq(Byte) /\ Len(<<x>>) = 1
    OBVIOUS
  <1>5. PICK t1 : t1 = <<RDM, 1, all>>
    OBVIOUS
  <1>6. PICK t4 : t4 = <<txn, port, 0>>
    OBVIOUS
  <1>7. PICK t5, t7 : t5 = Pair(sub) /\ t7 = Pair(pid)
    OBVIOUS
  <1>8. PICK t6, t8 : t6 = <<cc>> /\ t8 = <<n>>
    OBVIOUS
  <1>9. t1 \in Seq(Byte) /\ Len(t1) = 3 /\ t1[1] = RDM /\ t1[2] = 1 /\ t1[3] = all
    BY <1>1, <1>3, <1>5
  <1>10. dest \in Seq(Byte) /\ Len(dest) = 6 /\ src \in Seq(Byte) /\ Len(src) = 6
    BY UidIs
  <1>11. t4 \in Seq(Byte) /\ Len(t4) = 3 /\ t4[1] = txn /\ t4[2] = port /\ t4[3] = 0
    BY <1>1, <1>3, <1>6
  <1>12. t5 \in Seq(Byte) /\ Len(t5) = 2 /\ t5[1] = sub \div 256 /\ t5[2] = sub % 256
    BY <1>7, PairIs
  <1>13. t6 \in Seq(Byte) /\ Len(t6) = 1 /\ t6[1] = cc
    BY <1>4, <1>8
  <1>14. t7 \in Seq(Byte) /\ Len(t7) = 2 /\ t7[1] = pid \div 256 /\ t7[2] = pid % 256
    BY <1>7, PairIs
  <1>15. t8 \in Seq(Byte) /\ Len(t8) = 1 /\ t8[1] = n
    BY <1>4, <1>8
  <1>16. PICK s2 : s2 = t1 \o dest
    OBVIOUS
  <1>17. PICK s3 : s3 = s2 \o src
    OBVIOUS
  <1>18. PICK s4 : s4 = s3 \o t4
    OBVIOUS
  <1>19. PICK s5 : s5 = s4 \o t5
    OBVIOUS
  <1>20. PICK s6 : s6 = s5 \o t6
    OBVIOUS
  <1>21. PICK s7 : s7 = s6 \o t7
    OBVIOUS
  <1>22. PICK s8 : s8 = s7 \o t8
    OBVIOUS
  <1>23. PICK s9 : s9 = s8 \o data
    OBVIOUS
  <1>24. /\ s2 \in Seq(Byte) /\ Len(s2) = 9
         /\ SameUpTo(s2, t1, 3)
         /\ \A i \in Int : 1 <= i /\ i <= 6 => s2[3 + i] = dest[i]
    <2>1. Follows(Byte, t1 \o dest, t1, dest)
      BY <1>9, <1>10, FollowedBy, Zenon
    <2>2. QED
      BY <1>9, <1>10, <1>16, <2>1 DEF Follows
  <1>25. /\ s3 \in Seq(Byte) /\ Len(s3) = 15
         /\ SameUpTo(s3, s2, 9)
         /\ \A i \in Int : 1 <= i /\ i <= 6 => s3[9 + i] = src[i]
    <2>1. Follows(Byte, s2 \o src, s2, src)
      BY <1>24, <1>10, FollowedBy, Zenon
    <2>2. QED
      BY <1>24, <1>10, <1>17, <2>1 DEF Follows
  <1>26. /\ s4 \in Seq(Byte) /\ Len(s4) = 18
         /\ SameUpTo(s4, s3, 15)
         /\ \A i \in Int : 1 <= i /\ i <= 3 => s4[15 + i] = t4[i]
    <2>1. Follows(Byte, s3 \o t4, s3, t4)
      BY <1>25, <1>11, FollowedBy, Zenon
    <2>2. QED
      BY <1>25, <1>11, <1>18, <2>1, SMTT(30) DEF Follows
  <1>27. /\ s5 \in Seq(Byte) /\ Len(s5) = 20
         /\ SameUpTo(s5, s4, 18)
         /\ \A i \in Int : 1 <= i /\ i <= 2 => s5[18 + i] = t5[i]
    <2>1. Follows(Byte, s4 \o t5, s4, t5)
      BY <1>26, <1>12, FollowedBy, Zenon
    <2>2. QED
      BY <1>26, <1>12, <1>19, <2>1, SMTT(30) DEF Follows
  <1>28. /\ s6 \in Seq(Byte) /\ Len(s6) = 21
         /\ SameUpTo(s6, s5, 20)
         /\ \A i \in Int : 1 <= i /\ i <= 1 => s6[20 + i] = t6[i]
    <2>1. Follows(Byte, s5 \o t6, s5, t6)
      BY <1>27, <1>13, FollowedBy, Zenon
    <2>2. QED
      BY <1>27, <1>13, <1>20, <2>1 DEF Follows
  <1>29. /\ s7 \in Seq(Byte) /\ Len(s7) = 23
         /\ SameUpTo(s7, s6, 21)
         /\ \A i \in Int : 1 <= i /\ i <= 2 => s7[21 + i] = t7[i]
    <2>1. Follows(Byte, s6 \o t7, s6, t7)
      BY <1>28, <1>14, FollowedBy, Zenon
    <2>2. QED
      BY <1>28, <1>14, <1>21, <2>1 DEF Follows
  <1>30. /\ s8 \in Seq(Byte) /\ Len(s8) = 24
         /\ SameUpTo(s8, s7, 23)
         /\ \A i \in Int : 1 <= i /\ i <= 1 => s8[23 + i] = t8[i]
    <2>1. Follows(Byte, s7 \o t8, s7, t8)
      BY <1>29, <1>15, FollowedBy, Zenon
    <2>2. QED
      BY <1>29, <1>15, <1>22, <2>1 DEF Follows
  <1>31. /\ s9 \in Seq(Byte) /\ Len(s9) = 24 + n
         /\ SameUpTo(s9, s8, 24)
         /\ \A i \in Int : 1 <= i /\ i <= n => s9[24 + i] = data[i]
    <2>1. Follows(Byte, s8 \o data, s8, data)
      BY <1>30, FollowedBy, Zenon
    <2>2. QED
      BY <1>2, <1>30, <1>23, <2>1 DEF Follows
  <1>32. SameUpTo(s9, s7, 23)
    BY <1>31, <1>30, SameSeries
  <1>33. SameUpTo(s9, s6, 21)
    BY <1>32, <1>29, SameSeries
  <1>34. SameUpTo(s9, s5, 20)
    BY <1>33, <1>28, SameSeries
  <1>35. SameUpTo(s9, s4, 18)
    BY <1>34, <1>27, SameSeries
  <1>36. SameUpTo(s9, s3, 15)
    BY <1>35, <1>26, SameSeries
  <1>37. SameUpTo(s9, s2, 9)
    BY <1>36, <1>25, SameSeries
  <1>38. SameUpTo(s9, t1, 3)
    BY <1>37, <1>24, SameSeries
  <1>39. s9[1] = RDM /\ s9[2] = 1 /\ s9[3] = all
    BY <1>9, <1>38 DEF SameUpTo
  <1>40. \A i \in Int : 1 <= i /\ i <= 6 => s9[3 + i] = dest[i]
    BY <1>24, <1>37 DEF SameUpTo
  <1>41. \A i \in Int : 1 <= i /\ i <= 6 => s9[9 + i] = src[i]
    BY <1>25, <1>36 DEF SameUpTo
  <1>42. s9[16] = txn /\ s9[17] = port /\ s9[18] = 0
    BY <1>11, <1>26, <1>35 DEF SameUpTo
  <1>43. s9[19] = sub \div 256 /\ s9[20] = sub % 256
    BY <1>12, <1>27, <1>34 DEF SameUpTo
  <1>44. s9[21] = cc
    <2>1. s6[20 + 1] = t6[1]
      BY <1>28
    <2>2. s9[21] = s6[21]
      BY <1>33 DEF SameUpTo
    <2>3. QED
      BY <1>13, <2>1, <2>2
  <1>45. s9[22] = pid \div 256 /\ s9[23] = pid % 256
    BY <1>14, <1>29, <1>32 DEF SameUpTo
  <1>46. s9[24] = n
    BY <1>15, <1>30, <1>31 DEF SameUpTo
  <1>47. Laid(s9, dest, src, txn, port, sub, cc, pid, n, all, data)
    BY <1>31, <1>39, <1>40, <1>41, <1>42, <1>43, <1>44, <1>45, <1>46, Zenon DEF Laid
  <1> QED
    BY <1>5, <1>6, <1>7, <1>8, <1>16, <1>17, <1>18, <1>19, <1>20, <1>21, <1>22, <1>23, <1>47, Zenon

(* The fields of a well-formed packet, one by one.                         *)
LEMMA FieldsAre ==
    ASSUME NEW p, WellFormed(p)
    PROVE  /\ p.dest \in Uid /\ p.src \in Uid
           /\ p.txn \in Byte /\ p.port \in Byte /\ p.cc \in Byte
           /\ p.sub \in Number16 /\ p.pid \in Number16
           /\ p.data \in Seq(Byte) /\ Len(p.data) <= MAX_PDL
  BY Zenon DEF WellFormed

(* The fields of a packet are where its layout says.                       *)
LEMMA BodyIs ==
    ASSUME NEW p, WellFormed(p)
    PROVE  /\ Laid(Body(p), p.dest, p.src, p.txn, p.port, p.sub, p.cc, p.pid,
                   Len(p.data), HEADER + Len(p.data), p.data)
           /\ Len(p.data) \in Int /\ 0 <= Len(p.data) /\ Len(p.data) <= 231
  <1>1. /\ p.dest \in Uid /\ p.src \in Uid
        /\ p.txn \in Byte /\ p.port \in Byte /\ p.cc \in Byte
        /\ p.sub \in Number16 /\ p.pid \in Number16
        /\ p.data \in Seq(Byte) /\ Len(p.data) <= MAX_PDL
    BY FieldsAre
  <1>2. PICK data : data = p.data
    OBVIOUS
  <1>3. data \in Seq(Byte) /\ Len(data) <= 231
    BY <1>1, <1>2 DEF MAX_PDL
  <1>4. Len(data) \in Int /\ 0 <= Len(data) /\ Len(data) \in Byte /\ 24 + Len(data) \in Byte
    <2>1. Len(data) \in Nat
      BY <1>3
    <2>2. QED
      BY <1>3, <2>1, ByteIs
  <1>5. HEADER + Len(data) \in Byte
    BY <1>4 DEF HEADER
  <1>6. Laid(Body(p), p.dest, p.src, p.txn, p.port, p.sub, p.cc, p.pid,
             Len(data), HEADER + Len(data), data)
    BY <1>1, <1>2, <1>4, <1>5, LayoutIs, ZenonT(30) DEF Body
  <1> QED
    BY <1>2, <1>3, <1>4, <1>6

(* The packet, and the checksum behind it.                                 *)
Coded(b, body, n) ==
    /\ b \in Seq(Byte) /\ Len(b) = 26 + n
    /\ SameUpTo(b, body, 24 + n)
    /\ b[25 + n] = Checksum(body) \div 256 /\ b[26 + n] = Checksum(body) % 256

(* A checksum is a number of 16 bits.                                      *)
LEMMA ChecksumType ==
    ASSUME NEW b \in Seq(Byte)
    PROVE  Checksum(b) \in Number16
  <1>1. ByteSum(b) \in Int
    <2>1. Len(b) \in Nat /\ ByteSum(b) \in 0 .. 255 * Len(b)
      BY SumType
    <2>2. QED
      BY <2>1
  <1>2. \A x \in Int : (x % (256 * 256)) \in Int /\ 0 <= x % (256 * 256)
                       /\ x % (256 * 256) <= 256 * 256 - 1
    OBVIOUS
  <1>3. MAX_WORD + 1 = 256 * 256
    BY DEF MAX_WORD
  <1> QED
    BY <1>1, <1>2, <1>3, NumberIs DEF Checksum, MAX_WORD

(* An encoded packet is its fields, and their checksum behind them.        *)
LEMMA EncodeIs ==
    ASSUME NEW p, WellFormed(p)
    PROVE  Coded(Encode(p), Body(p), Len(p.data))
  <1>1. PICK n, body : n = Len(p.data) /\ body = Body(p)
    OBVIOUS
  <1>2. body \in Seq(Byte) /\ Len(body) = 24 + n /\ n \in Int /\ 0 <= n
    BY <1>1, BodyIs, ZenonT(30) DEF Laid
  <1>3. PICK b : b = Encode(p)
    OBVIOUS
  <1>4. b = body \o Pair(Checksum(body))
    BY <1>1, <1>3 DEF Encode, Body, Summed
  <1>5. PICK sum : sum = Checksum(body)
    OBVIOUS
  <1>6. PICK t : t = Pair(sum)
    OBVIOUS
  <1>7. t \in Seq(Byte) /\ Len(t) = 2 /\ t[1] = sum \div 256 /\ t[2] = sum % 256
    BY <1>2, <1>5, <1>6, ChecksumType, PairIs
  <1>8. Follows(Byte, b, body, t)
    BY <1>2, <1>4, <1>5, <1>6, <1>7, FollowedBy, Zenon
  <1>9. /\ b \in Seq(Byte) /\ Len(b) = 26 + n /\ SameUpTo(b, body, 24 + n)
    BY <1>2, <1>7, <1>8 DEF Follows
  <1>10. b[(24 + n) + 1] = sum \div 256 /\ b[(24 + n) + 2] = sum % 256
    BY <1>2, <1>7, <1>8 DEF Follows
  <1>11. (24 + n) + 1 = 25 + n /\ (24 + n) + 2 = 26 + n
    BY <1>2
  <1> QED
    BY <1>1, <1>3, <1>5, <1>9, <1>10, <1>11 DEF Coded

(* The k elements of s stand in b behind the first m.                      *)
Stands(b, m, k, s) == \A i \in Int : 1 <= i /\ i <= k => b[m + i] = s[i]
Bounds(m, k, from, to, n) ==
    /\ m \in Int /\ k \in Int /\ from \in Int /\ to \in Int
    /\ 0 <= m /\ 0 <= k /\ m + k <= n /\ from = m + 1 /\ to = m + k

(* The part of b between two places is s if its elements are.              *)
LEMMA PartIs ==
    ASSUME NEW S, NEW b \in Seq(S), NEW m, NEW k, NEW from, NEW to,
           NEW s \in Seq(S), Len(s) = k,
           Bounds(m, k, from, to, Len(b)), Stands(b, m, k, s)
    PROVE  SubSeq(b, from, to) = s
  <1>0. /\ m \in Int /\ k \in Int /\ from \in Int /\ to \in Int
        /\ 0 <= m /\ 0 <= k /\ m + k <= Len(b) /\ from = m + 1 /\ to = m + k
    BY DEF Bounds
  <1>1. from \in Nat \ {0} /\ to \in 0 .. Len(b) /\ Len(b) \in Nat
    BY <1>0
  <1>2. /\ SubSeq(b, from, to) \in Seq(S)
        /\ \A i \in 1 .. Len(SubSeq(b, from, to)) : SubSeq(b, from, to)[i] = b[from + i - 1]
    BY <1>1, PiecePlaces
  <1>3. Len(SubSeq(b, from, to)) = k
    <2>1. \A i \in from .. to : b[i] \in S
      BY <1>1
    <2>2. Len(SubSeq(b, from, to)) = IF from <= to THEN to - from + 1 ELSE 0
      BY <1>0, <2>1, SubSeqProperties
    <2>3. QED
      BY <1>0, <2>2
  <1> DEFINE q == SubSeq(b, from, to)
  <1> HIDE DEF q
  <1>4. ASSUME NEW i \in 1 .. Len(q)
        PROVE  q[i] = s[i]
    <2>1. i \in Int /\ 1 <= i /\ i <= k /\ from + i - 1 = m + i
      BY <1>0, <1>3 DEF q
    <2>2. QED
      BY <1>2, <1>4, <2>1 DEF q, Stands
  <1>5. q = s
    BY <1>2, <1>3, <1>4, SeqEqual DEF q
  <1> QED
    BY <1>5 DEF q

(* Where a part of b is.                                                   *)
IsPart(b, m, k, from, to, s) ==
    /\ b \in Seq(Byte) /\ s \in Seq(Byte) /\ Len(s) = k
    /\ Bounds(m, k, from, to, Len(b)) /\ Stands(b, m, k, s)

(* The same for bytes, in one hypothesis.                                  *)
LEMMA PartFound ==
    ASSUME NEW b, NEW m, NEW k, NEW from, NEW to, NEW s, IsPart(b, m, k, from, to, s)
    PROVE  SubSeq(b, from, to) = s
  BY PartIs DEF IsPart

(* A part of two bytes.                                                    *)
LEMMA TwoAre ==
    ASSUME NEW b \in Seq(Byte), NEW m, NEW from, NEW to, Bounds(m, 2, from, to, Len(b))
    PROVE  SubSeq(b, from, to) = <<b[from], b[to]>>
  <1>0. m \in Int /\ 0 <= m /\ m + 2 <= Len(b) /\ from = m + 1 /\ to = m + 2
    BY DEF Bounds
  <1>1. from \in 1 .. Len(b) /\ to \in 1 .. Len(b)
    BY <1>0
  <1>2. b[from] \in Byte /\ b[to] \in Byte
    BY <1>1
  <1>3. PICK x, y : x = b[from] /\ y = b[to]
    OBVIOUS
  <1>4. PICK s : s = <<x, y>>
    OBVIOUS
  <1>5. s \in Seq(Byte) /\ Len(s) = 2 /\ s[1] = x /\ s[2] = y
    BY <1>2, <1>3, <1>4
  <1>6. Stands(b, m, 2, s)
    <2>1. SUFFICES ASSUME NEW i \in Int, 1 <= i, i <= 2
                   PROVE  b[m + i] = s[i]
      BY DEF Stands
    <2>2. i = 1 \/ i = 2
      BY <2>1
    <2>3. QED
      BY <1>0, <1>3, <1>5, <2>2
  <1>7. SubSeq(b, from, to) = s
    BY <1>5, <1>6, PartIs
  <1> QED
    BY <1>3, <1>4, <1>7

(* The bytes of a packet, and perhaps more, are decoded to what was        *)
(* encoded, and the checksum is right.                                     *)
Says(b, p) ==
    /\ ~Ignored(b)
    /\ ~Malformed(b) <=> p.port \in ResponseType /\ p.cc \in CommandClass
    /\ Decode(b).dest = p.dest /\ Decode(b).src = p.src /\ Decode(b).txn = p.txn
    /\ Decode(b).type = p.port /\ Decode(b).count = 0 /\ Decode(b).sub = p.sub
    /\ Decode(b).cc = p.cc /\ Decode(b).pid = p.pid /\ Decode(b).data = p.data
    /\ Decode(b).checksum

(* The checksum that is computed is compared with the one that was         *)
(* received.                                                               *)
LEMMA ChecksumRead ==
    ASSUME NEW b \in Seq(Byte), NEW n \in Int, 0 <= n, b[24] = n, Len(b) >= 26 + n
    PROVE  Decode(b).checksum <=>
               /\ b[25 + n] = Checksum(SubSeq(b, 1, 24 + n)) \div 256
               /\ b[26 + n] = Checksum(SubSeq(b, 1, 24 + n)) % 256
  <1>1. PICK sum : sum = Checksum(SubSeq(b, 1, 24 + n))
    OBVIOUS
  <1>2. SubSeq(b, 25 + n, 26 + n) = <<b[25 + n], b[26 + n]>>
    <2>1. Bounds(24 + n, 2, 25 + n, 26 + n, Len(b))
      BY DEF Bounds
    <2>2. QED
      BY <2>1, TwoAre, ZenonT(30)
  <1>3. HEADER + b[24] = 24 + n /\ (24 + n) + 1 = 25 + n /\ (24 + n) + 2 = 26 + n
    BY DEF HEADER
  <1>4. Decode(b).checksum =
            (Pair(Checksum(SubSeq(b, 1, HEADER + b[24]))) =
                SubSeq(b, HEADER + b[24] + 1, HEADER + b[24] + 2))
    BY Zenon DEF Decode
  <1>5. Decode(b).checksum <=> Pair(sum) = <<b[25 + n], b[26 + n]>>
    BY <1>1, <1>2, <1>3, <1>4, Zenon
  <1>6. \A x, y, u, v : <<x, y>> = <<u, v>> <=> x = u /\ y = v
    OBVIOUS
  <1>7. Pair(sum) = <<sum \div 256, sum % 256>>
    BY DEF Pair
  <1>8. <<sum \div 256, sum % 256>> = <<b[25 + n], b[26 + n]>>
        <=> sum \div 256 = b[25 + n] /\ sum % 256 = b[26 + n]
    BY <1>6, Zenon
  <1> QED
    BY <1>1, <1>5, <1>7, <1>8, ZenonT(30)

(* decode_rdm_response() undoes the encoding, whatever follows the packet. *)
LEMMA DecodedIs ==
    ASSUME NEW p, WellFormed(p), NEW b \in Seq(Byte), Len(b) >= 26 + Len(p.data),
           SameUpTo(b, Encode(p), 26 + Len(p.data))
    PROVE  Says(b, p)
  <1>1. PICK n, body, all : n = Len(p.data) /\ body = Body(p) /\ all = HEADER + Len(p.data)
    OBVIOUS
  <1>2. PICK dest, src, txn, port, sub, cc, pid, data :
           /\ dest = p.dest /\ src = p.src /\ txn = p.txn /\ port = p.port /\ sub = p.sub
           /\ cc = p.cc /\ pid = p.pid /\ data = p.data
    BY Zenon
  <1>3. /\ Laid(body, dest, src, txn, port, sub, cc, pid, n, all, data)
        /\ n \in Int /\ 0 <= n
    BY <1>1, <1>2, BodyIs, Zenon
  <1>4. /\ dest \in Uid /\ src \in Uid /\ sub \in Number16 /\ pid \in Number16
        /\ data \in Seq(Byte) /\ Len(data) = n
    BY <1>1, <1>2, FieldsAre, Zenon
  <1>5. Coded(Encode(p), body, n)
    BY <1>1, EncodeIs, Zenon
  <1>6. Len(b) >= 26 + n /\ SameUpTo(b, Encode(p), 26 + n) /\ Len(b) \in Int
    BY <1>1
  <1>7. /\ SameUpTo(b, body, 24 + n)
        /\ b[25 + n] = Checksum(body) \div 256 /\ b[26 + n] = Checksum(body) % 256
    BY <1>3, <1>5, <1>6 DEF Coded, SameUpTo
  <1>8. /\ b[1] = RDM /\ b[2] = 1
        /\ Stands(b, 3, 6, dest) /\ Stands(b, 9, 6, src)
        /\ b[16] = txn /\ b[17] = port /\ b[18] = 0
        /\ b[19] = sub \div 256 /\ b[20] = sub % 256
        /\ b[21] = cc
        /\ b[22] = pid \div 256 /\ b[23] = pid % 256
        /\ b[24] = n
        /\ Stands(b, 24, n, data)
    <2>1. \A i \in Int : 1 <= i /\ i <= 24 + n => b[i] = body[i]
      BY <1>7, Zenon DEF SameUpTo
    <2>2. /\ body[1] = RDM /\ body[2] = 1 /\ body[16] = txn /\ body[17] = port /\ body[18] = 0
          /\ body[19] = sub \div 256 /\ body[20] = sub % 256 /\ body[21] = cc
          /\ body[22] = pid \div 256 /\ body[23] = pid % 256 /\ body[24] = n
      BY <1>3, Zenon DEF Laid
    <2>3. /\ Stands(body, 3, 6, dest) /\ Stands(body, 9, 6, src)
          /\ Stands(body, 24, n, data)
      BY <1>3, Zenon DEF Laid, Stands
    <2>4. /\ b[1] = RDM /\ b[2] = 1 /\ b[16] = txn /\ b[17] = port /\ b[18] = 0
          /\ b[19] = sub \div 256 /\ b[20] = sub % 256 /\ b[21] = cc
          /\ b[22] = pid \div 256 /\ b[23] = pid % 256 /\ b[24] = n
      <3>1. /\ b[1] = body[1] /\ b[2] = body[2] /\ b[16] = body[16] /\ b[17] = body[17]
            /\ b[18] = body[18] /\ b[19] = body[19] /\ b[20] = body[20] /\ b[21] = body[21]
            /\ b[22] = body[22] /\ b[23] = body[23] /\ b[24] = body[24]
        BY <1>3, <2>1
      <3>2. QED
        BY <2>2, <3>1, ZenonT(30)
    <2>5. Stands(b, 3, 6, dest)
      BY <1>3, <2>1, <2>3, SMTT(30) DEF Stands
    <2>6. Stands(b, 9, 6, src)
      BY <1>3, <2>1, <2>3 DEF Stands
    <2>7. Stands(b, 24, n, data)
      BY <1>3, <2>1, <2>3 DEF Stands
    <2>8. QED
      BY <2>4, <2>5, <2>6, <2>7, Zenon
  <1>9. HEADER + b[24] = 24 + n
    BY <1>8 DEF HEADER
  <1>10. SubSeq(b, 4, 9) = dest
    <2>0. Stands(b, 3, 6, dest)
      BY <1>8
    <2>1. Bounds(3, 6, 4, 9, Len(b))
      BY <1>3, <1>6 DEF Bounds
    <2>2. dest \in Seq(Byte) /\ Len(dest) = 6
      BY <1>4, UidIs, Zenon
    <2>3. QED
      <3>1. IsPart(b, 3, 6, 4, 9, dest)
        BY <2>0, <2>1, <2>2, Zenon DEF IsPart
      <3>2. QED
        BY <3>1, PartFound, Zenon
  <1>11. SubSeq(b, 10, 15) = src
    <2>0. Stands(b, 9, 6, src)
      BY <1>8
    <2>1. Bounds(9, 6, 10, 15, Len(b))
      BY <1>3, <1>6 DEF Bounds
    <2>2. src \in Seq(Byte) /\ Len(src) = 6
      BY <1>4, UidIs, Zenon
    <2>3. QED
      <3>1. IsPart(b, 9, 6, 10, 15, src)
        BY <2>0, <2>1, <2>2, Zenon DEF IsPart
      <3>2. QED
        BY <3>1, PartFound, Zenon
  <1>12. SubSeq(b, HEADER + 1, HEADER + b[24]) = data
    <2>1. HEADER + 1 = 24 + 1
      BY DEF HEADER
    <2>2. SubSeq(b, 24 + 1, 24 + n) = data
      <3>1. Bounds(24, n, 24 + 1, 24 + n, Len(b))
        BY <1>3, <1>6 DEF Bounds
      <3>2. Stands(b, 24, n, data) /\ data \in Seq(Byte) /\ Len(data) = n
        BY <1>4, <1>8, Zenon
      <3>3. QED
        <4>1. IsPart(b, 24, n, 24 + 1, 24 + n, data)
          BY <3>1, <3>2, Zenon DEF IsPart
        <4>2. QED
          BY <4>1, PartFound, Zenon
    <2>3. QED
      BY <1>9, <2>1, <2>2
  <1>13. Word(b[19], b[20]) = sub /\ Word(b[22], b[23]) = pid
    BY <1>4, <1>8, PairIs
  <1>14. SubSeq(b, 1, 24 + n) = body
    <2>1. body \in Seq(Byte) /\ Len(body) = 24 + n
      BY <1>3 DEF Laid
    <2>2. Stands(b, 0, 24 + n, body)
      BY <1>7 DEF SameUpTo, Stands
    <2>3. QED
      <3>1. Bounds(0, 24 + n, 1, 24 + n, Len(b))
        BY <1>3, <1>6 DEF Bounds
      <3>2. QED
        BY <2>1, <2>2, <3>1, PartIs, Zenon
  <1>15. Decode(b).checksum
    <2>1. n \in Int /\ 0 <= n /\ b[24] = n /\ Len(b) >= 26 + n
      BY <1>3, <1>6, <1>8, Zenon
    <2>2. QED
      BY <1>7, <1>14, <2>1, ChecksumRead, Zenon
  <1>16. /\ Decode(b).dest = dest /\ Decode(b).src = src /\ Decode(b).txn = txn
         /\ Decode(b).type = port /\ Decode(b).count = 0 /\ Decode(b).sub = sub
         /\ Decode(b).cc = cc /\ Decode(b).pid = pid /\ Decode(b).data = data
    BY <1>8, <1>10, <1>11, <1>12, <1>13, Zenon DEF Decode
  <1>17. ~Ignored(b)
    BY <1>3, <1>6, <1>8 DEF Ignored, HEADER
  <1>18. ~(Len(b) < HEADER + b[24] + 2)
    BY <1>3, <1>6, <1>9
  <1>19. ~Malformed(b) <=> port \in ResponseType /\ cc \in CommandClass
    BY <1>8, <1>18, Zenon DEF Malformed
  <1> QED
    BY <1>2, <1>15, <1>16, <1>17, <1>19, Zenon DEF Says

(* What is one byte short is not decoded.                                  *)
LEMMA ShortIsMalformed ==
    ASSUME NEW p, WellFormed(p), NEW b \in Seq(Byte), Len(b) = 25 + Len(p.data),
           SameUpTo(b, Encode(p), 25 + Len(p.data))
    PROVE  ~Decodes(b)
  <1>1. PICK n : n = Len(p.data)
    OBVIOUS
  <1>2. /\ Body(p)[24] = n /\ n \in Int /\ 0 <= n
    BY <1>1, BodyIs, ZenonT(30) DEF Laid
  <1>3. Coded(Encode(p), Body(p), n)
    BY <1>1, EncodeIs, Zenon
  <1>4. Len(b) = 25 + n /\ SameUpTo(b, Encode(p), 25 + n)
    BY <1>1
  <1>5. b[24] = n
    BY <1>2, <1>3, <1>4 DEF Coded, SameUpTo
  <1>6. Len(b) < HEADER + b[24] + 2
    BY <1>2, <1>4, <1>5 DEF HEADER
  <1> QED
    BY <1>6 DEF Decodes, Malformed

(* Two sums that differ by less than 256 differ in 16 bits.                *)
LEMMA SumsDiffer ==
    ASSUME NEW x \in Int, NEW y \in Int, NEW d \in Int, y = x + d, d # 0, -255 <= d, d <= 255
    PROVE  x % (MAX_WORD + 1) # y % (MAX_WORD + 1)
  <1>1. MAX_WORD + 1 = 256 * 256
    BY DEF MAX_WORD
  <1>2. \A u \in Int : \E q, r \in Int : u = (256 * 256) * q + r /\ r = u % (256 * 256)
    <2>1. \A u \in Int : /\ u \div (256 * 256) \in Int /\ u % (256 * 256) \in Int
                         /\ u = (256 * 256) * (u \div (256 * 256)) + (u % (256 * 256))
      OBVIOUS
    <2>2. QED
      BY <2>1
  <1>3. PICK q, r \in Int : x = (256 * 256) * q + r /\ r = x % (256 * 256)
    BY <1>2
  <1>4. PICK k, s \in Int : y = (256 * 256) * k + s /\ s = y % (256 * 256)
    BY <1>2
  <1>5. ASSUME r = s PROVE FALSE
    BY <1>3, <1>4, <1>5
  <1> QED
    BY <1>1, <1>3, <1>4, <1>5

(* Bytes that differ at i, and nowhere else.                               *)
DifferAt(c, e, n, i) ==
    /\ c \in Seq(Byte) /\ e \in Seq(Byte) /\ Len(c) = n /\ Len(e) = n
    /\ i \in Int /\ 1 <= i /\ i <= n /\ c[i] # e[i]
    /\ \A j \in Int : 1 <= j /\ j <= n /\ j # i => c[j] = e[j]

(* A packet with one byte changed differs from the packet there.           *)
LEMMA ChangedAt ==
    ASSUME NEW e, NEW c, NEW n, OneByteChanged(e, c), e \in Seq(Byte), Len(e) = n
    PROVE  \E i : DifferAt(c, e, n, i)
  <1>1. PICK i \in DOMAIN e : c[i] \in Byte \ {e[i]} /\ c = [e EXCEPT ![i] = c[i]]
    BY DEF OneByteChanged
  <1>2. PICK v : v = c[i]
    OBVIOUS
  <1>3. v \in Byte /\ v # e[i] /\ c = [e EXCEPT ![i] = v]
    BY <1>1, <1>2
  <1>4. DOMAIN e = 1 .. Len(e) /\ Len(e) \in Nat
    BY LenProperties
  <1>5. c \in Seq(Byte) /\ Len(c) = Len(e)
    BY <1>3, <1>4, ExceptSeq
  <1>6. \A j \in 1 .. Len(e) : j # i => c[j] = e[j]
    BY <1>3, <1>4
  <1> QED
    BY <1>2, <1>3, <1>4, <1>5, <1>6 DEF DifferAt

(* Sums of the same bytes but one.                                         *)
LEMMA SumsOfChanged ==
    ASSUME NEW s, NEW t, NEW n, NEW i, DifferAt(s, t, n, i)
    PROVE  Checksum(s) # Checksum(t)
  <1>0. /\ s \in Seq(Byte) /\ t \in Seq(Byte) /\ Len(s) = n /\ Len(t) = n
        /\ i \in Int /\ 1 <= i /\ i <= n /\ s[i] # t[i]
        /\ \A j \in Int : 1 <= j /\ j <= n /\ j # i => s[j] = t[j]
    BY DEF DifferAt
  <1>1. s \in Seq(Int) /\ t \in Seq(Int) /\ i \in 1 .. Len(t)
    <2>1. Byte \subseteq Int
      BY DEF Byte
    <2>2. s \in Seq(Int) /\ t \in Seq(Int)
      BY <1>0, <2>1, SeqMonotonic
    <2>3. QED
      BY <1>0, <2>2
  <1>2. Len(s) = Len(t) /\ \A j \in 1 .. Len(t) : j # i => s[j] = t[j]
    BY <1>0
  <1>3. /\ ByteSum(t) \in Int /\ ByteSum(s) \in Int
        /\ ByteSum(s) = ByteSum(t) + (s[i] - t[i])
    BY <1>1, <1>2, SumOfChanged
  <1>4. s[i] \in Byte /\ t[i] \in Byte /\ s[i] # t[i]
    BY <1>0
  <1>5. PICK d : d = s[i] - t[i]
    OBVIOUS
  <1>6. d \in Int /\ d # 0 /\ -255 <= d /\ d <= 255
    BY <1>4, <1>5, ByteIs
  <1>7. PICK x, y : x = ByteSum(t) /\ y = ByteSum(s)
    OBVIOUS
  <1>8. x \in Int /\ y \in Int /\ y = x + d
    BY <1>3, <1>5, <1>7
  <1>9. x % (MAX_WORD + 1) # y % (MAX_WORD + 1)
    BY <1>6, <1>8, SumsDiffer
  <1> QED
    BY <1>7, <1>9, Zenon DEF Checksum

(* A packet with one byte changed is not decoded, or its checksum is wrong,*)
(* or its length byte disagrees with its data.                             *)
LEMMA DamageShows ==
    ASSUME NEW p, WellFormed(p), NEW c, OneByteChanged(Encode(p), c), NEW b \in Seq(Byte),
           \A j \in Int : 1 <= j /\ j <= Len(b) /\ j <= Len(c) => b[j] = c[j]
    PROVE  ~(Decodes(b) /\ Decode(b).checksum /\ LengthAgrees(b))
  <1> SUFFICES ASSUME Decodes(b), Decode(b).checksum, LengthAgrees(b)
               PROVE  FALSE
    OBVIOUS
  <1>1. PICK n, body, e : n = Len(p.data) /\ body = Body(p) /\ e = Encode(p)
    OBVIOUS
  <1>2. /\ body \in Seq(Byte) /\ Len(body) = 24 + n /\ n \in Int /\ 0 <= n
        /\ body[3] = HEADER + n /\ body[24] = n
    BY <1>1, BodyIs, ZenonT(30) DEF Laid
  <1>3. Coded(e, body, n)
    BY <1>1, EncodeIs, Zenon
  <1>4. OneByteChanged(e, c) /\ e \in Seq(Byte) /\ Len(e) = 26 + n
    BY <1>1, <1>3, Zenon DEF Coded
  <1>5. PICK i : DifferAt(c, e, 26 + n, i)
    BY <1>4, ChangedAt, Zenon
  <1>6. \A j \in Int : 1 <= j /\ j <= Len(b) /\ j <= 26 + n => b[j] = c[j]
    BY <1>5, Zenon DEF DifferAt
  <1>7. ~Ignored(b) /\ ~Malformed(b) /\ b[3] = HEADER + b[24]
    BY Zenon DEF Decodes, LengthAgrees
  <1>8. Len(b) \in Int /\ Len(b) >= 26
    BY <1>7 DEF Ignored, HEADER
  <1>9. b[3] = c[3] /\ b[24] = c[24]
    BY <1>2, <1>6, <1>8
  <1>10. e[3] = HEADER + n /\ e[24] = n
    <2>1. e[3] = body[3] /\ e[24] = body[24]
      BY <1>2, <1>3 DEF Coded, SameUpTo
    <2>2. QED
      BY <1>2, <2>1
  <1>11. b[24] \in Int
    BY <1>8, ByteIs
  <1>12. i # 3
    <2>1. SUFFICES ASSUME i = 3 PROVE FALSE
      OBVIOUS
    <2>2. b[24] = n /\ b[3] # HEADER + n
      BY <1>2, <1>5, <1>9, <1>10, <2>1 DEF DifferAt
    <2>3. QED
      BY <1>7, <2>2
  <1>13. b[24] = n
    <2>1. c[3] = e[3]
      BY <1>2, <1>5, <1>12 DEF DifferAt
    <2>2. HEADER + b[24] = HEADER + n
      BY <1>7, <1>9, <1>10, <2>1
    <2>3. QED
      BY <1>2, <1>11, <2>2 DEF HEADER
  <1>14. Len(b) >= 26 + n
    BY <1>2, <1>7, <1>8, <1>13 DEF Malformed, HEADER
  <1>15. \A j \in Int : 1 <= j /\ j <= 26 + n => b[j] = c[j]
    BY <1>2, <1>6, <1>8, <1>14
  <1>16. PICK t : t = SubSeq(b, 1, 24 + n)
    OBVIOUS
  <1>17. t \in Seq(Byte) /\ Len(t) = 24 + n /\ \A j \in Int : 1 <= j /\ j <= 24 + n => t[j] = b[j]
    BY <1>2, <1>8, <1>14, <1>16
  <1>18. b[25 + n] = Checksum(t) \div 256 /\ b[26 + n] = Checksum(t) % 256
    <2>1. n \in Int /\ 0 <= n /\ b[24] = n /\ Len(b) >= 26 + n
      BY <1>2, <1>13, <1>14, Zenon
    <2>2. QED
      <3>1. Decode(b).checksum <=>
               /\ b[25 + n] = Checksum(SubSeq(b, 1, 24 + n)) \div 256
               /\ b[26 + n] = Checksum(SubSeq(b, 1, 24 + n)) % 256
        BY <2>1, ChecksumRead
      <3>2. QED
        BY <1>16, <3>1, Zenon
  <1>19. e[25 + n] = Checksum(body) \div 256 /\ e[26 + n] = Checksum(body) % 256
    BY <1>3, Zenon DEF Coded
  <1>20. \A j \in Int : 1 <= j /\ j <= 24 + n => e[j] = body[j]
    BY <1>3, Zenon DEF Coded, SameUpTo
  <1>21. CASE i <= 24 + n
    <2>1. \A j \in Int : 1 <= j /\ j <= 24 + n /\ j # i => t[j] = body[j]
      BY <1>2, <1>5, <1>15, <1>17, <1>20 DEF DifferAt
    <2>2. i \in Int /\ 1 <= i /\ t[i] # body[i]
      BY <1>2, <1>5, <1>15, <1>17, <1>20, <1>21 DEF DifferAt
    <2>3. Checksum(t) # Checksum(body)
      <3>1. DifferAt(t, body, 24 + n, i)
        BY <1>2, <1>17, <1>21, <2>1, <2>2, Zenon DEF DifferAt
      <3>2. QED
        BY <3>1, SumsOfChanged, Zenon
    <2>4. b[25 + n] = e[25 + n] /\ b[26 + n] = e[26 + n]
      BY <1>2, <1>5, <1>15, <1>21 DEF DifferAt
    <2>5. PICK x, y : x = Checksum(t) /\ y = Checksum(body)
      OBVIOUS
    <2>6. x \in Number16 /\ y \in Number16
      BY <1>2, <1>17, <2>5, ChecksumType
    <2>7. x \div 256 = y \div 256 /\ x % 256 = y % 256
      BY <1>18, <1>19, <2>4, <2>5
    <2>8. x = Word(x \div 256, x % 256) /\ y = Word(y \div 256, y % 256)
      BY <2>6, PairIs, Zenon
    <2>9. QED
      BY <2>3, <2>5, <2>7, <2>8, ZenonT(30)
  <1>22. CASE ~(i <= 24 + n)
    <2>1. ASSUME NEW j \in 1 .. Len(t)
          PROVE  t[j] = body[j]
      <3>1. j \in Int /\ 1 <= j /\ j <= 24 + n /\ j <= 26 + n /\ j # i
        BY <1>2, <1>5, <1>17, <1>22 DEF DifferAt
      <3>2. c[j] = e[j]
        BY <1>5, <3>1 DEF DifferAt
      <3>3. QED
        BY <1>15, <1>17, <1>20, <3>1, <3>2
    <2>2. t = body
      BY <1>2, <1>17, <2>1, SeqEqual
    <2>3. b[i] = e[i]
      <3>1. i = 25 + n \/ i = 26 + n
        BY <1>2, <1>5, <1>22 DEF DifferAt
      <3>2. QED
        BY <1>18, <1>19, <2>2, <3>1, Zenon
    <2>4. QED
      BY <1>5, <1>15, <2>3 DEF DifferAt
  <1> QED
    BY <1>21, <1>22

-----------------------------------------------------------------------------
(* Answers to DISC_UNIQUE_BRANCH.                                          *)

Bin == {0, 1}
OfBits(a, b, c, d, e, f, g, h) ==
    a + 2 * b + 4 * c + 8 * d + 16 * e + 32 * f + 64 * g + 128 * h

(* A number below 2n is twice one below n, and a bit more.                 *)
Halves(v, n) == \E q \in Int, r \in Bin : v = 2 * q + r /\ 0 <= q /\ q < n

(* Such a number and such a bit always exist.                              *)
LEMMA Halved ==
    ASSUME NEW v \in Int, NEW n \in Int, 0 <= v, v < 2 * n
    PROVE  Halves(v, n)
  <1>1. /\ v \div 2 \in Int /\ v % 2 \in Int /\ 0 <= v % 2 /\ v % 2 <= 1
        /\ v = 2 * (v \div 2) + (v % 2)
    OBVIOUS
  <1>2. PICK q, r : q = v \div 2 /\ r = v % 2
    OBVIOUS
  <1>3. q \in Int /\ r \in Bin /\ v = 2 * q + r
    BY <1>1, <1>2 DEF Bin
  <1>4. 0 <= q /\ q < n
    BY <1>1, <1>2
  <1> QED
    BY <1>3, <1>4 DEF Halves

(* Every byte is made of eight bits.                                       *)
LEMMA BitsOf ==
    ASSUME NEW x \in Byte
    PROVE  \E a, b, c, d, e, f, g, h \in Bin : x = OfBits(a, b, c, d, e, f, g, h)
  <1>1. x \in Int /\ 0 <= x /\ x <= 255
    BY ByteIs
  <1>3. PICK p \in Int, a \in Bin : x = 2 * p + a /\ 0 <= p /\ p < 128
    <2>1. Halves(x, 128)
      BY <1>1, Halved
    <2>2. QED
      BY <2>1 DEF Halves
  <1>4. PICK q \in Int, b \in Bin : p = 2 * q + b /\ 0 <= q /\ q < 64
    <2>1. Halves(p, 64)
      BY <1>3, Halved
    <2>2. QED
      BY <2>1 DEF Halves
  <1>5. PICK r \in Int, c \in Bin : q = 2 * r + c /\ 0 <= r /\ r < 32
    <2>1. Halves(q, 32)
      BY <1>4, Halved
    <2>2. QED
      BY <2>1 DEF Halves
  <1>6. PICK s \in Int, d \in Bin : r = 2 * s + d /\ 0 <= s /\ s < 16
    <2>1. Halves(r, 16)
      BY <1>5, Halved
    <2>2. QED
      BY <2>1 DEF Halves
  <1>7. PICK t \in Int, e \in Bin : s = 2 * t + e /\ 0 <= t /\ t < 8
    <2>1. Halves(s, 8)
      BY <1>6, Halved
    <2>2. QED
      BY <2>1 DEF Halves
  <1>8. PICK u \in Int, f \in Bin : t = 2 * u + f /\ 0 <= u /\ u < 4
    <2>1. Halves(t, 4)
      BY <1>7, Halved
    <2>2. QED
      BY <2>1 DEF Halves
  <1>9. PICK h \in Int, g \in Bin : u = 2 * h + g /\ 0 <= h /\ h < 2
    <2>1. Halves(u, 2)
      BY <1>8, Halved
    <2>2. QED
      BY <2>1 DEF Halves
  <1>10. h \in Bin
    BY <1>9 DEF Bin
  <1>11. \A y \in Bin : y \in Int
    BY DEF Bin
  <1>12. x = OfBits(a, b, c, d, e, f, g, h)
    BY <1>3, <1>4, <1>5, <1>6, <1>7, <1>8, <1>9, <1>10, <1>11 DEF OfBits
  <1> QED
    BY <1>10, <1>12, Zenon

(* The bits of a byte.                                                     *)
Bits(x, a, b, c, d, e, f, g, h) ==
    /\ (x \div 1) % 2 = a /\ (x \div 2) % 2 = b /\ (x \div 4) % 2 = c
    /\ (x \div 8) % 2 = d /\ (x \div 16) % 2 = e /\ (x \div 32) % 2 = f
    /\ (x \div 64) % 2 = g /\ (x \div 128) % 2 = h

(* They are the bits of the byte.                                          *)
LEMMA BitsAre ==
    ASSUME NEW a \in Bin, NEW b \in Bin, NEW c \in Bin, NEW d \in Bin,
           NEW e \in Bin, NEW f \in Bin, NEW g \in Bin, NEW h \in Bin
    PROVE  Bits(OfBits(a, b, c, d, e, f, g, h), a, b, c, d, e, f, g, h)
  <1>1. PICK x : x = OfBits(a, b, c, d, e, f, g, h)
    OBVIOUS
  <1>2. /\ a \in Int /\ 0 <= a /\ a <= 1 /\ b \in Int /\ 0 <= b /\ b <= 1
        /\ c \in Int /\ 0 <= c /\ c <= 1 /\ d \in Int /\ 0 <= d /\ d <= 1
        /\ e \in Int /\ 0 <= e /\ e <= 1 /\ f \in Int /\ 0 <= f /\ f <= 1
        /\ g \in Int /\ 0 <= g /\ g <= 1 /\ h \in Int /\ 0 <= h /\ h <= 1
    BY DEF Bin
  <1>3. x = a + 2 * b + 4 * c + 8 * d + 16 * e + 32 * f + 64 * g + 128 * h
    BY <1>1 DEF OfBits
  <1>4. (x \div 1) % 2 = a
    BY <1>2, <1>3
  <1>5. (x \div 2) % 2 = b
    BY <1>2, <1>3
  <1>6. (x \div 4) % 2 = c
    BY <1>2, <1>3
  <1>7. (x \div 8) % 2 = d
    BY <1>2, <1>3
  <1>8. (x \div 16) % 2 = e
    BY <1>2, <1>3
  <1>9. (x \div 32) % 2 = f
    BY <1>2, <1>3
  <1>10. (x \div 64) % 2 = g
    BY <1>2, <1>3
  <1>11. (x \div 128) % 2 = h
    BY <1>2, <1>3
  <1> QED
    BY <1>1, <1>4, <1>5, <1>6, <1>7, <1>8, <1>9, <1>10, <1>11 DEF Bits

(* A byte comes out of the two that hold it.                               *)
LEMMA HeldTwice ==
    ASSUME NEW x \in Byte
    PROVE  /\ BitOr(x, 170) \in Int /\ BitOr(x, 85) \in Int
           /\ BitAnd(BitOr(x, 170), BitOr(x, 85)) = x
           /\ BitOr(x, 85) # Newline
  <1>1. PICK a, b, c, d, e, f, g, h \in Bin : x = OfBits(a, b, c, d, e, f, g, h)
    BY BitsOf
  <1>2. Bits(x, a, b, c, d, e, f, g, h)
    BY <1>1, BitsAre
  <1>3. 0 \in Bin /\ 1 \in Bin
    BY DEF Bin
  <1>4. 170 = OfBits(0, 1, 0, 1, 0, 1, 0, 1) /\ 85 = OfBits(1, 0, 1, 0, 1, 0, 1, 0)
    BY DEF OfBits
  <1>5. Bits(170, 0, 1, 0, 1, 0, 1, 0, 1) /\ Bits(85, 1, 0, 1, 0, 1, 0, 1, 0)
    <2>1. /\ Bits(OfBits(0, 1, 0, 1, 0, 1, 0, 1), 0, 1, 0, 1, 0, 1, 0, 1)
          /\ Bits(OfBits(1, 0, 1, 0, 1, 0, 1, 0), 1, 0, 1, 0, 1, 0, 1, 0)
      BY <1>3, BitsAre, Zenon
    <2>2. QED
      BY <1>4, <2>1
  <1>6. BitAnd(x, 170) = 2 * b + 8 * d + 32 * f + 128 * h
    <2>1. \A y \in Bin : y = 0 \/ y = 1
      BY DEF Bin
    <2>2. /\ CommonBit(x, 170, 1) = 0 /\ CommonBit(x, 170, 4) = 0
          /\ CommonBit(x, 170, 16) = 0 /\ CommonBit(x, 170, 64) = 0
      BY <1>5 DEF Bits, CommonBit
    <2>3. CommonBit(x, 170, 2) = 2 * b /\ CommonBit(x, 170, 8) = 8 * d
      BY <1>2, <1>5, <2>1 DEF Bits, CommonBit
    <2>4. CommonBit(x, 170, 32) = 32 * f /\ CommonBit(x, 170, 128) = 128 * h
      BY <1>2, <1>5, <2>1 DEF Bits, CommonBit
    <2>5. b \in Int /\ d \in Int /\ f \in Int /\ h \in Int
      BY DEF Bin
    <2>6. QED
      BY <2>2, <2>3, <2>4, <2>5 DEF BitAnd
  <1>7. BitAnd(x, 85) = a + 4 * c + 16 * e + 64 * g
    <2>1. \A y \in Bin : y = 0 \/ y = 1
      BY DEF Bin
    <2>2. /\ CommonBit(x, 85, 2) = 0 /\ CommonBit(x, 85, 8) = 0
          /\ CommonBit(x, 85, 32) = 0 /\ CommonBit(x, 85, 128) = 0
      BY <1>5 DEF Bits, CommonBit
    <2>3. CommonBit(x, 85, 1) = a /\ CommonBit(x, 85, 4) = 4 * c
      BY <1>2, <1>5, <2>1 DEF Bits, CommonBit
    <2>4. CommonBit(x, 85, 16) = 16 * e /\ CommonBit(x, 85, 64) = 64 * g
      BY <1>2, <1>5, <2>1 DEF Bits, CommonBit
    <2>5. a \in Int /\ c \in Int /\ e \in Int /\ g \in Int
      BY DEF Bin
    <2>6. QED
      BY <2>2, <2>3, <2>4, <2>5 DEF BitAnd
  <1>8. PICK y, z : y = BitOr(x, 170) /\ z = BitOr(x, 85)
    OBVIOUS
  <1>9. \A u \in Bin : u \in Int
    BY DEF Bin
  <1>10. y = OfBits(a, 1, c, 1, e, 1, g, 1)
    BY <1>1, <1>6, <1>8, <1>9 DEF OfBits, BitOr
  <1>11. z = OfBits(1, b, 1, d, 1, f, 1, h)
    BY <1>1, <1>7, <1>8, <1>9 DEF OfBits, BitOr
  <1>12. Bits(y, a, 1, c, 1, e, 1, g, 1) /\ Bits(z, 1, b, 1, d, 1, f, 1, h)
    BY <1>3, <1>10, <1>11, BitsAre
  <1>13. BitAnd(y, z) = x
    <2>1. \A v \in Bin : v = 0 \/ v = 1
      BY DEF Bin
    <2>2. CommonBit(y, z, 1) = a /\ CommonBit(y, z, 2) = 2 * b
      BY <1>12, <2>1 DEF Bits, CommonBit
    <2>3. CommonBit(y, z, 4) = 4 * c /\ CommonBit(y, z, 8) = 8 * d
      BY <1>12, <2>1 DEF Bits, CommonBit
    <2>4. CommonBit(y, z, 16) = 16 * e /\ CommonBit(y, z, 32) = 32 * f
      BY <1>12, <2>1 DEF Bits, CommonBit
    <2>5. CommonBit(y, z, 64) = 64 * g /\ CommonBit(y, z, 128) = 128 * h
      BY <1>12, <2>1 DEF Bits, CommonBit
    <2>6. QED
      BY <1>1, <1>9, <2>2, <2>3, <2>4, <2>5 DEF BitAnd, OfBits
  <1>14. y \in Int /\ z \in Int
    BY <1>9, <1>10, <1>11 DEF OfBits
  <1>15. z # Newline
    <2>1. (z \div 1) % 2 = 1
      BY <1>12 DEF Bits
    <2>2. (Newline \div 1) % 2 = 0
      BY DEF Newline
    <2>3. QED
      BY <2>1, <2>2
  <1> QED
    BY <1>8, <1>13, <1>14, <1>15

(* The bytes of a discovery answer behind the preamble.                    *)
TwiceIn(m, uid) ==
    /\ m \in Seq(Int) /\ Len(m) = 16
    /\ \A i \in Int : 1 <= i /\ i <= 6 =>
          m[2 * i - 1] = BitOr(uid[i], 170) /\ m[2 * i] = BitOr(uid[i], 85)
    /\ m[16] # Newline

(* The sixteen bytes of an answer hold each byte of the UID twice.         *)
LEMMA ManchesterIs ==
    ASSUME NEW uid \in Uid
    PROVE  TwiceIn(Manchester(uid), uid)
  <1>1. uid \in Seq(Byte) /\ Len(uid) = 6
    BY UidIs
  <1>2. PICK sum : sum = Len(uid) * 255 + ByteSum(uid)
    OBVIOUS
  <1>3. sum \in Int
    <2>1. ByteSum(uid) \in Int
      BY <1>1, SumType
    <2>2. QED
      BY <1>1, <1>2, <2>1
  <1>4. sum \div 256 \in Int /\ sum % 256 \in Byte /\ sum % 256 \in Int
    <2>1. sum \div 256 \in Int /\ sum % 256 \in Int /\ 0 <= sum % 256 /\ sum % 256 <= 255
      BY <1>3
    <2>2. QED
      BY <2>1, ByteIs
  <1>5. PICK q, r : q = sum \div 256 /\ r = sum % 256
    OBVIOUS
  <1>6. PICK t : t = Pair(sum)
    OBVIOUS
  <1>7. t \in Seq(Int) /\ Len(t) = 2 /\ t[2] = r
    <2>1. t = <<q, r>> /\ q \in Int /\ r \in Int
      BY <1>4, <1>5, <1>6 DEF Pair
    <2>2. QED
      BY <2>1
  <1>8. PICK b : b = uid \o t
    OBVIOUS
  <1>9. uid \in Seq(Int)
    <2>1. Byte \subseteq Int
      BY DEF Byte
    <2>2. QED
      BY <1>1, <2>1, SeqMonotonic
  <1>10. Follows(Int, b, uid, t)
    BY <1>7, <1>8, <1>9, FollowedBy, Zenon
  <1>11. /\ \A i \in Int : 1 <= i /\ i <= 8 => b[i] \in Int
         /\ \A i \in Int : 1 <= i /\ i <= 6 => b[i] = uid[i]
         /\ b[8] = r
    <2>1. b \in Seq(Int) /\ Len(b) = 8
      BY <1>1, <1>7, <1>10 DEF Follows
    <2>2. \A i \in Int : 1 <= i /\ i <= 6 => b[i] = uid[i]
      BY <1>1, <1>10 DEF Follows, SameUpTo
    <2>3. \A i \in Int : 1 <= i /\ i <= 2 => b[6 + i] = t[i]
      BY <1>1, <1>7, <1>10, Zenon DEF Follows
    <2>4. b[8] = r
      <3>1. b[6 + 2] = t[2]
        BY <2>3
      <3>2. QED
        BY <1>7, <3>1
    <2>5. ASSUME NEW i \in Int, 1 <= i, i <= 8
          PROVE  b[i] \in Int
      <3>1. i \in 1 .. Len(b)
        BY <2>1, <2>5
      <3>2. QED
        BY <2>1, <3>1, ElementOfSeq
    <2>6. QED
      BY <2>2, <2>4, <2>5
  <1>12. PICK m : m = [i \in 1 .. 16 |-> IF i % 2 = 1 THEN BitOr(b[(i + 1) \div 2], 170)
                                                     ELSE BitOr(b[i \div 2], 85)]
    OBVIOUS
  <1>13. Manchester(uid) = m
    BY <1>2, <1>6, <1>8, <1>12 DEF Manchester
  <1>14. \A x, y \in Int : BitOr(x, y) \in Int
    <2>1. \A x, y, z : z \in Int => CommonBit(x, y, z) \in Int
      BY DEF CommonBit
    <2>2. \A x, y \in Int : BitAnd(x, y) \in Int
      BY <2>1 DEF BitAnd
    <2>3. QED
      BY <2>2 DEF BitOr
  <1>15. \A i \in 1 .. 16 : m[i] \in Int
    <2>1. SUFFICES ASSUME NEW i \in 1 .. 16
                   PROVE  m[i] \in Int
      OBVIOUS
    <2>2. /\ i % 2 = 1 => 1 <= (i + 1) \div 2 /\ (i + 1) \div 2 <= 8 /\ (i + 1) \div 2 \in Int
          /\ i % 2 # 1 => 1 <= i \div 2 /\ i \div 2 <= 8 /\ i \div 2 \in Int
      BY <2>1
    <2>3. QED
      <3>1. CASE i % 2 = 1
        <4>1. PICK j : j = (i + 1) \div 2
          OBVIOUS
        <4>2. m[i] = BitOr(b[j], 170)
          BY <1>12, <3>1, <4>1
        <4>3. b[j] \in Int /\ 170 \in Int
          BY <1>11, <2>2, <3>1, <4>1
        <4>4. QED
          BY <1>14, <4>2, <4>3, Zenon
      <3>2. CASE i % 2 # 1
        <4>1. PICK j : j = i \div 2
          OBVIOUS
        <4>2. m[i] = BitOr(b[j], 85)
          BY <1>12, <3>2, <4>1
        <4>3. b[j] \in Int /\ 85 \in Int
          BY <1>11, <2>2, <3>2, <4>1
        <4>4. QED
          BY <1>14, <4>2, <4>3, Zenon
      <3>3. QED
        BY <3>1, <3>2
  <1>16. m \in Seq(Int) /\ Len(m) = 16
    BY <1>12, <1>15, SeqDef
  <1>17. ASSUME NEW i \in Int, 1 <= i, i <= 6
         PROVE  m[2 * i - 1] = BitOr(uid[i], 170) /\ m[2 * i] = BitOr(uid[i], 85)
    <2>1. /\ 2 * i - 1 \in 1 .. 16 /\ 2 * i \in 1 .. 16
          /\ (2 * i - 1) % 2 = 1 /\ ((2 * i - 1) + 1) \div 2 = i
          /\ (2 * i) % 2 = 0 /\ (2 * i) \div 2 = i
      BY <1>17
    <2>2. QED
      BY <1>11, <1>12, <1>17, <2>1
  <1>18. m[16] # Newline
    <2>1. 16 \in 1 .. 16 /\ 16 % 2 = 0 /\ 16 \div 2 = 8
      OBVIOUS
    <2>2. m[16] = BitOr(r, 85)
      BY <1>11, <1>12, <2>1
    <2>3. QED
      BY <1>4, <1>5, <2>2, HeldTwice
  <1> QED
    BY <1>13, <1>16, <1>17, <1>18, Zenon DEF TwiceIn

(* The whole answer.                                                       *)
AnswerLaid(x, uid, n) ==
    /\ x \in Seq(Int) /\ Len(x) = n + 17
    /\ \A i \in Int : 1 <= i /\ i <= n => x[i] = RDM_DISCOVERY
    /\ x[n + 1] = DISCOVERY_START
    /\ \A i \in Int : 1 <= i /\ i <= 6 =>
          /\ x[(n + 1) + (2 * i - 1)] = BitOr(uid[i], 170)
          /\ x[(n + 1) + 2 * i] = BitOr(uid[i], 85)
    /\ x[n + 17] # Newline

(* A discovery answer is a preamble, its end and those sixteen bytes.      *)
LEMMA BranchIs ==
    ASSUME NEW uid \in Uid, NEW n \in 1 .. MAX_PREAMBLE_BYTES
    PROVE  AnswerLaid(Branch(uid, n), uid, n)
  <1>1. n \in Int /\ 1 <= n
    BY DEF MAX_PREAMBLE_BYTES
  <1>2. PICK pre : pre = [i \in 1 .. n |-> RDM_DISCOVERY]
    OBVIOUS
  <1>3. /\ pre \in Seq(Int) /\ Len(pre) = n
        /\ \A i \in Int : 1 <= i /\ i <= n => pre[i] = RDM_DISCOVERY
    <2>1. RDM_DISCOVERY \in Int
      BY DEF RDM_DISCOVERY
    <2>2. QED
      BY <1>1, <1>2, <2>1
  <1>4. PICK start : start = <<DISCOVERY_START>>
    OBVIOUS
  <1>5. start \in Seq(Int) /\ Len(start) = 1 /\ start[1] = DISCOVERY_START
    BY <1>4 DEF DISCOVERY_START
  <1>6. PICK m : m = Manchester(uid)
    OBVIOUS
  <1>7. /\ m \in Seq(Int) /\ Len(m) = 16
        /\ \A i \in Int : 1 <= i /\ i <= 6 =>
              m[2 * i - 1] = BitOr(uid[i], 170) /\ m[2 * i] = BitOr(uid[i], 85)
        /\ m[16] # Newline
    <2>1. TwiceIn(m, uid)
      BY <1>6, ManchesterIs, Zenon
    <2>2. QED
      BY <2>1, Zenon DEF TwiceIn
  <1>8. PICK u : u = pre \o start
    OBVIOUS
  <1>9. PICK x : x = u \o m
    OBVIOUS
  <1>10. /\ u \in Seq(Int) /\ Len(u) = n + 1
         /\ \A i \in Int : 1 <= i /\ i <= n => u[i] = pre[i]
         /\ u[n + 1] = start[1]
    <2>1. Follows(Int, u, pre, start)
      BY <1>3, <1>5, <1>8, FollowedBy, Zenon
    <2>2. QED
      BY <1>3, <1>5, <2>1 DEF Follows, SameUpTo
  <1>11. /\ x \in Seq(Int) /\ Len(x) = (n + 1) + 16
         /\ \A i \in Int : 1 <= i /\ i <= n + 1 => x[i] = u[i]
         /\ \A i \in Int : 1 <= i /\ i <= 16 => x[(n + 1) + i] = m[i]
    <2>1. Follows(Int, x, u, m)
      BY <1>7, <1>9, <1>10, FollowedBy, Zenon
    <2>2. QED
      BY <1>7, <1>10, <2>1 DEF Follows, SameUpTo
  <1>12. Branch(uid, n) = x
    BY <1>2, <1>4, <1>6, <1>8, <1>9 DEF Branch
  <1>13. \A i \in Int : 1 <= i /\ i <= n => x[i] = RDM_DISCOVERY
    BY <1>1, <1>3, <1>10, <1>11
  <1>14. x[n + 1] = DISCOVERY_START
    BY <1>1, <1>5, <1>10, <1>11
  <1>15. ASSUME NEW j \in Int, 1 <= j, j <= 16
         PROVE  x[(n + 1) + j] = m[j]
    BY <1>11, <1>15
  <1>16. x[n + 17] # Newline
    <2>1. (n + 1) + 16 = n + 17
      BY <1>1
    <2>2. x[(n + 1) + 16] = m[16]
      BY <1>15
    <2>3. QED
      BY <1>7, <2>1, <2>2
  <1>17. ASSUME NEW i \in Int, 1 <= i, i <= 6
         PROVE  /\ x[(n + 1) + (2 * i - 1)] = BitOr(uid[i], 170)
                /\ x[(n + 1) + 2 * i] = BitOr(uid[i], 85)
    <2>1. /\ 2 * i - 1 \in Int /\ 1 <= 2 * i - 1 /\ 2 * i - 1 <= 16
          /\ 2 * i \in Int /\ 1 <= 2 * i /\ 2 * i <= 16
      BY <1>17
    <2>2. x[(n + 1) + (2 * i - 1)] = m[2 * i - 1] /\ x[(n + 1) + 2 * i] = m[2 * i]
      BY <1>15, <2>1, Zenon
    <2>3. QED
      BY <1>7, <1>17, <2>2, Zenon
  <1>18. Len(x) = n + 17
    BY <1>1, <1>11
  <1> QED
    BY <1>11, <1>12, <1>13, <1>14, <1>16, <1>17, <1>18, ZenonT(30) DEF AnswerLaid

(* A discovery answer is found as long as it is, and gives its UID.        *)
LEMMA BranchDecodes ==
    ASSUME NEW uid \in Uid, NEW n \in 1 .. MAX_PREAMBLE_BYTES,
           NEW b \in Seq(Byte), Len(b) = n + 17, SameUpTo(b, Branch(uid, n), n + 17)
    PROVE  DecodesUid(b) /\ DecodeUid(b) = uid
  <1>1. n \in Int /\ 1 <= n /\ n <= 7
    BY DEF MAX_PREAMBLE_BYTES
  <1>2. PICK x : x = Branch(uid, n)
    OBVIOUS
  <1>3. AnswerLaid(x, uid, n)
    BY <1>2, BranchIs
  <1>4. \A i \in Int : 1 <= i /\ i <= n + 17 => b[i] = x[i]
    BY <1>2 DEF SameUpTo
  <1>5. \A i \in Int : 1 <= i /\ i <= n => b[i] = RDM_DISCOVERY
    BY <1>1, <1>3, <1>4 DEF AnswerLaid
  <1>6. b[n + 1] = DISCOVERY_START
    BY <1>1, <1>3, <1>4 DEF AnswerLaid
  <1>7. ASSUME NEW i \in Int, 1 <= i, i <= 6
        PROVE  /\ b[(n + 1) + (2 * i - 1)] = BitOr(uid[i], 170)
               /\ b[(n + 1) + 2 * i] = BitOr(uid[i], 85)
    <2>1. /\ (n + 1) + (2 * i - 1) \in Int /\ 1 <= (n + 1) + (2 * i - 1)
          /\ (n + 1) + (2 * i - 1) <= n + 17
          /\ (n + 1) + 2 * i \in Int /\ 1 <= (n + 1) + 2 * i /\ (n + 1) + 2 * i <= n + 17
      BY <1>1, <1>7
    <2>2. /\ x[(n + 1) + (2 * i - 1)] = BitOr(uid[i], 170)
          /\ x[(n + 1) + 2 * i] = BitOr(uid[i], 85)
      BY <1>3, <1>7, Zenon DEF AnswerLaid
    <2>3. PICK j, k : j = (n + 1) + (2 * i - 1) /\ k = (n + 1) + 2 * i
      OBVIOUS
    <2>4. b[j] = x[j] /\ b[k] = x[k]
      BY <1>4, <2>1, <2>3
    <2>5. QED
      BY <2>2, <2>3, <2>4, Zenon
  <1>8. PICK q : q = PreambleLen(b)
    OBVIOUS
  <1>9. q = n
    <2>1. /\ q \in Int /\ 0 <= q /\ q <= 7 /\ q <= Len(b)
          /\ \A i \in Int : 1 <= i /\ i <= q => b[i] = RDM_DISCOVERY
          /\ q < 7 /\ q < Len(b) => b[q + 1] # RDM_DISCOVERY
      BY <1>8, PreambleCounted DEF MAX_PREAMBLE_BYTES
    <2>2. ~(q > n)
      BY <1>1, <1>6, <2>1 DEF RDM_DISCOVERY, DISCOVERY_START
    <2>3. ~(q < n)
      <3>1. SUFFICES ASSUME q < n PROVE FALSE
        OBVIOUS
      <3>2. q + 1 \in Int /\ 1 <= q + 1 /\ q + 1 <= n /\ q < 7 /\ q < Len(b)
        BY <1>1, <2>1, <3>1
      <3>3. QED
        BY <1>5, <2>1, <3>2
    <2>4. QED
      BY <1>1, <2>1, <2>2, <2>3
  <1>10. FindDiscovery(b) = n + 17
    BY <1>1, <1>6, <1>8, <1>9 DEF FindDiscovery, IfWhole, MANCHESTER_DATA_LEN
  <1>11. DecodesUid(b)
    BY <1>1, <1>10 DEF DecodesUid
  <1>12. FindDiscovery(b) - MANCHESTER_DATA_LEN = n + 1
    BY <1>1, <1>10 DEF MANCHESTER_DATA_LEN
  <1>13. PICK d : d = DecodeUid(b)
    OBVIOUS
  <1>14. d = [i \in 1 .. 6 |-> BitAnd(b[(n + 1) + 2 * i - 1], b[(n + 1) + 2 * i])]
    BY <1>12, <1>13 DEF DecodeUid
  <1>15. ASSUME NEW i \in 1 .. 6
         PROVE  d[i] = uid[i]
    <2>1. i \in Int /\ 1 <= i /\ i <= 6 /\ (n + 1) + 2 * i - 1 = (n + 1) + (2 * i - 1)
      BY <1>1
    <2>2. PICK u : u = uid[i]
      OBVIOUS
    <2>3. u \in Byte
      BY <2>2 DEF Uid
    <2>4. b[(n + 1) + 2 * i - 1] = BitOr(u, 170) /\ b[(n + 1) + 2 * i] = BitOr(u, 85)
      BY <1>7, <2>1, <2>2
    <2>5. BitAnd(BitOr(u, 170), BitOr(u, 85)) = u
      BY <2>3, HeldTwice
    <2>6. d[i] = BitAnd(b[(n + 1) + 2 * i - 1], b[(n + 1) + 2 * i])
      BY <1>14
    <2>7. QED
      BY <2>2, <2>4, <2>5, <2>6, Zenon
  <1>16. d = uid
    <2>1. DOMAIN uid = 1 .. 6 /\ uid = [i \in 1 .. 6 |-> uid[i]]
      BY DEF Uid
    <2>2. QED
      BY <1>14, <1>15, <2>1
  <1> QED
    BY <1>11, <1>13, <1>16

-----------------------------------------------------------------------------
(* What comes out of a frame.                                              *)

(* The bytes of a packet are those that its frame has at its place.        *)
PartOf(b, u, m, n) ==
    /\ b \in Seq(Byte) /\ Len(b) = n - m + 1
    /\ \A i \in Int : 1 <= i /\ i <= n - m + 1 => b[i] = u[(m - 1) + i]

(* What is taken out of a frame is the part that the adapter names.        *)
LEMMA PacketIs ==
    ASSUME TypeOK, NEW k \in DOMAIN stream.pieces, NEW places \in PacketPlaces(stream, k),
           NEW u, u = stream.pieces[k].bytes, NEW m \in Int, NEW n \in Int,
           Payload(stream.adapter, Len(u))[1] = m, Payload(stream.adapter, Len(u))[2] = n,
           1 <= m, m <= n + 1, n <= Len(u)
    PROVE  PartOf(Bytes(places), u, m, n)
  <1>1. /\ u \in Seq(Byte) /\ Len(u) \in Nat
        /\ FrameEnd(k) \in 0 .. Len(stream.bytes)
        /\ FrameStart(k) = FrameEnd(k) - Len(u) + 1 /\ FrameStart(k) >= 1
        /\ \A i \in 1 .. Len(u) : u[i] = stream.bytes[FrameStart(k) + i - 1]
    BY PieceFacts DEF FrameSize
  <1>2. Len(stream.bytes) \in Nat /\ stream.bytes \in Seq(Byte)
    BY StreamTypes
  <1>3. PICK start : start = FrameStart(k)
    OBVIOUS
  <1>4. start \in Int /\ 1 <= start /\ start + Len(u) <= Len(stream.bytes) + 1
    <2>1. PICK end, all : end = FrameEnd(k) /\ all = Len(stream.bytes)
      OBVIOUS
    <2>2. /\ end \in Int /\ end <= all /\ all \in Int /\ Len(u) \in Int
          /\ start = end - Len(u) + 1 /\ start >= 1
      BY <1>1, <1>2, <1>3, <2>1
    <2>3. QED
      BY <2>1, <2>2
  <1>5. places = Places(start - 1 + m - 1, start - 1 + n)
    BY <1>3 DEF PacketPlaces, FrameStart
  <1>6. places = [i \in 1 .. n - m + 1 |-> start - 1 + m - 1 + i]
    <2>1. (start - 1 + n) - (start - 1 + m - 1) = n - m + 1
      BY <1>4
    <2>2. QED
      BY <1>5, <2>1 DEF Places
  <1>7. PICK b : b = Bytes(places)
    OBVIOUS
  <1>8. b = [i \in 1 .. n - m + 1 |-> stream.bytes[start - 1 + m - 1 + i]]
    BY <1>6, <1>7 DEF Bytes
  <1>9. ASSUME NEW i \in Int, 1 <= i, i <= n - m + 1
        PROVE  b[i] = u[(m - 1) + i] /\ b[i] \in Byte
    <2>1. /\ i \in 1 .. n - m + 1
          /\ (m - 1) + i \in 1 .. Len(u)
          /\ start + ((m - 1) + i) - 1 = start - 1 + m - 1 + i
          /\ start - 1 + m - 1 + i \in 1 .. Len(stream.bytes)
      <3>1. PICK l, all : l = Len(u) /\ all = Len(stream.bytes)
        OBVIOUS
      <3>2. l \in Int /\ all \in Int /\ start + l <= all + 1
        BY <1>1, <1>2, <1>4, <3>1
      <3>3. /\ i <= n - m + 1 /\ n <= l /\ 1 <= m /\ 1 <= i /\ 1 <= start
        BY <1>4, <1>9, <3>1
      <3>4. i \in 1 .. n - m + 1 /\ (m - 1) + i \in 1 .. l
        BY <3>2, <3>3
      <3>5. /\ start + ((m - 1) + i) - 1 = start - 1 + m - 1 + i
            /\ start - 1 + m - 1 + i \in 1 .. all
        BY <1>4, <3>2, <3>3
      <3>6. QED
        BY <3>1, <3>4, <3>5, Zenon
    <2>2. b[i] = stream.bytes[start - 1 + m - 1 + i]
      BY <1>8, <2>1
    <2>3. QED
      BY <1>1, <1>2, <1>3, <2>1, <2>2, ElementOfSeq
  <1>10. b \in Seq(Byte) /\ Len(b) = n - m + 1
    <2>1. n - m + 1 \in Nat
      OBVIOUS
    <2>2. \A i \in 1 .. n - m + 1 : b[i] \in Byte
      BY <1>9
    <2>3. QED
      BY <1>8, <2>1, <2>2
  <1> QED
    BY <1>7, <1>9, <1>10, Zenon DEF PartOf

(* A packet comes out of its frame, possibly with a byte more, or without  *)
(* its last one.                                                           *)
Comes(b, packet, more) ==
    /\ b \in Seq(Byte) /\ Len(b) = Len(packet) + more
    /\ \A i \in Int : 1 <= i /\ i <= Len(b) /\ i <= Len(packet) => b[i] = packet[i]

(* A packet is followed by a newline unless it ends with one.              *)
LEMMA DelimitedIs ==
    ASSUME NEW S, Newline \in S, NEW packet \in Seq(S), Len(packet) >= 1
    PROVE  /\ SameUpTo(Delimited(packet), packet, Len(packet))
           /\ packet[Len(packet)] = Newline => Len(Delimited(packet)) = Len(packet)
           /\ packet[Len(packet)] # Newline => Len(Delimited(packet)) = Len(packet) + 1
           /\ Delimited(packet) \in Seq(S)
  <1>1. Len(packet) \in Nat /\ packet # <<>>
    BY EmptySeq
  <1>3. CASE packet[Len(packet)] = Newline
    BY <1>1, <1>3 DEF Delimited, SameUpTo
  <1>4. CASE packet[Len(packet)] # Newline
    <2>1. PICK d : d = Append(packet, Newline)
      OBVIOUS
    <2>2. Delimited(packet) = d
      BY <1>4, <2>1 DEF Delimited
    <2>3. /\ d \in Seq(S) /\ Len(d) = Len(packet) + 1
          /\ \A i \in 1 .. Len(packet) : d[i] = packet[i]
      BY <2>1, AppendProperties
    <2>4. QED
      BY <1>1, <1>4, <2>2, <2>3 DEF SameUpTo
  <1> QED
    BY <1>3, <1>4

(* The data of an Enttec message follows its header.                       *)
LEMMA EnttecIs ==
    ASSUME NEW data \in Seq(Int), NEW label \in Int
    PROVE  /\ EnttecMessage(label, data) \in Seq(Int)
           /\ Len(EnttecMessage(label, data)) = Len(data) + 5
           /\ \A i \in Int : 1 <= i /\ i <= Len(data) =>
                 EnttecMessage(label, data)[4 + i] = data[i]
  <1>1. Len(data) \in Int /\ 0 <= Len(data)
    OBVIOUS
  <1>2. PICK head : head = <<START_OF_MESSAGE, label, Len(data) % 256, Len(data) \div 256>>
    OBVIOUS
  <1>3. head \in Seq(Int) /\ Len(head) = 4
    <2>1. \A x, y, z, w \in Int : <<x, y, z, w>> \in Seq(Int) /\ Len(<<x, y, z, w>>) = 4
      OBVIOUS
    <2>2. START_OF_MESSAGE \in Int /\ Len(data) % 256 \in Int /\ Len(data) \div 256 \in Int
      BY <1>1 DEF START_OF_MESSAGE
    <2>3. QED
      BY <1>2, <2>1, <2>2
  <1>4. PICK end : end = <<END_OF_MESSAGE>>
    OBVIOUS
  <1>5. end \in Seq(Int) /\ Len(end) = 1
    BY <1>4 DEF END_OF_MESSAGE
  <1>6. PICK u : u = head \o data
    OBVIOUS
  <1>7. PICK x : x = u \o end
    OBVIOUS
  <1>8. /\ u \in Seq(Int) /\ Len(u) = 4 + Len(data)
        /\ \A i \in Int : 1 <= i /\ i <= Len(data) => u[4 + i] = data[i]
    <2>1. Follows(Int, u, head, data)
      BY <1>3, <1>6, FollowedBy, Zenon
    <2>2. QED
      BY <1>3, <2>1, Zenon DEF Follows
  <1>9. /\ x \in Seq(Int) /\ Len(x) = (4 + Len(data)) + 1
        /\ \A i \in Int : 1 <= i /\ i <= 4 + Len(data) => x[i] = u[i]
    <2>1. Follows(Int, x, u, end)
      BY <1>5, <1>7, <1>8, FollowedBy, Zenon
    <2>2. QED
      BY <1>5, <1>8, <2>1, Zenon DEF Follows, SameUpTo
  <1>10. EnttecMessage(label, data) = x
    BY <1>2, <1>4, <1>6, <1>7 DEF EnttecMessage
  <1>11. ASSUME NEW i \in Int, 1 <= i, i <= Len(data)
         PROVE  x[4 + i] = data[i]
    <2>1. 4 + i \in Int /\ 1 <= 4 + i /\ 4 + i <= 4 + Len(data)
      BY <1>1, <1>11
    <2>2. x[4 + i] = u[4 + i]
      BY <1>9, <2>1
    <2>3. QED
      BY <1>8, <1>11, <2>2
  <1> QED
    BY <1>1, <1>9, <1>10, <1>11

(* What follows a length byte.                                             *)
LEMMA PrefixedIs ==
    ASSUME NEW data \in Seq(Int), NEW x \in Int
    PROVE  /\ <<x>> \o data \in Seq(Int) /\ Len(<<x>> \o data) = Len(data) + 1
           /\ \A i \in Int : 1 <= i /\ i <= Len(data) => (<<x>> \o data)[1 + i] = data[i]
  <1>1. PICK head : head = <<x>>
    OBVIOUS
  <1>2. head \in Seq(Int) /\ Len(head) = 1
    BY <1>1
  <1>3. PICK u : u = head \o data
    OBVIOUS
  <1>4. Follows(Int, u, head, data)
    BY <1>2, <1>3, FollowedBy, Zenon
  <1>5. /\ u \in Seq(Int) /\ Len(u) = 1 + Len(data)
        /\ \A i \in Int : 1 <= i /\ i <= Len(data) => u[1 + i] = data[i]
    BY <1>2, <1>4, Zenon DEF Follows
  <1>6. Len(data) \in Int
    OBVIOUS
  <1> QED
    BY <1>1, <1>3, <1>5, <1>6

(* Of every adapter's frame the packet comes out, but for the newline.     *)
LEMMA DeliveredIs ==
    ASSUME TypeOK, NEW k \in DOMAIN stream.pieces, NEW places \in PacketPlaces(stream, k),
           NEW packet \in Seq(Int), Len(packet) >= 1,
           stream.pieces[k].bytes = Delivered(stream.adapter, packet)
    PROVE  \/ Comes(Bytes(places), packet, 0)
           \/ Comes(Bytes(places), packet, 1) /\ stream.adapter = "line"
           \/ /\ Comes(Bytes(places), packet, -1) /\ stream.adapter = "delimiter"
              /\ packet[Len(packet)] = Newline
  <1>1. PICK u, b, a, l : u = stream.pieces[k].bytes /\ b = Bytes(places)
                          /\ a = stream.adapter /\ l = Len(packet)
    OBVIOUS
  <1>2. a \in Adapter /\ l \in Int /\ l >= 1 /\ u = Delivered(a, packet)
    BY <1>1, StreamTypes
  <1>3. ASSUME NEW m \in Int, NEW n \in Int, Payload(a, Len(u)) = <<m, n>>,
               1 <= m, m <= n + 1, n <= Len(u)
        PROVE  PartOf(b, u, m, n)
    <2>1. Payload(a, Len(u))[1] = m /\ Payload(a, Len(u))[2] = n
      BY <1>3
    <2>2. QED
      BY <1>1, <1>3, <2>1, PacketIs
  <1>4. CASE a = "enttec"
    <2>1. PICK data : data = <<0>> \o packet
      OBVIOUS
    <2>2. /\ data \in Seq(Int) /\ Len(data) = l + 1
          /\ \A i \in Int : 1 <= i /\ i <= l => data[1 + i] = packet[i]
      BY <1>1, <2>1, PrefixedIs
    <2>3. u = EnttecMessage(RECEIVED_DMX_PACKET, data)
      BY <1>2, <1>4, <2>1 DEF Delivered
    <2>4. /\ Len(u) = (l + 1) + 5
          /\ \A i \in Int : 1 <= i /\ i <= l + 1 => u[4 + i] = data[i]
      <3>1. RECEIVED_DMX_PACKET \in Int
        BY DEF RECEIVED_DMX_PACKET
      <3>2. /\ Len(EnttecMessage(RECEIVED_DMX_PACKET, data)) = Len(data) + 5
            /\ \A i \in Int : 1 <= i /\ i <= Len(data) =>
                  EnttecMessage(RECEIVED_DMX_PACKET, data)[4 + i] = data[i]
        BY <2>2, <3>1, EnttecIs, Zenon
      <3>3. QED
        BY <2>2, <2>3, <3>2, Zenon
    <2>5. PartOf(b, u, 6, l + 5)
      <3>1. Payload(a, Len(u)) = <<6, l + 5>>
        BY <1>2, <1>4, <2>4 DEF Payload
      <3>2. 6 \in Int /\ l + 5 \in Int /\ 1 <= 6 /\ 6 <= (l + 5) + 1 /\ l + 5 <= Len(u)
        BY <1>2, <2>4
      <3>3. QED
        BY <1>3, <3>1, <3>2
    <2>6. b \in Seq(Byte) /\ Len(b) = l
      BY <1>2, <2>5 DEF PartOf
    <2>7. ASSUME NEW i \in Int, 1 <= i, i <= l
          PROVE  b[i] = packet[i]
      <3>1. b[i] = u[5 + i]
        BY <1>2, <2>5, <2>7 DEF PartOf
      <3>2. PICK j : j = 1 + i
        OBVIOUS
      <3>3. j \in Int /\ 1 <= j /\ j <= l + 1 /\ 4 + j = 5 + i
        BY <1>2, <2>7, <3>2
      <3>4. u[4 + j] = data[j] /\ data[j] = packet[i]
        BY <2>2, <2>4, <2>7, <3>2, <3>3
      <3>5. QED
        BY <3>1, <3>3, <3>4
    <2>8. Comes(b, packet, 0)
      BY <1>1, <1>2, <2>6, <2>7 DEF Comes
    <2>9. QED
      BY <1>1, <2>8
  <1>5. CASE a = "length"
    <2>1. /\ Len(u) = l + 1 /\ \A i \in Int : 1 <= i /\ i <= l => u[1 + i] = packet[i]
      BY <1>1, <1>2, <1>5, PrefixedIs, SMTT(30) DEF Delivered
    <2>2. PartOf(b, u, 2, l + 1)
      <3>1. Payload(a, Len(u)) = <<2, l + 1>>
        BY <1>2, <1>5, <2>1 DEF Payload
      <3>2. 2 \in Int /\ l + 1 \in Int /\ 1 <= 2 /\ 2 <= (l + 1) + 1 /\ l + 1 <= Len(u)
        BY <1>2, <2>1
      <3>3. QED
        BY <1>3, <3>1, <3>2
    <2>3. Comes(b, packet, 0)
      BY <1>1, <1>2, <2>1, <2>2 DEF PartOf, Comes
    <2>4. QED
      BY <1>1, <2>3
  <1>6. CASE a \in {"bare", "raw"}
    <2>1. u = packet
      BY <1>2, <1>6 DEF Delivered
    <2>2. PartOf(b, u, 1, l)
      <3>1. Payload(a, Len(u)) = <<1, l>>
        BY <1>1, <1>6, <2>1 DEF Payload
      <3>2. 1 \in Int /\ l \in Int /\ 1 <= 1 /\ 1 <= l + 1 /\ l <= Len(u)
        BY <1>1, <1>2, <2>1
      <3>3. QED
        BY <1>3, <3>1, <3>2
    <2>3. Comes(b, packet, 0)
      BY <1>1, <1>2, <2>1, <2>2 DEF PartOf, Comes
    <2>4. QED
      BY <1>1, <2>3
  <1>7. a \in {"line", "delimiter"} =>
            /\ SameUpTo(u, packet, l)
            /\ packet[l] = Newline => Len(u) = l
            /\ packet[l] # Newline => Len(u) = l + 1
    <2>1. Newline \in Int
      BY DEF Newline
    <2>2. /\ SameUpTo(Delimited(packet), packet, Len(packet))
          /\ packet[Len(packet)] = Newline => Len(Delimited(packet)) = Len(packet)
          /\ packet[Len(packet)] # Newline => Len(Delimited(packet)) = Len(packet) + 1
      BY <2>1, DelimitedIs
    <2>3. a \in {"line", "delimiter"} => u = Delimited(packet)
      BY <1>2 DEF Delivered
    <2>4. QED
      BY <1>1, <2>2, <2>3, Zenon
  <1>8. CASE a = "line"
    <2>1. PartOf(b, u, 1, Len(u)) /\ Len(u) \in Int /\ l <= Len(u) /\ Len(u) <= l + 1
      <3>1. Payload(a, Len(u)) = <<1, Len(u)>>
        BY <1>8 DEF Payload
      <3>2. 1 \in Int /\ Len(u) \in Int /\ 1 <= 1 /\ 1 <= Len(u) + 1 /\ Len(u) <= Len(u)
            /\ l <= Len(u) /\ Len(u) <= l + 1
        BY <1>2, <1>7, <1>8
      <3>3. QED
        BY <1>3, <3>1, <3>2
    <2>2. Len(u) = l => Comes(b, packet, 0)
      BY <1>1, <1>2, <1>7, <1>8, <2>1 DEF PartOf, Comes, SameUpTo
    <2>3. Len(u) = l + 1 => Comes(b, packet, 1)
      BY <1>1, <1>2, <1>7, <1>8, <2>1 DEF PartOf, Comes, SameUpTo
    <2>4. QED
      BY <1>1, <1>7, <1>8, <2>2, <2>3
  <1>9. CASE a = "delimiter"
    <2>1. PartOf(b, u, 1, Len(u) - 1) /\ Len(u) \in Int /\ l <= Len(u) /\ Len(u) <= l + 1
      <3>1. Payload(a, Len(u)) = <<1, Len(u) - 1>>
        BY <1>9 DEF Payload
      <3>2. 1 \in Int /\ Len(u) - 1 \in Int /\ 1 <= 1 /\ 1 <= (Len(u) - 1) + 1
            /\ Len(u) - 1 <= Len(u) /\ l <= Len(u) /\ Len(u) <= l + 1 /\ Len(u) \in Int
        BY <1>2, <1>7, <1>9
      <3>3. QED
        BY <1>3, <3>1, <3>2
    <2>2. /\ b \in Seq(Byte) /\ Len(b) = Len(u) - 1
          /\ \A i \in Int : 1 <= i /\ i <= Len(b) => b[i] = u[i]
      BY <2>1 DEF PartOf
    <2>3. \A i \in Int : 1 <= i /\ i <= Len(b) /\ i <= l => b[i] = packet[i]
      BY <1>2, <1>7, <1>9, <2>2 DEF SameUpTo
    <2>4. packet[l] = Newline => Comes(b, packet, -1)
      <3>1. SUFFICES ASSUME packet[l] = Newline PROVE Comes(b, packet, -1)
        OBVIOUS
      <3>2. Len(u) = l
        BY <1>7, <1>9, <3>1, Zenon
      <3>3. Len(b) = l + -1
        BY <1>2, <2>2, <3>2
      <3>4. QED
        BY <1>1, <2>2, <2>3, <3>3, Zenon DEF Comes
    <2>5. packet[l] # Newline => Comes(b, packet, 0)
      <3>1. SUFFICES ASSUME packet[l] # Newline PROVE Comes(b, packet, 0)
        OBVIOUS
      <3>2. Len(u) = l + 1
        BY <1>7, <1>9, <3>1, Zenon
      <3>3. Len(b) = l + 0
        BY <1>2, <2>2, <3>2
      <3>4. QED
        BY <1>1, <2>2, <2>3, <3>3, Zenon DEF Comes
    <2>6. QED
      BY <1>1, <1>9, <2>4, <2>5
  <1> QED
    BY <1>2, <1>4, <1>5, <1>6, <1>8, <1>9 DEF Adapter

(* An encoded packet is a sequence of bytes, and how long it is.           *)
LEMMA EncodedBytes ==
    ASSUME NEW p, WellFormed(p)
    PROVE  /\ Encode(p) \in Seq(Byte) /\ Encode(p) \in Seq(Int)
           /\ Len(Encode(p)) = 26 + Len(p.data) /\ Len(p.data) \in Int /\ 0 <= Len(p.data)
  <1>1. Coded(Encode(p), Body(p), Len(p.data)) /\ Len(p.data) \in Int /\ 0 <= Len(p.data)
    BY EncodeIs, BodyIs, Zenon
  <1>2. Encode(p) \in Seq(Byte) /\ Len(Encode(p)) = 26 + Len(p.data)
    BY <1>1, Zenon DEF Coded
  <1>3. Byte \subseteq Int
    BY DEF Byte
  <1> QED
    BY <1>1, <1>2, <1>3, SeqMonotonic, Zenon

(* The encoded packet, with a byte behind it or none, says what was        *)
(* encoded.                                                                *)
LEMMA WholeSays ==
    ASSUME NEW p, WellFormed(p), NEW b, NEW more \in {0, 1}, Comes(b, Encode(p), more)
    PROVE  Says(b, p)
  <1>1. PICK e, n : e = Encode(p) /\ n = Len(p.data)
    OBVIOUS
  <1>2. Len(e) = 26 + n /\ n \in Int /\ 0 <= n
    BY <1>1, EncodedBytes
  <1>3. /\ b \in Seq(Byte) /\ Len(b) = Len(e) + more
        /\ \A i \in Int : 1 <= i /\ i <= Len(b) /\ i <= Len(e) => b[i] = e[i]
    BY <1>1, Zenon DEF Comes
  <1>4. Len(b) >= 26 + n
    BY <1>2, <1>3
  <1>5. SameUpTo(b, e, 26 + n)
    BY <1>2, <1>3, <1>4 DEF SameUpTo
  <1> QED
    BY <1>1, <1>3, <1>4, <1>5, DecodedIs, Zenon

(* The encoded packet without its last byte.                               *)
LEMMA ShortDoesNot ==
    ASSUME NEW p, WellFormed(p), NEW b, Comes(b, Encode(p), -1)
    PROVE  ~Decodes(b)
  <1>1. PICK e, n : e = Encode(p) /\ n = Len(p.data)
    OBVIOUS
  <1>2. Len(e) = 26 + n /\ n \in Int /\ 0 <= n
    BY <1>1, EncodedBytes
  <1>3. /\ b \in Seq(Byte) /\ Len(b) = Len(e) + -1
        /\ \A i \in Int : 1 <= i /\ i <= Len(b) /\ i <= Len(e) => b[i] = e[i]
    BY <1>1, Zenon DEF Comes
  <1>4. Len(b) = 25 + n
    BY <1>2, <1>3
  <1>5. SameUpTo(b, e, 25 + n)
    BY <1>2, <1>3, <1>4 DEF SameUpTo
  <1> QED
    BY <1>1, <1>3, <1>4, <1>5, ShortIsMalformed, Zenon

(* What comes out of the frame of an answer says what was meant, unless    *)
(* the framing cut the last byte off: then it is not decoded.              *)
LEMMA AnswerComesOut ==
    ASSUME TypeOK, NEW k \in DOMAIN stream.pieces, NEW places \in PacketPlaces(stream, k),
           NEW p, WellFormed(p), stream.pieces[k].bytes = Delivered(stream.adapter, Encode(p))
    PROVE  \/ Says(Bytes(places), p)
           \/ ~Decodes(Bytes(places)) /\ ~KeepsItsEnd(stream.adapter, Encode(p))
  <1>1. PICK e : e = Encode(p)
    OBVIOUS
  <1>2. e \in Seq(Int) /\ Len(e) >= 1
    BY <1>1, EncodedBytes
  <1>3. \/ Comes(Bytes(places), e, 0)
        \/ Comes(Bytes(places), e, 1) /\ stream.adapter = "line"
        \/ /\ Comes(Bytes(places), e, -1) /\ stream.adapter = "delimiter"
           /\ e[Len(e)] = Newline
    BY <1>1, <1>2, DeliveredIs, Zenon
  <1>4. 0 \in {0, 1} /\ 1 \in {0, 1}
    OBVIOUS
  <1> QED
    BY <1>1, <1>3, <1>4, WholeSays, ShortDoesNot, Zenon DEF KeepsItsEnd

(* What a response says that is decoded.                                   *)
LEMMA SaidIsMeant ==
    ASSUME NEW b, NEW p, Says(b, p)
    PROVE  /\ Decodes(b) => Means(Decode(b), p)
           /\ Decode(b).checksum
           /\ Decodes(b) <=> p.port \in ResponseType /\ p.cc \in CommandClass
  <1>1. Decodes(b) <=> p.port \in ResponseType /\ p.cc \in CommandClass
    BY Zenon DEF Says, Decodes
  <1>2. \A f \in Fields : Decode(b)[f] = p[f]
    <2>1. SUFFICES ASSUME NEW f \in Fields
                   PROVE  Decode(b)[f] = p[f]
      OBVIOUS
    <2>2. f \in {"dest", "src", "txn", "sub", "cc", "pid", "data"}
      BY <2>1 DEF Fields
    <2>3. QED
      BY <2>2, Zenon DEF Says
  <1> QED
    BY <1>1, <1>2, Zenon DEF Says, Means

(* A device reads the fields that the request was made of.                 *)
LEMMA RequestArrives ==
    ASSUME NEW adapter \in Adapter, NEW p, WellFormed(p)
    PROVE  Says(Arrives(adapter, p), p)
  <1>1. PICK e, l : e = Encode(p) /\ l = Len(e)
    OBVIOUS
  <1>2. e \in Seq(Byte) /\ e \in Seq(Int) /\ l \in Int /\ l >= 1
    BY <1>1, EncodedBytes
  <1>3. PICK d : d = Arrives(adapter, p)
    OBVIOUS
  <1>4. PICK f : f = FrameRequest(adapter, e, IsDiscovery(e))
    OBVIOUS
  <1>5. d = OnTheLine(adapter, f)
    BY <1>1, <1>3, <1>4 DEF Arrives
  <1> SUFFICES Comes(d, e, 0) \/ Comes(d, e, 1)
    <2>1. 0 \in {0, 1} /\ 1 \in {0, 1}
      OBVIOUS
    <2>2. QED
      BY <1>1, <1>3, <2>1, WholeSays, Zenon
  <1>6. CASE adapter = "enttec"
    <2>1. PICK label : label = IF IsDiscovery(e) THEN SEND_RDM_DISCOVERY ELSE SEND_RDM_PACKET
      OBVIOUS
    <2>2. f = EnttecMessage(label, e) /\ label \in Int
      BY <1>4, <1>6, <2>1 DEF FrameRequest, SEND_RDM_DISCOVERY, SEND_RDM_PACKET
    <2>3. /\ f \in Seq(Int) /\ Len(f) = l + 5
          /\ \A i \in Int : 1 <= i /\ i <= l => f[4 + i] = e[i]
      <3>1. /\ EnttecMessage(label, e) \in Seq(Int)
            /\ Len(EnttecMessage(label, e)) = Len(e) + 5
            /\ \A i \in Int : 1 <= i /\ i <= Len(e) => EnttecMessage(label, e)[4 + i] = e[i]
        BY <1>2, <2>2, EnttecIs, Zenon
      <3>2. QED
        BY <1>1, <2>2, <3>1, Zenon
    <2>4. d = SubSeq(f, 5, Len(f) - 1)
      BY <1>5, <1>6 DEF OnTheLine
    <2>5. d = e
      <3>1. Bounds(4, l, 5, Len(f) - 1, Len(f))
        BY <1>2, <2>3 DEF Bounds
      <3>2. Stands(f, 4, l, e)
        BY <2>3 DEF Stands
      <3>3. QED
        BY <1>1, <1>2, <2>3, <2>4, <3>1, <3>2, PartIs
    <2>6. QED
      BY <1>1, <1>2, <2>5 DEF Comes
  <1>7. CASE adapter = "length"
    <2>1. PICK u : u = <<l>> \o e
      OBVIOUS
    <2>2. f = u
      BY <1>1, <1>4, <1>7, <2>1 DEF FrameRequest
    <2>3. /\ u \in Seq(Int) /\ Len(u) = l + 1
          /\ \A i \in Int : 1 <= i /\ i <= l => u[1 + i] = e[i]
      <3>1. /\ <<l>> \o e \in Seq(Int) /\ Len(<<l>> \o e) = Len(e) + 1
            /\ \A i \in Int : 1 <= i /\ i <= Len(e) => (<<l>> \o e)[1 + i] = e[i]
        BY <1>2, PrefixedIs, Zenon
      <3>2. QED
        BY <1>1, <2>1, <3>1, Zenon
    <2>4. d = Tail(u)
      BY <1>5, <1>7, <2>2 DEF OnTheLine
    <2>5. u # <<>>
      BY <1>2, <2>3, EmptySeq
    <2>6. /\ Tail(u) \in Seq(Int) /\ Len(Tail(u)) = Len(u) - 1
          /\ \A i \in 1 .. Len(Tail(u)) : Tail(u)[i] = u[i + 1]
      BY <2>3, <2>5, HeadTailProperties
    <2>7. d \in Seq(Int) /\ Len(d) = l /\ \A i \in 1 .. Len(d) : d[i] = u[i + 1]
      BY <1>2, <2>3, <2>4, <2>6
    <2>8. ASSUME NEW i \in 1 .. Len(d)
          PROVE  d[i] = e[i]
      <3>1. i \in Int /\ 1 <= i /\ i <= l /\ i + 1 = 1 + i
        BY <1>2, <2>7
      <3>2. d[i] = u[1 + i]
        BY <2>7, <3>1
      <3>3. QED
        BY <2>3, <3>1, <3>2
    <2>9. d = e
      BY <1>1, <1>2, <2>7, <2>8, SeqEqual
    <2>10. QED
      BY <1>1, <1>2, <2>9 DEF Comes
  <1>8. CASE adapter \in {"bare", "raw"}
    <2>1. d = e
      BY <1>4, <1>5, <1>8 DEF OnTheLine, FrameRequest
    <2>2. QED
      BY <1>1, <1>2, <2>1 DEF Comes
  <1>9. CASE adapter \in {"line", "delimiter"}
    <2>1. d = Delimited(e)
      BY <1>4, <1>5, <1>9 DEF OnTheLine, FrameRequest
    <2>2. Newline \in Byte
      BY ByteIs DEF Newline
    <2>3. /\ SameUpTo(Delimited(e), e, Len(e))
          /\ e[Len(e)] = Newline => Len(Delimited(e)) = Len(e)
          /\ e[Len(e)] # Newline => Len(Delimited(e)) = Len(e) + 1
          /\ Delimited(e) \in Seq(Byte)
      BY <1>1, <1>2, <2>2, DelimitedIs
    <2>4. /\ d \in Seq(Byte)
          /\ Len(d) = Len(e) \/ Len(d) = Len(e) + 1
          /\ \A i \in Int : 1 <= i /\ i <= Len(e) => d[i] = e[i]
      BY <2>1, <2>3, Zenon DEF SameUpTo
    <2>5. Len(e) = Len(e) + 0
      BY <1>1, <1>2
    <2>6. QED
      BY <2>4, <2>5, Zenon DEF Comes
  <1> QED
    BY <1>6, <1>7, <1>8, <1>9 DEF Adapter

(* decode_rdm_response() of what encode_rdm_request()'s layout and the     *)
(* checksum make of an answer gives back every field of it.                *)
THEOREM PacketsRoundTrip ==
    \A p : WellFormed(p) /\ p.port \in ResponseType /\ p.cc \in CommandClass =>
        /\ Decodes(Encode(p)) /\ Decode(Encode(p)).checksum
        /\ Means(Decode(Encode(p)), p)
  <1> SUFFICES ASSUME NEW p, WellFormed(p), p.port \in ResponseType, p.cc \in CommandClass
               PROVE  /\ Decodes(Encode(p)) /\ Decode(Encode(p)).checksum
                      /\ Means(Decode(Encode(p)), p)
    OBVIOUS
  <1>1. PICK e : e = Encode(p)
    OBVIOUS
  <1>2. Comes(e, e, 0)
    BY <1>1, EncodedBytes DEF Comes
  <1>3. 0 \in {0, 1}
    OBVIOUS
  <1>4. Says(e, p)
    BY <1>1, <1>2, <1>3, WholeSays, Zenon
  <1> QED
    BY <1>1, <1>4, SaidIsMeant, Zenon

(* No change of a single byte of a packet passes both the checksum, which  *)
(* validate_response() looks at, and the length byte, which nobody does.   *)
THEOREM OneByteIsNoticed ==
    \A p, c : WellFormed(p) /\ OneByteChanged(Encode(p), c) =>
        ~(Decodes(c) /\ Decode(c).checksum /\ LengthAgrees(c))
  <1> SUFFICES ASSUME NEW p, NEW c, WellFormed(p), OneByteChanged(Encode(p), c)
               PROVE  ~(Decodes(c) /\ Decode(c).checksum /\ LengthAgrees(c))
    OBVIOUS
  <1>1. Encode(p) \in Seq(Byte)
    BY EncodedBytes
  <1>2. PICK n : n = Len(Encode(p))
    OBVIOUS
  <1>3. \E i : DifferAt(c, Encode(p), n, i)
    BY <1>1, <1>2, ChangedAt, Zenon
  <1>4. c \in Seq(Byte)
    BY <1>3, Zenon DEF DifferAt
  <1> QED
    BY <1>4, DamageShows, Zenon

-----------------------------------------------------------------------------
(* What the protocol makes of a packet, by the kind of its piece.          *)
LEMMA SentIs ==
    ASSUME TypeOK, NEW k \in DOMAIN stream.pieces
    PROVE  /\ stream.adapter \in Adapter
           /\ WellFormed(stream.request)
           /\ Sent(stream, stream.pieces[k])
  <1>1. wire \in DOMAIN Wires /\ stream = Wires[wire]
    BY DEF TypeOK, stream
  <1>2. stream.adapter \in Adapter
    BY StreamTypes
  <1> QED
    BY <1>1, <1>2, SendersAssumption, Zenon

(* What the pieces of each kind are.                                       *)
LEMMA OwnIs ==
    ASSUME TypeOK, NEW k \in DOMAIN stream.pieces, stream.pieces[k].kind = "own"
    PROVE  \E reply \in stream.pieces[k].meant :
              /\ Carries(stream, stream.pieces[k], reply)
              /\ IsAnswer(stream, reply)
              /\ stream.pieces[k].packet = Encode(reply)
  <1>1. PICK piece : piece = stream.pieces[k]
    OBVIOUS
  <1>2. Sent(stream, piece) /\ piece.kind = "own"
    BY <1>1, SentIs
  <1>3. \E reply \in piece.meant : /\ Carries(stream, piece, reply)
                                   /\ IsAnswer(stream, reply)
                                   /\ piece.packet = Encode(reply)
    BY <1>2 DEF Sent
  <1> QED
    BY <1>1, <1>3, Zenon

LEMMA ForeignIs ==
    ASSUME TypeOK, NEW k \in DOMAIN stream.pieces, stream.pieces[k].kind = "foreign"
    PROVE  \E reply \in stream.pieces[k].meant :
              /\ Carries(stream, stream.pieces[k], reply)
              /\ IsForeign(stream.request, reply)
              /\ stream.pieces[k].packet = Encode(reply)
  <1>1. PICK piece : piece = stream.pieces[k]
    OBVIOUS
  <1>2. Sent(stream, piece) /\ piece.kind = "foreign"
    BY <1>1, SentIs
  <1>3. \E reply \in piece.meant : /\ Carries(stream, piece, reply)
                                   /\ IsForeign(stream.request, reply)
                                   /\ piece.packet = Encode(reply)
    BY <1>2 DEF Sent
  <1> QED
    BY <1>1, <1>3, Zenon

LEMMA DamagedIs ==
    ASSUME TypeOK, NEW k \in DOMAIN stream.pieces, stream.pieces[k].kind = "damaged"
    PROVE  \E reply \in stream.pieces[k].meant :
              /\ Carries(stream, stream.pieces[k], reply)
              /\ OneByteChanged(Encode(reply), stream.pieces[k].packet)
  <1>1. PICK piece : piece = stream.pieces[k]
    OBVIOUS
  <1>2. Sent(stream, piece) /\ piece.kind = "damaged"
    BY <1>1, SentIs
  <1>3. \E reply \in piece.meant : /\ Carries(stream, piece, reply)
                                   /\ OneByteChanged(Encode(reply), piece.packet)
    BY <1>2 DEF Sent
  <1> QED
    BY <1>1, <1>3, Zenon

LEMMA BranchPieceIs ==
    ASSUME TypeOK, NEW k \in DOMAIN stream.pieces, stream.pieces[k].kind = "branch"
    PROVE  \E uid \in Uid, n \in 1 .. MAX_PREAMBLE_BYTES :
              /\ stream.pieces[k].meant = {uid}
              /\ stream.pieces[k].bytes = Delivered(stream.adapter, Branch(uid, n))
  <1>1. PICK piece : piece = stream.pieces[k]
    OBVIOUS
  <1>2. Sent(stream, piece) /\ piece.kind = "branch"
    BY <1>1, SentIs
  <1>3. \E uid \in Uid, n \in 1 .. MAX_PREAMBLE_BYTES :
              /\ piece.meant = {uid}
              /\ piece.packet = Branch(uid, n)
              /\ piece.bytes = Delivered(stream.adapter, piece.packet)
    BY <1>2 DEF Sent
  <1> QED
    BY <1>1, <1>3, Zenon

LEMMA OtherIs ==
    ASSUME TypeOK, NEW k \in DOMAIN stream.pieces, stream.pieces[k].kind = "other",
           NEW u, u = stream.pieces[k].bytes, Parses(stream.adapter, u, Len(u))
    PROVE  ~Correlated(SubSeq(u, Payload(stream.adapter, Len(u))[1],
                                 Payload(stream.adapter, Len(u))[2]))
  <1>1. PICK piece : piece = stream.pieces[k]
    OBVIOUS
  <1>2. Sent(stream, piece) /\ piece.kind = "other" /\ u = piece.bytes
    BY <1>1, SentIs
  <1> QED
    BY <1>2 DEF Sent

(* The answer of the device that was asked.                                *)
LEMMA OwnUnderstood ==
    ASSUME TypeOK, NEW k \in DOMAIN stream.pieces, NEW places \in PacketPlaces(stream, k),
           stream.pieces[k].kind = "own", Sends(stream.adapter, stream.request),
           KeepsItsEnd(stream.adapter, stream.pieces[k].packet)
    PROVE  /\ Taken(stream.request, Bytes(places)) /\ ~Warned(stream.request, Bytes(places))
           /\ Decode(Bytes(places)).checksum
           /\ \A reply \in stream.pieces[k].meant : Means(Decode(Bytes(places)), reply)
  <1>1. PICK reply : /\ Carries(stream, stream.pieces[k], reply)
                     /\ IsAnswer(stream, reply)
                     /\ stream.pieces[k].packet = Encode(reply)
    BY OwnIs
  <1>2. /\ stream.pieces[k].meant = {reply} /\ WellFormed(reply)
        /\ stream.pieces[k].bytes = Delivered(stream.adapter, Encode(reply))
        /\ KeepsItsEnd(stream.adapter, Encode(reply))
    BY <1>1, Zenon DEF Carries
  <1>3. PICK b, r, q, d : b = Bytes(places) /\ r = Decode(b) /\ q = stream.request
                          /\ d = Arrives(stream.adapter, stream.request)
    OBVIOUS
  <1>4. Says(b, reply)
    BY <1>2, <1>3, AnswerComesOut, Zenon
  <1>5. /\ Decode(b).checksum
        /\ Decodes(b) => Means(Decode(b), reply)
        /\ Decodes(b) <=> reply.port \in ResponseType /\ reply.cc \in CommandClass
    BY <1>4, SaidIsMeant
  <1>6. WellFormed(q) /\ stream.adapter \in Adapter
    BY <1>3, SentIs
  <1>7. Says(d, q)
    BY <1>3, <1>6, RequestArrives
  <1>8. /\ reply.port \in ResponseType
        /\ reply = Reply(d, reply.port, reply.data)
    BY <1>1, <1>3, Zenon DEF IsAnswer
  <1>9. /\ reply.dest = SubSeq(d, 10, 15) /\ reply.src = SubSeq(d, 4, 9) /\ reply.txn = d[16]
        /\ reply.sub = Word(d[19], d[20]) /\ reply.cc = ResponseClass(d[21])
        /\ reply.pid = Word(d[22], d[23])
    BY <1>8 DEF Reply
  <1>10. /\ Decode(d).src = SubSeq(d, 10, 15) /\ Decode(d).dest = SubSeq(d, 4, 9)
         /\ Decode(d).txn = d[16] /\ Decode(d).sub = Word(d[19], d[20])
         /\ Decode(d).cc = d[21] /\ Decode(d).pid = Word(d[22], d[23])
    BY Zenon DEF Decode
  <1>11. /\ reply.dest = q.src /\ reply.src = q.dest /\ reply.txn = q.txn
         /\ reply.sub = q.sub /\ reply.cc = ResponseClass(q.cc) /\ reply.pid = q.pid
    BY <1>7, <1>9, <1>10, Zenon DEF Says
  <1>12. /\ ValidUid(q.dest) /\ ValidUid(q.src) /\ ValidSubDevice(q.sub)
         /\ q.cc \in {GET_COMMAND, SET_COMMAND, DISCOVERY_COMMAND}
    BY <1>3, Zenon DEF Sends, ValidRequest
  <1>13. Decodes(b)
    <2>1. reply.cc \in CommandClass
      BY <1>11, <1>12 DEF CommandClass
    <2>2. QED
      BY <1>5, <1>8, <2>1, Zenon
  <1>14. /\ r.dest = reply.dest /\ r.src = reply.src /\ r.txn = reply.txn
         /\ r.type = reply.port /\ r.count = 0 /\ r.sub = reply.sub
         /\ r.cc = reply.cc /\ r.pid = reply.pid /\ r.data = reply.data
    BY <1>3, <1>4, Zenon DEF Says
  <1>15. Matches(q, r)
    BY <1>11, <1>14, Zenon DEF Matches
  <1>16. Len(reply.data) <= MAX_PDL
    BY <1>2, Zenon DEF WellFormed
  <1>17. ValidResponse(r, FALSE)
    <2>1. r.count <= 255
      BY <1>14
    <2>2. QED
      BY <1>8, <1>11, <1>12, <1>14, <1>16, <2>1, Zenon DEF ValidResponse
  <1>18. Routed(b) = "response"
    <2>1. b[1] = RDM
      BY <1>13 DEF Decodes, Ignored
    <2>2. QED
      BY <2>1 DEF Routed, RDM, RDM_DISCOVERY
  <1>19. Correlated(b)
    BY <1>3, <1>13, <1>17, <1>18, Zenon DEF Correlated
  <1>20. Taken(q, b) /\ ~Warned(q, b)
    BY <1>3, <1>11, <1>14, <1>15, <1>19, Zenon DEF Taken, Warned
  <1> QED
    BY <1>2, <1>3, <1>5, <1>13, <1>20, Zenon

(* Any other answer.                                                       *)
LEMMA ForeignIsNot ==
    ASSUME TypeOK, NEW k \in DOMAIN stream.pieces, NEW places \in PacketPlaces(stream, k),
           stream.pieces[k].kind = "foreign", Taken(stream.request, Bytes(places))
    PROVE  /\ Warned(stream.request, Bytes(places))
           /\ \A reply \in stream.pieces[k].meant : reply.txn = stream.request.txn
  <1>1. PICK reply : /\ Carries(stream, stream.pieces[k], reply)
                     /\ IsForeign(stream.request, reply)
                     /\ stream.pieces[k].packet = Encode(reply)
    BY ForeignIs
  <1>2. /\ WellFormed(reply) /\ stream.pieces[k].meant = {reply}
        /\ stream.pieces[k].bytes = Delivered(stream.adapter, Encode(reply))
    BY <1>1, Zenon DEF Carries
  <1>3. PICK b : b = Bytes(places)
    OBVIOUS
  <1>4. Says(b, reply) \/ ~Decodes(b)
    BY <1>2, <1>3, AnswerComesOut, Zenon
  <1>5. Says(b, reply)
    BY <1>3, <1>4, Zenon DEF Taken, Correlated
  <1>6. Warned(stream.request, b)
    BY <1>1, <1>3, <1>5, Zenon DEF Says, Warned, Matches, IsForeign
  <1>7. reply.txn = stream.request.txn
    BY <1>3, <1>5, Zenon DEF Says, Taken
  <1> QED
    BY <1>2, <1>3, <1>6, <1>7, Zenon

(* A discovery answer is routed to discovery, and gives its UID.           *)
LEMMA BranchUnderstood ==
    ASSUME TypeOK, NEW k \in DOMAIN stream.pieces, NEW places \in PacketPlaces(stream, k),
           stream.pieces[k].kind = "branch"
    PROVE  /\ Routed(Bytes(places)) = "discovery"
           /\ stream.adapter # "line" =>
                 /\ DecodesUid(Bytes(places))
                 /\ stream.pieces[k].meant = {DecodeUid(Bytes(places))}
  <1>1. PICK uid \in Uid, n \in 1 .. MAX_PREAMBLE_BYTES :
              /\ stream.pieces[k].meant = {uid}
              /\ stream.pieces[k].bytes = Delivered(stream.adapter, Branch(uid, n))
    BY BranchPieceIs
  <1>2. PICK x, b : x = Branch(uid, n) /\ b = Bytes(places)
    OBVIOUS
  <1>3. AnswerLaid(x, uid, n)
    BY <1>2, BranchIs
  <1>4. n \in Int /\ 1 <= n
    BY DEF MAX_PREAMBLE_BYTES
  <1>5. x \in Seq(Int) /\ Len(x) = n + 17 /\ x[n + 17] # Newline
    BY <1>3, Zenon DEF AnswerLaid
  <1>6. x[1] = RDM_DISCOVERY
    BY <1>3, <1>4 DEF AnswerLaid
  <1>7. Len(x) >= 1
    BY <1>4, <1>5
  <1>8. Comes(b, x, 0) \/ (Comes(b, x, 1) /\ stream.adapter = "line")
    <2>1. \/ Comes(b, x, 0)
          \/ Comes(b, x, 1) /\ stream.adapter = "line"
          \/ Comes(b, x, -1) /\ x[Len(x)] = Newline
      BY <1>1, <1>2, <1>5, <1>7, DeliveredIs, Zenon
    <2>2. x[Len(x)] # Newline
      BY <1>5, Zenon
    <2>3. QED
      BY <2>1, <2>2, Zenon
  <1>9. Routed(b) = "discovery"
    <2>1. b \in Seq(Byte) /\ Len(b) >= n + 17
      BY <1>4, <1>5, <1>8 DEF Comes
    <2>2. b[1] = RDM_DISCOVERY
      BY <1>4, <1>5, <1>6, <1>8, <2>1 DEF Comes
    <2>3. b # <<>>
      BY <1>4, <2>1
    <2>4. QED
      BY <2>2, <2>3 DEF Routed
  <1>10. ASSUME stream.adapter # "line"
         PROVE  DecodesUid(b) /\ DecodeUid(b) = uid
    <2>1. Comes(b, x, 0)
      BY <1>8, <1>10
    <2>2. b \in Seq(Byte) /\ Len(b) = n + 17 /\ SameUpTo(b, x, n + 17)
      BY <1>4, <1>5, <2>1 DEF Comes, SameUpTo
    <2>3. QED
      BY <1>2, <2>2, BranchDecodes
  <1> QED
    BY <1>1, <1>2, <1>9, <1>10, Zenon

(* Whatever the adapter, the request, the answer, its data and the bytes   *)
(* around it: a packet that comes out whole of the frame of an answer      *)
(* is taken for the answer to the request, without a warning, if the       *)
(* device that was asked sent it, and then says what the device meant,     *)
(* with a right checksum; if another one sent it, it is taken only with a  *)
(* warning in the log; and a discovery answer gives its UID.               *)
THEOREM AnswersUnderstood == Spec => []AnswersAreUnderstood
  <1>1. TypeOK => AnswersAreUnderstood
    <2> SUFFICES ASSUME TypeOK, NEW k \in DOMAIN stream.pieces,
                        NEW places \in PacketPlaces(stream, k) \cap Extracted
                 PROVE  LET piece == stream.pieces[k]
                            b == Bytes(places)
                        IN  /\ /\ piece.kind = "own"
                               /\ Sends(stream.adapter, stream.request)
                               /\ KeepsItsEnd(stream.adapter, piece.packet)
                               => /\ Taken(stream.request, b) /\ ~Warned(stream.request, b)
                                  /\ Decode(b).checksum
                                  /\ \A reply \in piece.meant : Means(Decode(b), reply)
                            /\ piece.kind = "foreign" /\ Taken(stream.request, b) =>
                                  /\ Warned(stream.request, b)
                                  /\ \A reply \in piece.meant :
                                        reply.txn = stream.request.txn
                            /\ piece.kind = "branch" =>
                                  /\ Routed(b) = "discovery"
                                  /\ stream.adapter # "line" =>
                                        DecodesUid(b) /\ piece.meant = {DecodeUid(b)}
      BY DEF AnswersAreUnderstood
    <2>1. places \in PacketPlaces(stream, k)
      OBVIOUS
    <2> QED
      BY <2>1, OwnUnderstood, ForeignIsNot, BranchUnderstood, Zenon
  <1> QED
    BY <1>1, ReceiveTypes, PTL

(* The packet in a frame is the part of it that the adapter takes.         *)
LEMMA PartComesOut ==
    ASSUME TypeOK, NEW k \in DOMAIN stream.pieces, NEW places \in PacketPlaces(stream, k),
           NEW u, u = stream.pieces[k].bytes, Len(u) >= 5
    PROVE  /\ Parses(stream.adapter, u, Len(u))
           /\ Bytes(places) = SubSeq(u, Payload(stream.adapter, Len(u))[1],
                                        Payload(stream.adapter, Len(u))[2])
  <1>1. Parses(stream.adapter, u, Len(u))
    BY DEF PacketPlaces
  <1>2. PICK b, m, n : /\ b = Bytes(places)
                       /\ m = Payload(stream.adapter, Len(u))[1]
                       /\ n = Payload(stream.adapter, Len(u))[2]
    OBVIOUS
  <1>3. u \in Seq(Byte) /\ Len(u) \in Int
    BY PieceFacts DEF FrameSize
  <1>4. m \in Int /\ n \in Int /\ 1 <= m /\ m <= n + 1 /\ n <= Len(u)
    <2>1. \/ m = 6 /\ n = Len(u) - 1 /\ Len(u) >= 7
          \/ m = 2 /\ n = Len(u)
          \/ m = 1 /\ n = Len(u) - 1
          \/ m = 1 /\ n = Len(u)
      <3>1. stream.adapter \in Adapter
        BY StreamTypes
      <3>2. QED
        BY <1>1, <1>2, <3>1 DEF Payload, Parses, Adapter
    <2>2. QED
      BY <1>3, <2>1
  <1>5. PartOf(b, u, m, n)
    BY <1>2, <1>4, PacketIs
  <1>6. /\ b \in Seq(Byte) /\ Len(b) = n - m + 1
        /\ \A i \in Int : 1 <= i /\ i <= n - m + 1 => b[i] = u[(m - 1) + i]
    BY <1>5, Zenon DEF PartOf
  <1>7. Bounds(m - 1, n - m + 1, m, n, Len(u))
    BY <1>3, <1>4 DEF Bounds
  <1>8. Stands(u, m - 1, n - m + 1, b)
    BY <1>6 DEF Stands
  <1>9. IsPart(u, m - 1, n - m + 1, m, n, b)
    BY <1>3, <1>6, <1>7, <1>8, Zenon DEF IsPart
  <1>10. SubSeq(u, m, n) = b
    BY <1>9, PartFound, Zenon
  <1> QED
    BY <1>1, <1>2, <1>10

(* A response with a right checksum and a right length says what was sent, *)
(* whatever the kind of its frame.                                         *)
LEMMA OfferedIsMeant ==
    ASSUME TypeOK, wire \in CleanWires, NEW k \in Frames,
           NEW places \in PacketPlaces(stream, k),
           Correlated(Bytes(places)), Decode(Bytes(places)).checksum,
           LengthAgrees(Bytes(places))
    PROVE  /\ stream.pieces[k].kind # "branch"
           /\ \E reply \in stream.pieces[k].meant : Means(Decode(Bytes(places)), reply)
  <1>1. PICK piece, b : piece = stream.pieces[k] /\ b = Bytes(places)
    OBVIOUS
  <1>2. k \in DOMAIN stream.pieces /\ piece.kind # "noise" /\ FrameSize(k) >= 5
    BY <1>1, FrameFacts DEF Frames, IsFrame
  <1>3. Correlated(b) /\ Decode(b).checksum /\ LengthAgrees(b)
    BY <1>1, Zenon
  <1>4. Decodes(b) /\ Routed(b) = "response"
    BY <1>3, Zenon DEF Correlated
  <1>5. piece.kind \in {"own", "foreign", "damaged", "branch", "other"}
    <2>1. Sent(stream, piece)
      BY <1>1, <1>2, SentIs
    <2>2. QED
      BY <1>2, <2>1 DEF Sent
  <1>6. CASE piece.kind \in {"own", "foreign"}
    <2>1. PICK reply : /\ reply \in piece.meant
                       /\ Carries(stream, piece, reply)
                       /\ piece.packet = Encode(reply)
      BY <1>1, <1>2, <1>6, OwnIs, ForeignIs
    <2>2. /\ WellFormed(reply)
          /\ stream.pieces[k].bytes = Delivered(stream.adapter, Encode(reply))
      BY <1>1, <2>1, Zenon DEF Carries
    <2>3. Says(b, reply)
      BY <1>1, <1>2, <1>4, <2>2, AnswerComesOut, Zenon
    <2>4. Means(Decode(b), reply)
      BY <1>4, <2>3, SaidIsMeant
    <2>5. QED
      BY <1>1, <1>6, <2>1, <2>4
  <1>7. CASE piece.kind = "damaged"
    <2>1. PICK reply : /\ Carries(stream, piece, reply)
                       /\ OneByteChanged(Encode(reply), piece.packet)
      BY <1>1, <1>2, <1>7, DamagedIs
    <2>2. PICK c : c = piece.packet
      OBVIOUS
    <2>3. /\ WellFormed(reply) /\ stream.pieces[k].bytes = Delivered(stream.adapter, c)
          /\ OneByteChanged(Encode(reply), c)
      BY <1>1, <2>1, <2>2, Zenon DEF Carries
    <2>4. c \in Seq(Byte) /\ Len(c) >= 1
      <3>1. /\ Encode(reply) \in Seq(Byte) /\ Len(Encode(reply)) >= 1
        BY <2>3, EncodedBytes
      <3>2. PICK n : n = Len(Encode(reply))
        OBVIOUS
      <3>3. \E i : DifferAt(c, Encode(reply), n, i)
        BY <2>3, <3>1, <3>2, ChangedAt, Zenon
      <3>4. QED
        BY <3>1, <3>2, <3>3 DEF DifferAt
    <2>5. c \in Seq(Int)
      <3>1. Byte \subseteq Int
        BY DEF Byte
      <3>2. QED
        BY <2>4, <3>1, SeqMonotonic
    <2>6. Comes(b, c, 0) \/ Comes(b, c, 1) \/ Comes(b, c, -1)
      BY <1>1, <1>2, <2>3, <2>4, <2>5, DeliveredIs, Zenon
    <2>7. b \in Seq(Byte) /\ \A j \in Int : 1 <= j /\ j <= Len(b) /\ j <= Len(c) => b[j] = c[j]
      BY <2>6, Zenon DEF Comes
    <2>8. ~(Decodes(b) /\ Decode(b).checksum /\ LengthAgrees(b))
      BY <2>3, <2>7, DamageShows, Zenon
    <2>9. QED
      BY <1>3, <1>4, <2>8, Zenon
  <1>8. CASE piece.kind = "branch"
    <2>1. Routed(b) = "discovery"
      BY <1>1, <1>2, <1>8, BranchUnderstood, Zenon
    <2>2. QED
      BY <1>4, <2>1
  <1>9. CASE piece.kind = "other"
    <2>1. PICK u : u = piece.bytes
      OBVIOUS
    <2>2. Len(u) >= 5
      BY <1>1, <1>2, <2>1 DEF FrameSize
    <2>3. /\ Parses(stream.adapter, u, Len(u))
          /\ b = SubSeq(u, Payload(stream.adapter, Len(u))[1], Payload(stream.adapter, Len(u))[2])
      BY <1>1, <1>2, <2>1, <2>2, PartComesOut, Zenon
    <2>4. ~Correlated(b)
      BY <1>1, <1>2, <1>9, <2>1, <2>3, OtherIs, Zenon
    <2>5. QED
      BY <1>3, <2>4, Zenon
  <1> QED
    BY <1>5, <1>6, <1>7, <1>8, <1>9

(* In a stream without look-alikes, and while the connection lasts, a      *)
(* response with a right checksum, and a length byte that agrees with its  *)
(* data, says what a device has sent, whichever byte of which answer the   *)
(* line has changed, and whatever it is changed to.                        *)
THEOREM DamageSeen == Spec => [](Undisturbed => DamageIsSeen)
  <1>1. TypeOK /\ WholeFramesComeOut => (Undisturbed => DamageIsSeen)
    <2> SUFFICES ASSUME TypeOK, WholeFramesComeOut, Undisturbed, NEW places \in Extracted,
                        Correlated(Bytes(places)), Decode(Bytes(places)).checksum,
                        LengthAgrees(Bytes(places))
                 PROVE  \E k \in DOMAIN stream.pieces :
                           /\ stream.pieces[k].kind # "branch"
                           /\ \E reply \in stream.pieces[k].meant :
                                 Means(Decode(Bytes(places)), reply)
      BY DEF DamageIsSeen
    <2>1. PICK k \in DOMAIN stream.pieces :
                  IsFrame(stream, k) /\ places \in PacketPlaces(stream, k)
      BY DEF WholeFramesComeOut
    <2>2. k \in Frames /\ wire \in CleanWires
      BY <2>1 DEF Frames, Undisturbed
    <2>3. QED
      BY <2>1, <2>2, OfferedIsMeant, Zenon
  <1> QED
    BY <1>1, ReceiveTypes, FramesComeOut, PTL

=============================================================================
