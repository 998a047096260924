--------------------------- MODULE DiscoveryProofs ---------------------------
(***************************************************************************)
(* Theorems about the number pool and its users, for every size of the     *)
(* pool and any set of transactions; and about the user that never gives a *)
(* number back, full network discovery, for every address space and every  *)
(* set of devices.                                                         *)
(***************************************************************************)
EXTENDS Discovery, AllocatorClients, SequenceTheorems, TLAPS

-----------------------------------------------------------------------------
(* The pool of numbers and its users.                                      *)

(* allocate() always leaves the pointer in range.                          *)
LEMMA SuccessorInRange ==
    ASSUME NEW n \in Numbers
    PROVE  Successor(n) \in Numbers
  BY MaxTxnAssumption DEF Numbers, Successor

(* The steps around the range are counted from 0.                          *)
LEMMA StepsInRange ==
    ASSUME NEW m \in Numbers, NEW n \in Numbers
    PROVE  Steps(m, n) \in 0 .. MaxTxn - 1
  BY MaxTxnAssumption DEF Numbers, Steps

-----------------------------------------------------------------------------
(* Type correctness: the pointer stays between 1 and RDM_TXN_MAX and only  *)
(* numbers of that range are ever issued.                                  *)
THEOREM PoolTypes == PoolSpec => []PoolTypeOK
  <1>1. PoolInit => PoolTypeOK
    BY DEF PoolInit, PoolTypeOK, AllocatorInit, AllocatorTypeOK
  <1>2. PoolTypeOK /\ [PoolNext]_poolVars => PoolTypeOK'
    <2> SUFFICES ASSUME PoolTypeOK, [PoolNext]_poolVars
                 PROVE  PoolTypeOK'
      OBVIOUS
    <2> USE DEF PoolTypeOK, AllocatorTypeOK, Witness
    <2>1. ASSUME NEW t \in Transaction, TransactionAllocate(t)
          PROVE  PoolTypeOK'
      BY <2>1, SuccessorInRange
         DEF TransactionAllocate, Allocate, IsCandidate, Holders
    <2>2. ASSUME NEW t \in Transaction, TransactionEnds(t)
          PROVE  PoolTypeOK'
      BY <2>2 DEF TransactionEnds, ReleaseAll, Holders
    <2>3. ASSUME NEW t \in Transaction, TransactionReleases(t)
          PROVE  PoolTypeOK'
      BY <2>3 DEF TransactionReleases, Release, Holders
    <2>4. ASSUME DiscoveryCommand
          PROVE  PoolTypeOK'
      BY <2>4, SuccessorInRange
         DEF DiscoveryCommand, Allocate, IsCandidate, Holders
    <2>5. CASE UNCHANGED poolVars
      BY <2>5 DEF poolVars
    <2>6. QED
      BY <2>1, <2>2, <2>3, <2>4, <2>5 DEF PoolNext
  <1>3. QED
    BY <1>1, <1>2, PTL DEF PoolSpec

-----------------------------------------------------------------------------
(* What a step may do to ownership: one holder takes one number nobody     *)
(* holds, or gives back numbers it holds, and in_use follows.              *)
TakeStep(h, n) ==
    /\ n \notin in_use
    /\ in_use' = in_use \union {n}
    /\ held' = [held EXCEPT ![h] = @ \union {n}]

ReturnStep(h, numbers) ==
    /\ numbers \subseteq held[h]
    /\ in_use' = in_use \ numbers
    /\ held' = [held EXCEPT ![h] = @ \ numbers]

(* Every step is one of the two, or leaves ownership alone.                 *)
LEMMA PoolStepOwnership ==
    ASSUME PoolTypeOK, [PoolNext]_poolVars
    PROVE  \/ \E h \in Holders, n \in Numbers : TakeStep(h, n)
           \/ \E h \in Holders, numbers \in SUBSET Numbers : ReturnStep(h, numbers)
           \/ UNCHANGED <<in_use, held>>
  <1> USE DEF PoolTypeOK, Holders
  <1>1. ASSUME NEW t \in Transaction, TransactionAllocate(t)
        PROVE  \E h \in Holders, n \in Numbers : TakeStep(h, n)
    BY <1>1 DEF TransactionAllocate, Allocate, IsCandidate, TakeStep
  <1>2. ASSUME NEW t \in Transaction, TransactionEnds(t)
        PROVE  \E h \in Holders, numbers \in SUBSET Numbers : ReturnStep(h, numbers)
    <2>1. ReturnStep(t, held[t])
      BY <1>2 DEF TransactionEnds, ReleaseAll, ReturnStep
    <2>2. QED
      BY <2>1
  <1>3. ASSUME NEW t \in Transaction, TransactionReleases(t)
        PROVE  \E h \in Holders, numbers \in SUBSET Numbers : ReturnStep(h, numbers)
    <2>1. PICK n \in held[t] : Release(n) /\ held' = [held EXCEPT ![t] = @ \ {n}]
      BY <1>3 DEF TransactionReleases
    <2>2. ReturnStep(t, {n}) /\ {n} \in SUBSET Numbers
      BY <2>1 DEF Release, ReturnStep
    <2>3. QED
      BY <2>2
  <1>4. ASSUME DiscoveryCommand
        PROVE  \E h \in Holders, n \in Numbers : TakeStep(h, n)
    BY <1>4 DEF DiscoveryCommand, Allocate, IsCandidate, TakeStep
  <1>5. CASE UNCHANGED poolVars
    BY <1>5 DEF poolVars
  <1>6. QED
    BY <1>1, <1>2, <1>3, <1>4, <1>5 DEF PoolNext

(* No number is held twice and in_use is exactly what is held.             *)
THEOREM OwnershipIsExclusive == PoolSpec => []ExclusiveOwnership
  <1>1. PoolInit => ExclusiveOwnership
    BY DEF PoolInit, AllocatorInit, ExclusiveOwnership
  <1>2. PoolTypeOK /\ ExclusiveOwnership /\ [PoolNext]_poolVars => ExclusiveOwnership'
    <2> SUFFICES ASSUME PoolTypeOK, ExclusiveOwnership, [PoolNext]_poolVars
                 PROVE  ExclusiveOwnership'
      OBVIOUS
    <2> USE DEF ExclusiveOwnership, PoolTypeOK
    <2>1. ASSUME NEW h \in Holders, NEW n \in Numbers, TakeStep(h, n)
          PROVE  ExclusiveOwnership'
      BY <2>1 DEF TakeStep
    <2>2. ASSUME NEW h \in Holders, NEW numbers \in SUBSET Numbers, ReturnStep(h, numbers)
          PROVE  ExclusiveOwnership'
      BY <2>2 DEF ReturnStep
    <2>3. CASE UNCHANGED <<in_use, held>>
      BY <2>3
    <2>4. QED
      BY <2>1, <2>2, <2>3, PoolStepOwnership
  <1>3. QED
    BY <1>1, <1>2, PoolTypes, PTL DEF PoolSpec

(* Every step of the pool and its users is a step of the abstract lease or *)
(* leaves it alone: the pool implements the promise.                       *)
THEOREM ImplementsLease == PoolSpec => LeasePromise
  <1>1. PoolInit => Lease!LeaseInit
    BY DEF PoolInit, Lease!LeaseInit
  <1>2. PoolTypeOK /\ ExclusiveOwnership /\ [PoolNext]_poolVars => [Lease!LeaseNext]_held
    <2> SUFFICES ASSUME PoolTypeOK, ExclusiveOwnership, [PoolNext]_poolVars
                 PROVE  [Lease!LeaseNext]_held
      OBVIOUS
    <2>1. ASSUME NEW h \in Holders, NEW n \in Numbers, TakeStep(h, n)
          PROVE  Lease!LeaseNext
      <3>1. Lease!Take(h, n)
        BY <2>1 DEF TakeStep, ExclusiveOwnership, Lease!Take
      <3>2. QED
        BY <3>1 DEF Lease!LeaseNext
    <2>2. ASSUME NEW h \in Holders, NEW numbers \in SUBSET Numbers, ReturnStep(h, numbers)
          PROVE  Lease!LeaseNext
      <3>1. Lease!Return(h, numbers)
        BY <2>2 DEF ReturnStep, Lease!Return
      <3>2. QED
        BY <3>1 DEF Lease!LeaseNext
    <2>3. QED
      BY <2>1, <2>2, PoolStepOwnership
  <1>3. QED
    BY <1>1, <1>2, PoolTypes, OwnershipIsExclusive, PTL DEF PoolSpec, LeasePromise, Lease!LeaseSpec

-----------------------------------------------------------------------------
(* The distance between two uses of one number.  FarthestReuse speaks of   *)
(* the whole past, so it needs an invariant about the history variable:    *)
(* every number between n and the pointer, in the order the pointer moves, *)
(* has been in use since n was issued.                                     *)
Behind(n, m) == Steps(Successor(n), m) < Steps(Successor(n), next_number)

SeenInv ==
    \A n \in Numbers :
        /\ in_use \subseteq seen[n]
        /\ \A m \in Numbers \ {n} : Behind(n, m) => m \in seen[n]

(* The pointer passes only numbers in use before it reaches the candidate. *)
LEMMA PassedAreInUse ==
    ASSUME PoolTypeOK, NEW n \in Numbers, IsCandidate(n), NEW m \in Numbers,
           Steps(next_number, m) < Steps(next_number, n)
    PROVE  m \in in_use
  BY StepsInRange DEF IsCandidate, PoolTypeOK, AllocatorTypeOK, Numbers

(* A number is the pointer's way from the candidate k on, or behind it, or *)
(* is passed in this very step: arithmetic on the circle of numbers.       *)
LEMMA BehindAfterAllocate ==
    ASSUME NEW p \in Numbers, NEW n \in Numbers, NEW k \in Numbers, NEW m \in Numbers,
           m # n, m # k, n # k,
           Steps(Successor(n), m) < Steps(Successor(n), Successor(k))
    PROVE  \/ Steps(Successor(n), m) < Steps(Successor(n), p)
           \/ Steps(p, m) < Steps(p, k)
  BY MaxTxnAssumption DEF Numbers, Steps, Successor

(* Every number but k itself lies behind k or is passed on the way to it.  *)
LEMMA CandidateIsLast ==
    ASSUME NEW p \in Numbers, NEW k \in Numbers, NEW m \in Numbers, m # k
    PROVE  \/ Steps(Successor(k), m) < Steps(Successor(k), p)
           \/ Steps(p, m) < Steps(p, k)
  BY MaxTxnAssumption DEF Numbers, Steps, Successor

(* Just issued, a number has nothing behind it.                            *)
LEMMA NothingBehind ==
    ASSUME NEW k \in Numbers, NEW m \in Numbers
    PROVE  ~(Steps(Successor(k), m) < Steps(Successor(k), Successor(k)))
  BY MaxTxnAssumption DEF Numbers, Steps, Successor

(* Issuing a number keeps the history invariant.                           *)
LEMMA AllocateSeen ==
    ASSUME PoolTypeOK, SeenInv, NEW k \in Numbers, Allocate(k), Witness({k})
    PROVE  SeenInv' /\ Numbers \ {k} \subseteq seen[k]
  <1> USE DEF PoolTypeOK, AllocatorTypeOK
  <1>1. Numbers \ {k} \subseteq seen[k]
    <2> SUFFICES ASSUME NEW m \in Numbers, m # k
                 PROVE  m \in seen[k]
      OBVIOUS
    <2>1. CASE Behind(k, m)
      BY <2>1 DEF SeenInv
    <2>2. CASE Steps(next_number, m) < Steps(next_number, k)
      <3>1. m \in in_use
        BY <2>2, PassedAreInUse DEF Allocate
      <3>2. QED
        BY <3>1 DEF SeenInv
    <2>3. QED
      BY <2>1, <2>2, CandidateIsLast DEF Behind
  <1>2. ASSUME NEW n \in Numbers
        PROVE  in_use' \subseteq seen'[n]
    BY DEF Witness
  <1>3. ASSUME NEW n \in Numbers, NEW m \in Numbers \ {n}, Behind(n, m)'
        PROVE  m \in seen'[n]
    <2>1. Steps(Successor(n), m) < Steps(Successor(n), Successor(k))
      BY <1>3 DEF Behind, Allocate, Steps, Successor
    <2>2. n # k
      BY <2>1, NothingBehind
    <2>3. seen'[n] = seen[n] \union in_use'
      BY <2>2 DEF Witness
    <2>4. CASE m = k
      BY <2>3, <2>4 DEF Allocate
    <2>5. CASE m # k /\ Behind(n, m)
      BY <2>3, <2>5 DEF SeenInv
    <2>6. CASE m # k /\ Steps(next_number, m) < Steps(next_number, k)
      <3>1. m \in in_use
        BY <2>6, PassedAreInUse DEF Allocate
      <3>2. QED
        BY <2>3, <3>1 DEF Allocate
    <2>7. QED
      BY <2>1, <2>2, <2>4, <2>5, <2>6, BehindAfterAllocate DEF Behind
  <1>4. QED
    BY <1>1, <1>2, <1>3 DEF SeenInv

(* Giving numbers back keeps the history invariant.                        *)
LEMMA ReleaseSeen ==
    ASSUME PoolTypeOK, SeenInv, in_use' \subseteq in_use, UNCHANGED next_number, Witness({})
    PROVE  SeenInv'
  <1>1. \A n \in Numbers : seen'[n] = seen[n] \union in_use'
    BY DEF Witness
  <1>2. \A n, m \in Numbers : Behind(n, m)' <=> Behind(n, m)
    BY DEF Behind, Steps, Successor
  <1>3. QED
    BY <1>1, <1>2 DEF SeenInv

(* One step of the pool and its users, as far as the history is concerned. *)
LEMMA PoolStepSeen ==
    ASSUME PoolTypeOK, SeenInv, [PoolNext]_poolVars
    PROVE  /\ SeenInv'
           /\ \A n \in Numbers : n \in in_use' \ in_use => Numbers \ {n} \subseteq seen[n]
  <1> DEFINE Goal == /\ SeenInv'
                     /\ \A n \in Numbers : n \in in_use' \ in_use =>
                                             Numbers \ {n} \subseteq seen[n]
  <1>1. ASSUME NEW k \in Numbers, Allocate(k), Witness({k})
        PROVE  Goal
    <2>1. SeenInv' /\ Numbers \ {k} \subseteq seen[k]
      BY <1>1, AllocateSeen
    <2>2. in_use' \ in_use \subseteq {k}
      BY <1>1 DEF Allocate
    <2>3. QED
      BY <2>1, <2>2
  <1>2. ASSUME in_use' \subseteq in_use, UNCHANGED next_number, Witness({})
        PROVE  Goal
    BY <1>2, ReleaseSeen
  <1>3. ASSUME NEW t \in Transaction, TransactionAllocate(t)
        PROVE  Goal
    BY <1>1, <1>3 DEF TransactionAllocate
  <1>4. ASSUME NEW t \in Transaction, TransactionEnds(t)
        PROVE  Goal
    BY <1>2, <1>4 DEF TransactionEnds, ReleaseAll
  <1>5. ASSUME NEW t \in Transaction, TransactionReleases(t)
        PROVE  Goal
    BY <1>2, <1>5 DEF TransactionReleases, Release
  <1>6. ASSUME DiscoveryCommand
        PROVE  Goal
    BY <1>1, <1>6 DEF DiscoveryCommand
  <1>7. CASE UNCHANGED poolVars
    BY <1>7 DEF poolVars, SeenInv, Behind, Steps, Successor
  <1>8. QED
    BY <1>3, <1>4, <1>5, <1>6, <1>7 DEF PoolNext

(* A number is issued again only after every other number has been in use. *)
THEOREM ReuseIsFarthest == PoolSpec => FarthestReuse
  <1>1. PoolInit => SeenInv
    BY DEF PoolInit, AllocatorInit, SeenInv, PoolTypeOK, Numbers
  <1>2. PoolTypeOK /\ SeenInv /\ [PoolNext]_poolVars => SeenInv'
    BY PoolStepSeen
  <1>3. PoolTypeOK /\ SeenInv /\ [PoolNext]_poolVars =>
          [\A n \in Numbers : n \in in_use' \ in_use => Numbers \ {n} \subseteq seen[n]]_poolVars
    BY PoolStepSeen
  <1>4. QED
    BY <1>1, <1>2, <1>3, PoolTypes, PTL DEF PoolSpec, FarthestReuse

-----------------------------------------------------------------------------
(* The tree.                                                               *)

(* The bounds of a node are addresses in order.                            *)
LEMMA NodeBounds ==
    ASSUME NEW n \in Node
    PROVE  n[1] \in Nat /\ n[2] \in Nat /\ n[1] <= n[2] /\ n[2] <= MaxAddress
  BY DiscoveryAssumption DEF Node, Address

(* A pair of addresses in order is a node.                                 *)
LEMMA NodeOf ==
    ASSUME NEW low \in Nat, NEW high \in Nat, low <= high, high <= MaxAddress
    PROVE  <<low, high>> \in Node
  <1>1. low \in Address /\ high \in Address
    BY DiscoveryAssumption DEF Address
  <1>2. QED
    BY <1>1 DEF Node

(* So is the whole address space.                                          *)
LEMMA RootIsNode == Root \in Node
  BY DiscoveryAssumption, NodeOf DEF Root

(* The midpoint lies in the range, and below its end if there is room.     *)
LEMMA MidpointBounds ==
    ASSUME NEW n \in Node
    PROVE  /\ Midpoint(n) \in Nat
           /\ n[1] <= Midpoint(n) /\ Midpoint(n) <= n[2]
           /\ n[1] < n[2] => Midpoint(n) < n[2]
  <1>1. PICK l \in Nat, h \in Nat : n[1] = l /\ n[2] = h /\ l <= h
    BY NodeBounds
  <1>2. /\ (h - l) \div 2 \in Nat
        /\ 2 * ((h - l) \div 2) <= h - l
    BY <1>1
  <1>3. QED
    BY <1>1, <1>2 DEF Midpoint

(* split(): the two halves of a range are ranges, and together they hold   *)
(* what the range holds, each address in one of them.                      *)
THEOREM SplitPartitions ==
    ASSUME NEW n \in Node, n[1] < n[2]
    PROVE  /\ LowHalf(n) \in Node /\ HighHalf(n) \in Node
           /\ InRange(LowHalf(n)) \union InRange(HighHalf(n)) = InRange(n)
           /\ InRange(LowHalf(n)) \intersect InRange(HighHalf(n)) = {}
  <1>1. /\ n[1] \in Nat /\ n[2] \in Nat /\ n[2] <= MaxAddress
        /\ Midpoint(n) \in Nat /\ n[1] <= Midpoint(n) /\ Midpoint(n) < n[2]
    BY NodeBounds, MidpointBounds
  <1>2. LowHalf(n) \in Node
    BY <1>1, NodeOf, DiscoveryAssumption DEF LowHalf
  <1>3. HighHalf(n) \in Node
    <2>1. Midpoint(n) + 1 \in Nat /\ Midpoint(n) + 1 <= n[2]
      BY <1>1
    <2>2. QED
      BY <1>1, <2>1, NodeOf DEF HighHalf
  <1>4. InRange(LowHalf(n)) = n[1] .. Midpoint(n)
    BY DEF InRange, LowHalf
  <1>5. InRange(HighHalf(n)) = (Midpoint(n) + 1) .. n[2]
    BY DEF InRange, HighHalf
  <1>6. ASSUME NEW l \in Nat, NEW m \in Nat, NEW h \in Nat, l <= m, m < h
        PROVE  /\ (l .. m) \union ((m + 1) .. h) = l .. h
               /\ (l .. m) \intersect ((m + 1) .. h) = {}
    <2>1. \A x : x \in (l .. m) \union ((m + 1) .. h) <=> x \in l .. h
      BY <1>6
    <2>2. \A x : x \notin (l .. m) \intersect ((m + 1) .. h)
      BY <1>6
    <2>3. QED
      BY <2>1, <2>2
  <1>7. QED
    BY <1>1, <1>2, <1>3, <1>4, <1>5, <1>6 DEF InRange

(* When both halves are silent, so is the range.                           *)
LEMMA HalvesSilent ==
    ASSUME NEW n \in Node, n[1] < n[2], \A m \in Children(n) : Responders(m) = {}
    PROVE  Responders(n) = {}
  BY SplitPartitions DEF Children, Responders

(* The list of the devices that were found.                                *)
LEMMA ToSetAppend ==
    ASSUME NEW S, NEW s \in Seq(S), NEW a \in S
    PROVE  ToSet(Append(s, a)) = ToSet(s) \union {a}
  <1>1. /\ Append(s, a) \in Seq(S) /\ Len(Append(s, a)) = Len(s) + 1
        /\ \A i \in 1 .. Len(s) : Append(s, a)[i] = s[i]
        /\ Append(s, a)[Len(s) + 1] = a
    BY AppendProperties
  <1>2. DOMAIN Append(s, a) = 1 .. Len(s) + 1 /\ DOMAIN s = 1 .. Len(s) /\ Len(s) \in Nat
    BY <1>1
  <1>3. ASSUME NEW x
        PROVE  x \in ToSet(Append(s, a)) <=> x \in ToSet(s) \/ x = a
    <2>1. ASSUME NEW i \in DOMAIN Append(s, a), x = Append(s, a)[i]
          PROVE  x \in ToSet(s) \/ x = a
      <3>1. i \in 1 .. Len(s) \/ i = Len(s) + 1
        BY <1>2
      <3>2. QED
        BY <1>1, <1>2, <2>1, <3>1 DEF ToSet
    <2>2. ASSUME NEW i \in DOMAIN s, x = s[i]
          PROVE  x \in ToSet(Append(s, a))
      <3>1. i \in DOMAIN Append(s, a)
        BY <1>2
      <3>2. QED
        BY <1>1, <1>2, <2>2, <3>1 DEF ToSet
    <2>3. Len(s) + 1 \in DOMAIN Append(s, a)
      BY <1>2
    <2>4. QED
      BY <1>1, <2>1, <2>2, <2>3 DEF ToSet
  <1>4. QED
    BY <1>3

(* The rest of a list is a part of it.                                     *)
LEMMA ToSetTail ==
    ASSUME NEW S, NEW s \in Seq(S), s # <<>>
    PROVE  /\ Tail(s) \in Seq(S) /\ Head(s) \in S
           /\ Head(s) \in ToSet(s) /\ ToSet(Tail(s)) \subseteq ToSet(s)
  <1>1. /\ Tail(s) \in Seq(S) /\ Head(s) \in S /\ Len(Tail(s)) = Len(s) - 1
        /\ \A i \in 1 .. Len(Tail(s)) : Tail(s)[i] = s[i + 1]
    BY HeadTailProperties
  <1>2. DOMAIN Tail(s) = 1 .. Len(s) - 1 /\ DOMAIN s = 1 .. Len(s) /\ Len(s) \in Nat /\ Len(s) > 0
    BY <1>1
  <1>3. Head(s) \in ToSet(s)
    <2>1. 1 \in DOMAIN s /\ Head(s) = s[1]
      BY <1>2
    <2>2. QED
      BY <2>1 DEF ToSet
  <1>4. ASSUME NEW i \in DOMAIN Tail(s)
        PROVE  Tail(s)[i] \in ToSet(s)
    <2>1. i + 1 \in DOMAIN s /\ Tail(s)[i] = s[i + 1]
      BY <1>1, <1>2
    <2>2. QED
      BY <2>1 DEF ToSet
  <1>5. QED
    BY <1>1, <1>3, <1>4 DEF ToSet

(* What a list made of two holds.                                          *)
LEMMA ToSetConcat ==
    ASSUME NEW S, NEW s \in Seq(S), NEW t \in Seq(S)
    PROVE  s \o t \in Seq(S) /\ ToSet(s \o t) \subseteq ToSet(s) \union ToSet(t)
  <1>1. /\ s \o t \in Seq(S) /\ Len(s \o t) = Len(s) + Len(t)
        /\ \A i \in 1 .. Len(s) + Len(t) : (s \o t)[i] = IF i <= Len(s) THEN s[i] ELSE t[i - Len(s)]
    BY ConcatProperties
  <1>2. /\ DOMAIN (s \o t) = 1 .. Len(s) + Len(t) /\ DOMAIN s = 1 .. Len(s)
        /\ DOMAIN t = 1 .. Len(t) /\ Len(s) \in Nat /\ Len(t) \in Nat
    BY <1>1
  <1>3. ASSUME NEW i \in DOMAIN (s \o t)
        PROVE  (s \o t)[i] \in ToSet(s) \union ToSet(t)
    <2>1. CASE i <= Len(s)
      <3>1. i \in DOMAIN s /\ (s \o t)[i] = s[i]
        BY <1>1, <1>2, <2>1
      <3>2. QED
        BY <3>1 DEF ToSet
    <2>2. CASE ~(i <= Len(s))
      <3>1. i - Len(s) \in DOMAIN t /\ (s \o t)[i] = t[i - Len(s)]
        BY <1>1, <1>2, <2>2
      <3>2. QED
        BY <3>1 DEF ToSet
    <2>3. QED
      BY <2>1, <2>2
  <1>4. QED
    BY <1>1, <1>3 DEF ToSet

-----------------------------------------------------------------------------
(* Types and the shape of the tree.                                        *)

(* The search goes on below a node, or retreats, only when none is saved.  *)
TreeInv ==
    /\ TreeIsSound
    /\ pc \in {"choose", "retreat"} => saved = None

(* Everything in the tree is a node.                                       *)
LEMMA TreeOfNodes ==
    ASSUME split \subseteq Node, \A n \in split : n[1] < n[2]
    PROVE  Tree \subseteq Node
  <1>1. \A n \in split : Children(n) \subseteq Node
    BY SplitPartitions DEF Children
  <1>2. QED
    BY <1>1, RootIsNode DEF Tree

(* A number is taken from the pool, or the pool is left alone.             *)
LEMMA TakeNumberTypes ==
    ASSUME AllocatorTypeOK, TakeNumber \/ UNCHANGED allocatorVars
    PROVE  AllocatorTypeOK'
  <1>1. ASSUME NEW n \in Numbers, Allocate(n)
        PROVE  AllocatorTypeOK'
    <2>1. Successor(n) \in Numbers
      BY MaxTxnAssumption DEF Numbers, Successor
    <2>2. QED
      BY <1>1, <2>1 DEF Allocate, IsCandidate, AllocatorTypeOK
  <1>2. QED
    BY <1>1 DEF TakeNumber, AllocatorTypeOK, allocatorVars

(* The variables of the search have their types; those of the round and of *)
(* the tree are what the three results of an exchange change.              *)
SearchTypes ==
    /\ pc \in {"idle", "prepare", "branch", "mute", "finished", "choose", "retreat", "done",
               "limit"}
    /\ split \subseteq Node
    /\ complete \subseteq Node
    /\ current \in Node \union {None}
    /\ saved \in Node \union {None}
    /\ attempt \in 1 .. Retries
    /\ tries \in 1 .. MuteRetries
    /\ candidate \in Address

(* NO_RESPONSE keeps the types and the tree.                               *)
LEMMA NoResponseKeeps ==
    ASSUME TypeOK, TreeInv, pc = "branch", NoResponse
    PROVE  SearchTypes' /\ TreeInv'
  <1>1. current \in Node /\ current \in Tree
    BY TreeOfNodes DEF TypeOK, TreeInv, TreeIsSound
  <1>2. attempt' \in 1 .. Retries
    BY DiscoveryAssumption DEF NoResponse, TypeOK
  <1>3. SearchTypes'
    BY <1>1, <1>2 DEF NoResponse, TypeOK, SearchTypes
  <1>4. Tree' = Tree
    BY DEF NoResponse, Tree
  <1>5. QED
    BY <1>1, <1>3, <1>4 DEF NoResponse, TreeInv, TreeIsSound

(* COLLISION keeps the types and the tree.                                 *)
LEMMA CollisionKeeps ==
    ASSUME TypeOK, TreeInv, pc \in {"branch", "mute"}, Collision
    PROVE  SearchTypes' /\ TreeInv'
  <1>1. current \in Node /\ current \in Tree
    BY TreeOfNodes DEF TypeOK, TreeInv, TreeIsSound
  <1>2. attempt' \in 1 .. Retries /\ tries' \in 1 .. MuteRetries /\ candidate' \in Address
    BY DiscoveryAssumption DEF Collision, Address
  <1>3. current' \in Node /\ saved' = None /\ split' \subseteq Node
    BY <1>1 DEF Collision, TypeOK
  <1>4. SearchTypes'
    BY <1>2, <1>3 DEF Collision, TypeOK, SearchTypes
  <1>5. current[1] # current[2] => current[1] < current[2]
    BY <1>1, NodeBounds
  <1>6. Tree \subseteq Tree' /\ \A n \in split' : n[1] < n[2]
    BY <1>5 DEF Collision, Tree, TreeInv, TreeIsSound
  <1>7. split' \union complete' \subseteq Tree' /\ current' \in Tree'
    BY <1>1, <1>6 DEF Collision, TreeInv, TreeIsSound
  <1>8. QED
    BY <1>3, <1>4, <1>6, <1>7 DEF Collision, TreeInv, TreeIsSound

(* ADDRESS_FOUND keeps the types and the tree.                             *)
LEMMA FoundKeeps ==
    ASSUME TypeOK, TreeInv, pc = "mute", Found
    PROVE  SearchTypes' /\ TreeInv' /\ remaining' \in Nat
  <1>1. current \in Node /\ current \in Tree
    BY TreeOfNodes DEF TypeOK, TreeInv, TreeIsSound
  <1>2. attempt' \in 1 .. Retries /\ tries' \in 1 .. MuteRetries /\ candidate' \in Address
    BY DiscoveryAssumption DEF Found, Address
  <1>3. Root \in Tree /\ Root \in Node /\ Tree' = Tree
    BY RootIsNode DEF Found, treeVars, Tree
  <1>4. pc' \in {"branch", "limit"} /\ remaining' \in Nat
    BY DEF Found, EndRound, TypeOK
  <1>5. SearchTypes'
    BY <1>1, <1>2, <1>3, <1>4 DEF Found, treeVars, TypeOK, SearchTypes
  <1>6. QED
    BY <1>1, <1>3, <1>4, <1>5 DEF Found, treeVars, TreeInv, TreeIsSound

(* An exchange leaves the muted devices among the devices.                 *)
LEMMA MuteExchangeTypes ==
    ASSUME TypeOK, NEW a, NEW acknowledged, MuteExchange(a, acknowledged)
    PROVE  AllocatorTypeOK' /\ muted' \subseteq devices
  BY TakeNumberTypes DEF MuteExchange, TypeOK

(* What a branch exchange takes from and leaves in the queue.              *)
LEMMA BranchResult ==
    ASSUME TypeOK, NEW answer \in Answers(current), NEW result, Take(answer, result)
    PROVE  /\ responses' \in Seq((SUBSET Address) \ {{}})
           /\ result \in SUBSET Address
  <1> DEFINE Response == (SUBSET Address) \ {{}}
  <1>1. answer \in SUBSET Address
    <2>1. Responders(current) \subseteq Address
      BY DEF Responders, TypeOK, Device
    <2>2. QED
      BY <2>1 DEF Answers
  <1>2. PICK arrived :
          /\ answer = {} => arrived = <<>>
          /\ answer # {} => arrived = <<answer>>
          /\ \/ responses = <<>> /\ result \in {answer, {}} /\ responses' \in {<<>>, arrived}
             \/ /\ responses # <<>>
                /\ result = Head(responses) /\ responses' = Tail(responses) \o arrived
    BY DEF Take
  <1>3. arrived \in Seq(Response)
    <2>1. CASE answer = {}
      BY <1>2, <2>1
    <2>2. CASE answer # {}
      <3>1. answer \in Response
        BY <1>1, <2>2
      <3>2. ASSUME NEW S, NEW a \in S
            PROVE  <<a>> \in Seq(S)
        OBVIOUS
      <3> HIDE DEF Response
      <3>3. <<answer>> \in Seq(Response)
        BY <3>1, <3>2
      <3>4. arrived = <<answer>>
        BY <1>2, <2>2
      <3>5. QED
        BY <3>3, <3>4
    <2>3. QED
      BY <2>1, <2>2
  <1>4. responses \in Seq(Response) /\ <<>> \in Seq(Response)
    BY DEF TypeOK
  <1> HIDE DEF Response
  <1>5. responses' \in Seq(Response) /\ result \in {answer, {}} \union Response
    <2>1. CASE responses = <<>>
      BY <1>2, <1>3, <1>4, <2>1
    <2>2. CASE responses # <<>>
      <3>1. Head(responses) \in Response /\ Tail(responses) \in Seq(Response)
        BY <1>4, <2>2, ToSetTail
      <3>2. Tail(responses) \o arrived \in Seq(Response)
        BY <1>3, <3>1, ToSetConcat
      <3>3. QED
        BY <1>2, <2>2, <3>1, <3>2
    <2>3. QED
      BY <2>1, <2>2
  <1>6. QED
    BY <1>1, <1>5 DEF Response

(* One step keeps the types and the tree.                                  *)
LEMMA NextTypes ==
    ASSUME TypeOK, TreeInv, [Next]_vars
    PROVE  TypeOK' /\ TreeInv'
  <1>1. ASSUME NEW onlyNew \in BOOLEAN, NEW skipUids \in SkipLists, NEW limit \in Limits,
               Begin(onlyNew, skipUids, limit)
        PROVE  TypeOK' /\ TreeInv'
    <2>1. AllocatorTypeOK' /\ muted' \subseteq devices
      BY <1>1, TakeNumberTypes DEF Begin, UnmuteAll, TypeOK
    <2>2. skipUids \in Seq(Address) /\ limit \in Nat /\ 1 \in 1 .. Retries /\ 1 \in 1 .. MuteRetries
          /\ 0 \in Address
      BY DiscoveryAssumption DEF Address
    <2>3. discovered' \in Seq(Address) /\ toMute' \in Seq(Address)
      <3>1. discovered \in Seq(Address) /\ <<>> \in Seq(Address)
        BY DEF TypeOK
      <3>2. /\ discovered' \in {discovered, <<>>}
            /\ toMute' \in {discovered \o skipUids, <<>> \o skipUids}
        BY <1>1 DEF Begin
      <3>3. discovered \o skipUids \in Seq(Address) /\ <<>> \o skipUids \in Seq(Address)
        BY <2>2, <3>1, ToSetConcat
      <3>4. QED
        BY <3>1, <3>2, <3>3
    <2>4. TypeOK'
      BY <1>1, <2>1, <2>2, <2>3, RootIsNode DEF Begin, TypeOK
    <2>5. TreeInv'
      BY <1>1 DEF Begin, TreeInv, TreeIsSound, Tree
    <2>6. QED
      BY <2>4, <2>5
  <1>2. CASE Prepare
    <2>1. AllocatorTypeOK' /\ muted' \subseteq devices
      BY <1>2, MuteExchangeTypes DEF Prepare
    <2>2. toMute' \in Seq(Address)
      BY <1>2, ToSetTail DEF Prepare, TypeOK
    <2>3. TypeOK'
      BY <1>2, <2>1, <2>2 DEF Prepare, TypeOK, treeVars, roundVars
    <2>4. QED
      BY <1>2, <2>3 DEF Prepare, treeVars, TreeInv, TreeIsSound, Tree
  <1>3. CASE Search
    BY <1>3 DEF Search, TypeOK, AllocatorTypeOK, allocatorVars, networkVars, callVars, treeVars,
                roundVars, TreeInv, TreeIsSound, Tree
  <1>4. CASE Branch
    <2>1. AllocatorTypeOK'
      BY <1>4, TakeNumberTypes DEF Branch, TypeOK
    <2>2. UNCHANGED <<devices, muted, discovered, skipped, toMute, remaining>>
      BY <1>4 DEF Branch, networkVars, callVars
    <2>3. ASSUME responses' \in Seq((SUBSET Address) \ {{}}), SearchTypes'
          PROVE  TypeOK'
      BY <2>1, <2>2, <2>3 DEF TypeOK, SearchTypes
    <2>4. CASE Exhausted /\ NoResponse /\ UNCHANGED <<allocatorVars, responses>>
      BY <1>4, <2>3, <2>4, NoResponseKeeps DEF Branch, TypeOK
    <2>5. ASSUME NEW answer \in Answers(current), NEW result, Take(answer, result),
                 \/ result = {} /\ NoResponse
                 \/ /\ \E a \in result \ {0} : result = {a} /\ candidate' = a
                    /\ pc' = "mute"
                    /\ UNCHANGED <<treeVars, current, saved, attempt, tries>>
                 \/ Collision
          PROVE  TypeOK' /\ TreeInv'
      <3>1. responses' \in Seq((SUBSET Address) \ {{}}) /\ result \in SUBSET Address
        BY <2>5, BranchResult
      <3>2. CASE NoResponse
        BY <1>4, <2>3, <3>1, <3>2, NoResponseKeeps DEF Branch
      <3>3. CASE Collision
        BY <1>4, <2>3, <3>1, <3>3, CollisionKeeps DEF Branch
      <3>4. CASE /\ \E a \in result \ {0} : result = {a} /\ candidate' = a
                 /\ pc' = "mute"
                 /\ UNCHANGED <<treeVars, current, saved, attempt, tries>>
        <4>1. SearchTypes'
          BY <3>1, <3>4 DEF SearchTypes, TypeOK, treeVars
        <4>2. QED
          BY <1>4, <2>3, <3>1, <3>4, <4>1 DEF Branch, TreeInv, TreeIsSound, Tree, treeVars
      <3>5. QED
        BY <2>5, <3>2, <3>3, <3>4
    <2>6. QED
      BY <1>4, <2>4, <2>5 DEF Branch
  <1>5. CASE Mute
    <2>1. PICK acknowledged \in BOOLEAN :
            MuteExchange(candidate, acknowledged) /\ Muted(acknowledged)
      BY <1>5 DEF Mute
    <2>2. AllocatorTypeOK' /\ muted' \subseteq devices
      BY <2>1, MuteExchangeTypes
    <2>3. UNCHANGED <<devices, responses, skipped, toMute>>
      BY <1>5 DEF Mute, callVars
    <2>4. ASSUME discovered' \in Seq(Address), SearchTypes', remaining' \in Nat
          PROVE  TypeOK'
      BY <2>2, <2>3, <2>4 DEF TypeOK, SearchTypes
    <2>5. CASE /\ discovered' = IF Contains(discovered, candidate) THEN discovered
                                ELSE Append(discovered, candidate)
               /\ Found
      <3>1. discovered' \in Seq(Address)
        BY <2>5, AppendProperties DEF TypeOK
      <3>2. QED
        BY <1>5, <2>4, <2>5, <3>1, FoundKeeps DEF Mute
    <2>6. CASE /\ tries < MuteRetries
               /\ tries' = tries + 1
               /\ UNCHANGED <<discovered, pc, treeVars, current, saved, attempt, candidate, remaining>>
      <3>1. tries' \in 1 .. MuteRetries
        BY <2>6, DiscoveryAssumption DEF TypeOK
      <3>2. SearchTypes' /\ discovered' \in Seq(Address) /\ remaining' \in Nat
        BY <2>6, <3>1 DEF TypeOK, SearchTypes, treeVars
      <3>3. QED
        BY <2>4, <2>6, <3>2 DEF TreeInv, TreeIsSound, Tree, treeVars
    <2>7. CASE Collision /\ UNCHANGED <<discovered, remaining>>
      BY <1>5, <2>4, <2>7, CollisionKeeps DEF Mute, TypeOK
    <2>8. QED
      BY <2>1, <2>5, <2>6, <2>7 DEF Muted
  <1>6. CASE Climb
    <2>1. UNCHANGED <<allocatorVars, networkVars, responses, discovered, callVars, split, saved,
                      roundVars, remaining>>
      BY <1>6 DEF Climb
    <2>2. ASSUME current' \in Node \union {None}, complete' \subseteq Node,
                 pc' \in {"finished", "choose", "retreat", "branch", "done"}
          PROVE  TypeOK'
      BY <2>1, <2>2 DEF TypeOK, AllocatorTypeOK, allocatorVars, networkVars, callVars, roundVars
    <2>3. Tree' = Tree
      BY <2>1 DEF Tree
    <2>4. CASE current = Root /\ current' = None /\ pc' = "done" /\ UNCHANGED complete
      <3>1. TypeOK'
        BY <2>2, <2>4 DEF TypeOK
      <3>2. QED
        BY <2>1, <2>3, <2>4, <3>1 DEF TreeInv, TreeIsSound
    <2>5. CASE current # Root
      <3>1. PICK parent \in split :
              /\ current' = parent
              /\ \/ complete' = complete \union {parent} /\ UNCHANGED pc
                 \/ pc' = (IF pc = "finished" THEN "choose" ELSE "branch") /\ UNCHANGED complete
        BY <1>6, <2>5 DEF Climb
      <3>2. parent \in Node /\ parent \in Tree /\ saved = None
        BY <1>6, <2>5 DEF Climb, TypeOK, TreeInv, TreeIsSound
      <3>3. TypeOK'
        BY <1>6, <2>2, <3>1, <3>2 DEF Climb, TypeOK
      <3>4. QED
        BY <2>1, <2>3, <3>1, <3>2, <3>3 DEF TreeInv, TreeIsSound
    <2>6. QED
      BY <1>6, <2>4, <2>5 DEF Climb
  <1>7. CASE Choose
    <2>1. UNCHANGED <<allocatorVars, networkVars, responses, discovered, callVars, treeVars, saved,
                      roundVars>> /\ saved = None
      BY <1>7 DEF Choose, TreeInv
    <2>2. pc' \in {"branch", "retreat", "limit"} /\ remaining' \in Nat
      BY <1>7 DEF Choose, EndRound, TypeOK
    <2>3. current' \in Tree
      <3>1. current \in Tree
        BY <1>7 DEF Choose, TreeInv, TreeIsSound
      <3>2. current' = current \/ (current \in split /\ current' \in Children(current))
        BY <1>7 DEF Choose, Open
      <3>3. QED
        BY <3>1, <3>2 DEF Tree
    <2>4. current' \in Node
      BY <2>3, TreeOfNodes DEF TypeOK, TreeInv, TreeIsSound
    <2>5. TypeOK'
      BY <2>1, <2>2, <2>4 DEF TypeOK, AllocatorTypeOK, allocatorVars, networkVars, callVars,
                              roundVars, treeVars
    <2>6. QED
      BY <2>1, <2>3, <2>5 DEF TreeInv, TreeIsSound, Tree, treeVars
  <1>8. ASSUME NEW d \in Address, Reset(d)
        PROVE  TypeOK' /\ TreeInv'
    BY <1>8 DEF Reset, TypeOK, AllocatorTypeOK, allocatorVars, callVars, treeVars, roundVars,
                TreeInv, TreeIsSound, Tree
  <1>9. CASE UNCHANGED vars
    BY <1>9 DEF vars, TypeOK, AllocatorTypeOK, allocatorVars, networkVars, callVars, treeVars,
                roundVars, TreeInv, TreeIsSound, Tree
  <1>10. QED
    BY <1>1, <1>2, <1>3, <1>4, <1>5, <1>6, <1>7, <1>8, <1>9 DEF Next, SearchStep

(* At first nothing has been searched.                                     *)
LEMMA InitTypes == Init => TypeOK /\ TreeInv
  <1> SUFFICES ASSUME Init PROVE TypeOK /\ TreeInv
    OBVIOUS
  <1>1. AllocatorTypeOK
    BY MaxTxnAssumption DEF Init, AllocatorInit, AllocatorTypeOK, Numbers
  <1>2. 1 \in 1 .. Retries /\ 1 \in 1 .. MuteRetries /\ 0 \in Address
    BY DiscoveryAssumption DEF Address
  <1>3. responses \in Seq((SUBSET Address) \ {{}}) /\ discovered \in Seq(Address)
        /\ skipped \in Seq(Address) /\ toMute \in Seq(Address)
    BY DEF Init
  <1>4. TypeOK
    BY <1>1, <1>2, <1>3 DEF Init, TypeOK
  <1>5. QED
    BY <1>4 DEF Init, TreeInv, TreeIsSound

(* The variables of the search have their types.                           *)
THEOREM SearchTypesHold == Spec => []TypeOK
  <1>1. Spec => [](TypeOK /\ TreeInv)
    BY InitTypes, NextTypes, PTL DEF Spec
  <1>2. QED
    BY <1>1, PTL

(* The tree of the search hangs together.                                  *)
THEOREM SearchTreeIsSound == Spec => []TreeIsSound
  <1>1. Spec => [](TypeOK /\ TreeInv)
    BY InitTypes, NextTypes, PTL DEF Spec
  <1>2. TreeInv => TreeIsSound
    BY DEF TreeInv
  <1>3. QED
    BY <1>1, <1>2, PTL

-----------------------------------------------------------------------------
(* What the search finds, whatever the wire does.                          *)

(* Only a device acknowledges, and then it has been muted.                 *)
LEMMA AcknowledgedIsMuted ==
    ASSUME NEW a, MuteExchange(a, TRUE)
    PROVE  a \in devices /\ a \in muted'
  BY DEF MuteExchange

(* An address that is not in the list yet is added to it once.             *)
LEMMA AppendOnce ==
    ASSUME NEW S, NEW s \in Seq(S), NEW a \in S, ~Contains(s, a),
           \A i, j \in DOMAIN s : s[i] = s[j] => i = j
    PROVE  \A i, j \in DOMAIN Append(s, a) : Append(s, a)[i] = Append(s, a)[j] => i = j
  <1>1. /\ Append(s, a) \in Seq(S) /\ Len(Append(s, a)) = Len(s) + 1
        /\ \A i \in 1 .. Len(s) : Append(s, a)[i] = s[i]
        /\ Append(s, a)[Len(s) + 1] = a
    BY AppendProperties
  <1>2. DOMAIN Append(s, a) = 1 .. Len(s) + 1 /\ DOMAIN s = 1 .. Len(s) /\ Len(s) \in Nat
    BY <1>1
  <1>3. \A i \in 1 .. Len(s) : s[i] # a
    BY DEF Contains
  <1>4. ASSUME NEW i \in DOMAIN Append(s, a), NEW j \in DOMAIN Append(s, a),
               Append(s, a)[i] = Append(s, a)[j]
        PROVE  i = j
    <2>1. /\ i \in 1 .. Len(s) \/ i = Len(s) + 1
          /\ j \in 1 .. Len(s) \/ j = Len(s) + 1
      BY <1>2
    <2>2. QED
      BY <1>1, <1>2, <1>3, <1>4, <2>1
  <1>5. QED
    BY <1>4

(* One step keeps the list free of what is not a device.                   *)
LEMMA NextFound ==
    ASSUME TypeOK, FoundAreDevices, [Next]_vars
    PROVE  FoundAreDevices'
  <1>1. CASE UNCHANGED <<discovered, devices>>
    BY <1>1 DEF FoundAreDevices, ToSet
  <1>2. ASSUME NEW onlyNew, NEW skipUids, NEW limit, Begin(onlyNew, skipUids, limit)
        PROVE  FoundAreDevices'
    BY <1>1, <1>2 DEF Begin, FoundAreDevices, ToSet
  <1>3. CASE Mute
    <2>1. PICK acknowledged \in BOOLEAN :
            MuteExchange(candidate, acknowledged) /\ Muted(acknowledged)
      BY <1>3 DEF Mute
    <2>2. UNCHANGED devices
      BY <1>3 DEF Mute
    <2>3. CASE acknowledged /\ ~Contains(discovered, candidate)
               /\ discovered' = Append(discovered, candidate)
      <3>1. candidate \in devices
        BY <2>1, <2>3, AcknowledgedIsMuted
      <3>2. discovered \in Seq(Address) /\ candidate \in Address
        BY DEF TypeOK
      <3>3. ToSet(discovered') \subseteq devices'
        BY <2>2, <2>3, <3>1, <3>2, ToSetAppend DEF FoundAreDevices
      <3>4. \A i, j \in DOMAIN discovered' : discovered'[i] = discovered'[j] => i = j
        BY <2>3, <3>2, AppendOnce DEF FoundAreDevices
      <3>5. QED
        BY <3>3, <3>4 DEF FoundAreDevices
    <2>4. CASE UNCHANGED discovered
      BY <1>1, <2>2, <2>4
    <2>5. QED
      BY <2>1, <2>3, <2>4 DEF Muted
  <1>4. QED
    BY <1>1, <1>2, <1>3
       DEF Next, SearchStep, Prepare, Search, Branch, Climb, Choose, Reset, networkVars, vars

(* The list of a search holds devices only, each once, whatever is read    *)
(* from the wire.                                                          *)
THEOREM OnlyDevicesAreFound == Spec => []FoundAreDevices
  <1>1. Init => FoundAreDevices
    <2> SUFFICES ASSUME Init PROVE FoundAreDevices
      OBVIOUS
    <2>1. DOMAIN discovered = {}
      BY DEF Init
    <2>2. QED
      BY <2>1 DEF FoundAreDevices, ToSet
  <1>2. QED
    BY <1>1, NextFound, SearchTypesHold, PTL DEF Spec

-----------------------------------------------------------------------------
(* What the search finds on a wire without faults.                         *)

Left == devices \ muted

Known == ToSet(discovered) \union ToSet(skipped)

(* The inductive invariant.  A range that is complete is silent; the node  *)
(* that is saved is the root only when nobody is left; so the search never *)
(* comes to an end above the root before that.                             *)
SearchInv ==
    /\ \A n \in complete : Responders(n) = {}
    /\ pc = "mute" => Responders(current) = {candidate}
    /\ pc = "finished" => current \in complete
    /\ saved = Root => Left = {}
    /\ pc = "choose" => current # Root \/ Root \in split \/ Left = {}
    /\ pc = "retreat" => current # Root \/ Left = {}
    /\ pc = "done" => Left = {}
    /\ muted \subseteq Known
    /\ ToSet(toMute) \subseteq Known

ReliableInv == responses = <<>> /\ (~Exhausted => SearchInv)

(* The whole range holds every device.                                     *)
LEMMA RootResponders ==
    ASSUME TypeOK
    PROVE  Responders(Root) = Left
  BY DEF TypeOK, Responders, Left, InRange, Root, Device, Address

(* No number comes back.                                                   *)
LEMMA NumbersGo ==
    ASSUME TakeNumber \/ UNCHANGED allocatorVars, ~Exhausted'
    PROVE  ~Exhausted
  BY DEF TakeNumber, Allocate, Exhausted, allocatorVars

(* Muting takes devices off what is left, and a device that is muted is    *)
(* known: it is in one of the lists, or it has just been found.            *)
LEMMA MutingKeeps ==
    ASSUME SearchInv, UNCHANGED devices, muted \subseteq muted'
    PROVE  /\ Left' \subseteq Left
           /\ \A n : Responders(n)' \subseteq Responders(n)
           /\ \A n \in complete : Responders(n)' = {}
           /\ saved = Root => Left' = {}
  BY DEF SearchInv, Left, Responders

(* The rest of the search moves around without touching the devices.       *)
LEMMA MovingKeeps ==
    ASSUME SearchInv, UNCHANGED <<networkVars, discovered, callVars>>,
           \A n \in complete' \ complete : Responders(n) = {},
           pc' = "mute" => Responders(current') = {candidate'},
           pc' = "finished" => current' \in complete',
           saved' = Root => Left = {},
           pc' = "choose" => current' # Root \/ Root \in split' \/ Left = {},
           pc' = "retreat" => current' # Root \/ Left = {},
           pc' = "done" => Left = {}
    PROVE  SearchInv'
  <1>1. Left' = Left /\ \A n : Responders(n)' = Responders(n)
    BY DEF Left, Responders, networkVars
  <1>2. Known' = Known
    BY DEF Known, callVars
  <1>3. UNCHANGED <<muted, toMute>>
    BY DEF networkVars, callVars
  <1>4. QED
    BY <1>1, <1>2, <1>3 DEF SearchInv

(* One step keeps the invariant on a wire without faults.                  *)
LEMMA NextReliable ==
    ASSUME Faults = {}, TypeOK, TreeInv, TypeOK', ReliableInv, [Next]_vars
    PROVE  ReliableInv'
  <1> DEFINE Goal == ~Exhausted' => SearchInv'
  <1>1. ASSUME NEW onlyNew \in BOOLEAN, NEW skipUids \in SkipLists, NEW limit,
               Begin(onlyNew, skipUids, limit), ~Exhausted'
        PROVE  SearchInv'
    <2>1. ~Exhausted /\ muted' = {}
      BY <1>1, NumbersGo DEF Begin, UnmuteAll
    <2>2. ToSet(toMute') \subseteq ToSet(discovered') \union ToSet(skipUids)
      <3>1. discovered' \in Seq(Address) /\ skipUids \in Seq(Address)
        BY DiscoveryAssumption DEF TypeOK
      <3>2. toMute' = discovered' \o skipUids
        BY <1>1 DEF Begin
      <3>3. QED
        BY <3>1, <3>2, ToSetConcat
    <2>3. ToSet(toMute)' \subseteq Known'
      BY <1>1, <2>2 DEF Begin, Known, ToSet
    <2>4. None # Root
      BY DEF None, Root
    <2>5. QED
      BY <1>1, <2>1, <2>3, <2>4 DEF Begin, SearchInv
  <1>2. ASSUME Prepare, ~Exhausted'
        PROVE  SearchInv'
    <2>1. ~Exhausted
      BY <1>2, NumbersGo DEF Prepare, MuteExchange
    <2>2. toMute \in Seq(Address) /\ toMute # <<>>
      BY <1>2 DEF Prepare, TypeOK
    <2>3. Head(toMute) \in ToSet(toMute) /\ ToSet(Tail(toMute)) \subseteq ToSet(toMute)
      BY <2>2, ToSetTail
    <2>4. muted \subseteq muted' /\ muted' \subseteq muted \union {Head(toMute)} /\ UNCHANGED devices
      BY <1>2 DEF Prepare, MuteExchange
    <2>5. Known' = Known /\ ToSet(toMute)' \subseteq ToSet(toMute)
      BY <1>2, <2>3 DEF Prepare, Known, ToSet
    <2>6. SearchInv
      BY <2>1 DEF ReliableInv
    <2>7. UNCHANGED <<pc, complete, split, current, saved>> /\ pc = "prepare"
      BY <1>2 DEF Prepare, treeVars
    <2>8. QED
      BY <2>3, <2>4, <2>5, <2>6, <2>7, MutingKeeps DEF SearchInv
  <1>3. ASSUME Search, ~Exhausted'
        PROVE  SearchInv'
    <2>1. SearchInv
      BY <1>3, NumbersGo DEF Search, ReliableInv
    <2>2. QED
      BY <1>3, <2>1, MovingKeeps DEF Search, treeVars, SearchInv
  <1>4. CASE Branch
    <2>1. /\ TakeNumber \/ UNCHANGED allocatorVars
          /\ UNCHANGED <<networkVars, discovered, callVars>>
      BY <1>4 DEF Branch
    <2>2. ASSUME ~Exhausted'
          PROVE  ~Exhausted /\ SearchInv
      BY <2>1, <2>2, NumbersGo DEF ReliableInv
    <2>3. ASSUME NEW answer \in Answers(current), NEW result, Take(answer, result)
          PROVE  answer = Responders(current) /\ result = answer /\ responses' = <<>>
      BY <2>3 DEF Answers, Take, ReliableInv
    <2>4. responses' = <<>>
      BY <1>4, <2>3 DEF Branch, ReliableInv
    <2>5. ASSUME ~Exhausted', Responders(current) = {}, NoResponse
          PROVE  SearchInv'
      <3>1. \A n \in complete' \ complete : Responders(n) = {}
        BY <2>5 DEF NoResponse
      <3>2. pc' = "finished" => current' \in complete'
        BY <1>4, <2>5 DEF NoResponse, Branch
      <3>3. pc' \in {"branch", "finished"} /\ UNCHANGED saved
        BY <1>4, <2>5 DEF NoResponse, Branch
      <3>4. QED
        BY <2>1, <2>2, <2>5, <3>1, <3>2, <3>3, MovingKeeps DEF SearchInv
    <2>6. ASSUME ~Exhausted', NEW a, Responders(current) = {a}, candidate' = a, pc' = "mute",
                 UNCHANGED <<treeVars, current, saved>>
          PROVE  SearchInv'
      BY <2>1, <2>2, <2>6, MovingKeeps DEF SearchInv, treeVars
    <2>7. ASSUME ~Exhausted', NEW a \in Responders(current), NEW b \in Responders(current), a # b,
                 Collision
          PROVE  SearchInv'
      <3>1. SearchInv /\ current \in Node
        BY <1>4, <2>2, <2>7, TreeOfNodes DEF Branch, TypeOK, TreeInv, TreeIsSound
      <3>2. Left # {}
        BY <2>7 DEF Responders, Left
      <3>3. current[1] # current[2]
        <4>1. a \in current[1] .. current[2] /\ b \in current[1] .. current[2]
          BY <2>7 DEF Responders, InRange
        <4>2. PICK l \in Nat, h \in Nat : current[1] = l /\ current[2] = h
          BY <3>1, NodeBounds
        <4>3. QED
          BY <2>7, <4>1, <4>2
      <3>4. None # Root
        BY DEF None, Root
      <3>5. pc' = "choose" /\ complete' = complete /\ saved' # Root
        BY <2>7, <3>4 DEF Collision
      <3>6. current' # Root \/ Root \in split'
        BY <2>7, <3>1, <3>2, <3>3 DEF Collision, SearchInv
      <3>7. QED
        BY <2>1, <3>1, <3>5, <3>6, MovingKeeps
    <2>8. ASSUME ~Exhausted'
          PROVE  SearchInv'
      <3>1. ~Exhausted /\ 0 \notin Responders(current)
        BY <2>2, <2>8 DEF Responders, TypeOK, Device
      <3>2. QED
        BY <1>4, <2>3, <2>5, <2>6, <2>7, <2>8, <3>1 DEF Branch
    <2>9. QED
      BY <2>4, <2>8 DEF ReliableInv
  <1>5. ASSUME Mute, ~Exhausted'
        PROVE  SearchInv'
    <2>1. PICK acknowledged \in BOOLEAN :
            MuteExchange(candidate, acknowledged) /\ Muted(acknowledged)
      BY <1>5 DEF Mute
    <2>2. ~Exhausted /\ SearchInv
      BY <1>5, <2>1, NumbersGo DEF MuteExchange, ReliableInv
    <2>3. Responders(current) = {candidate} /\ candidate \in devices
      BY <1>5, <2>2 DEF Mute, SearchInv, Responders
    <2>4. acknowledged /\ muted' = muted \union {candidate}
      BY <2>1, <2>2, <2>3 DEF MuteExchange
    <2>5. Found /\ discovered' = IF Contains(discovered, candidate) THEN discovered
                                 ELSE Append(discovered, candidate)
      BY <2>1, <2>4 DEF Muted
    <2>6. UNCHANGED <<devices, skipped, toMute>>
      BY <1>5 DEF Mute, callVars
    <2>7. ToSet(discovered') = ToSet(discovered) \union {candidate}
      <3>1. discovered \in Seq(Address) /\ candidate \in Address
        BY DEF TypeOK
      <3>2. CASE Contains(discovered, candidate)
        <4>1. candidate \in ToSet(discovered)
          <5>1. DOMAIN discovered = 1 .. Len(discovered)
            BY <3>1
          <5>2. QED
            BY <3>2, <5>1 DEF Contains, ToSet
        <4>2. QED
          BY <2>5, <3>2, <4>1
      <3>3. QED
        BY <2>5, <3>1, <3>2, ToSetAppend
    <2>8. Known' = Known \union {candidate}
      BY <2>6, <2>7 DEF Known, ToSet
    <2>9. ToSet(toMute)' = ToSet(toMute)
      BY <2>6 DEF ToSet
    <2>10. pc' \in {"branch", "limit"} /\ complete' = complete
      BY <2>5 DEF Found, EndRound, treeVars
    <2>11. saved' = Root => Left' = {}
      <3>1. CASE saved' = saved
        BY <2>2, <2>4, <2>6, <3>1, MutingKeeps
      <3>2. CASE saved' = current /\ current = Root
        <4>1. Left = {candidate}
          BY <2>3, <3>2, RootResponders
        <4>2. QED
          BY <2>4, <2>6, <4>1 DEF Left
      <3>3. QED
        BY <2>5, <3>1, <3>2 DEF Found
    <2>12. QED
      BY <2>2, <2>4, <2>6, <2>8, <2>9, <2>10, <2>11, MutingKeeps DEF SearchInv
  <1>6. ASSUME Climb, ~Exhausted'
        PROVE  SearchInv'
    <2>1. SearchInv
      BY <1>6, NumbersGo DEF Climb, ReliableInv
    <2>2. UNCHANGED <<networkVars, discovered, callVars, split, saved>>
      BY <1>6 DEF Climb
    <2>3. CASE current = Root /\ pc' = "done" /\ UNCHANGED complete
      <3>1. Left = {}
        BY <1>6, <2>1, <2>3, RootResponders DEF Climb, SearchInv
      <3>2. QED
        BY <2>1, <2>2, <2>3, <3>1, MovingKeeps DEF SearchInv
    <2>4. ASSUME NEW parent \in split, current' = parent, Closed(parent),
                 complete' = complete \union {parent}, UNCHANGED pc
          PROVE  SearchInv'
      <3>1. parent \in Node /\ parent[1] < parent[2]
        BY DEF TypeOK, TreeInv, TreeIsSound
      <3>2. Responders(parent) = {}
        BY <2>1, <2>4, <3>1, HalvesSilent DEF Closed, SearchInv
      <3>3. parent = Root => Left = {}
        BY <3>2, RootResponders
      <3>4. QED
        BY <1>6, <2>1, <2>2, <2>4, <3>2, <3>3, MovingKeeps DEF Climb, SearchInv
    <2>5. ASSUME NEW parent \in split, current' = parent, UNCHANGED complete,
                 pc' \in {"choose", "branch"}
          PROVE  SearchInv'
      BY <2>1, <2>2, <2>5, MovingKeeps DEF SearchInv
    <2>6. QED
      BY <1>6, <2>3, <2>4, <2>5 DEF Climb
  <1>7. ASSUME Choose, ~Exhausted'
        PROVE  SearchInv'
    <2>1. SearchInv
      BY <1>7, NumbersGo DEF Choose, ReliableInv
    <2>2. UNCHANGED <<networkVars, discovered, callVars, complete, split, saved>>
      BY <1>7 DEF Choose, treeVars
    <2>3. pc' \in {"branch", "limit", "retreat"}
      BY <1>7 DEF Choose, EndRound
    <2>4. ASSUME pc' = "retreat", current' = Root
          PROVE  Left = {}
      <3>1. current = Root /\ ~Open(LowHalf(current)) /\ ~Open(HighHalf(current))
        BY <1>7, <2>4 DEF Choose, EndRound
      <3>2. CASE Root \in split
        <4>1. Children(Root) \subseteq complete
          BY <3>1, <3>2 DEF Open, Children
        <4>2. Root \in Node /\ Root[1] < Root[2]
          BY <3>2 DEF TypeOK, TreeInv, TreeIsSound
        <4>3. Responders(Root) = {}
          BY <2>1, <4>1, <4>2, HalvesSilent DEF SearchInv
        <4>4. QED
          BY <4>3, RootResponders
      <3>3. QED
        BY <1>7, <2>1, <3>1, <3>2 DEF Choose, SearchInv
    <2>5. QED
      BY <2>1, <2>2, <2>3, <2>4, MovingKeeps DEF SearchInv
  <1>8. ~\E d \in Address : Reset(d)
    BY DEF Reset
  <1>9. ASSUME UNCHANGED vars, ~Exhausted'
        PROVE  SearchInv'
    <2>1. SearchInv
      BY <1>9, NumbersGo DEF vars, ReliableInv
    <2>2. QED
      BY <1>9, <2>1, MovingKeeps DEF vars, treeVars, roundVars, SearchInv
  <1>10. CASE ~Branch
    <2>1. responses' = <<>>
      BY <1>8, <1>10 DEF ReliableInv, Next, SearchStep, Begin, Prepare, Search, Mute, Climb, Choose,
                         vars
    <2>2. Goal
      BY <1>1, <1>2, <1>3, <1>5, <1>6, <1>7, <1>8, <1>9, <1>10 DEF Next, SearchStep
    <2>3. QED
      BY <2>1, <2>2 DEF ReliableInv
  <1>11. QED
    BY <1>4, <1>10

(* The invariant holds always.                                             *)
LEMMA ReliableAlways == Spec => [](Faults = {} => ReliableInv)
  <1>1. Init => ReliableInv
    <2> SUFFICES ASSUME Init PROVE ReliableInv
      OBVIOUS
    <2>1. ToSet(toMute) = {}
      BY DEF Init, ToSet
    <2>2. None # Root
      BY DEF None, Root
    <2>3. QED
      BY <2>1, <2>2 DEF Init, ReliableInv, SearchInv
  <1>2. Spec => [](TypeOK /\ TreeInv)
    BY InitTypes, NextTypes, PTL DEF Spec
  <1>3. /\ TypeOK /\ TreeInv
        /\ (TypeOK /\ TreeInv)'
        /\ Faults = {} => ReliableInv
        /\ [Next]_vars
        => (Faults = {} => ReliableInv)'
    BY NextReliable
  <1>4. QED
    BY <1>1, <1>2, <1>3, PTL DEF Spec

(* On a wire without faults a complete range holds nobody to be found.     *)
THEOREM CompleteRangesAreSilent == Spec => []CompleteIsSilent
  <1>1. (Faults = {} => ReliableInv) => CompleteIsSilent
    BY DEF ReliableInv, SearchInv, CompleteIsSilent
  <1>2. QED
    BY <1>1, ReliableAlways, PTL

(* On a wire without faults a search that ends by itself has found every   *)
(* device, wherever in the address space the devices are.                  *)
THEOREM DiscoveryIsComplete == Spec => []FindsAll
  <1>1. (Faults = {} => ReliableInv) => FindsAll
    BY DEF ReliableInv, SearchInv, FindsAll, Left, Known
  <1>2. QED
    BY <1>1, ReliableAlways, PTL

==============================================================================
