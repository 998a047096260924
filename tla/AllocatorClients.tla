-------------------------- MODULE AllocatorClients --------------------------
(***************************************************************************)
(* The number pool together with those who use it:                         *)
(*   - transactions, which keep every number they were given in            *)
(*     allocated_txn_numbers and release all of them when execute() ends   *)
(*     (transaction/async_transaction.py);                                 *)
(*   - the discovery service, which passes allocate() straight into        *)
(*     send_discovery_command() or send_get_command() and keeps no note of *)
(*     the number, so that it is never released                            *)
(*     (services/discovery_service.py).                                    *)
(***************************************************************************)
EXTENDS TxnAllocator

CONSTANTS Transaction,           \* the transactions that run concurrently
          Discovery              \* the discovery service

ASSUME HolderAssumption == Discovery \notin Transaction

VARIABLES held,                  \* allocated_txn_numbers of each transaction
          seen                   \* history: seen[n] is the set of numbers that
                                 \* were in use at some time since n was issued

poolVars == <<next_number, in_use, held, seen>>

Holders == Transaction \union {Discovery}

PoolTypeOK ==
    /\ AllocatorTypeOK
    /\ held \in [Holders -> SUBSET Numbers]
    /\ seen \in [Numbers -> SUBSET Numbers]

PoolInit ==
    /\ \E start \in Numbers : AllocatorInit(start)
    /\ held = [h \in Holders |-> {}]
    /\ seen = [n \in Numbers |-> Numbers]

(* The history variable follows in_use and restarts for an issued number.  *)
Witness(issued) ==
    seen' = [n \in Numbers |-> IF n \in issued THEN in_use'
                                               ELSE seen[n] \union in_use']

(* _execute_attempt and _poll_queued_message: one more number for t.       *)
TransactionAllocate(t) ==
    \E n \in Numbers :
        /\ Allocate(n)
        /\ held' = [held EXCEPT ![t] = @ \union {n}]
        /\ Witness({n})

(* The finally block of execute().                                         *)
TransactionEnds(t) ==
    /\ held[t] # {}
    /\ ReleaseAll(held[t])
    /\ held' = [held EXCEPT ![t] = {}]
    /\ Witness({})

(* A single release() by the holder of the number (public interface).      *)
TransactionReleases(t) ==
    \E n \in held[t] :
        /\ Release(n)
        /\ held' = [held EXCEPT ![t] = @ \ {n}]
        /\ Witness({})

(* unmute_all, mute_device, discover_known_devices, discover_unique_branch *)
DiscoveryCommand ==
    \E n \in Numbers :
        /\ Allocate(n)
        /\ held' = [held EXCEPT ![Discovery] = @ \union {n}]
        /\ Witness({n})

PoolNext ==
    \/ \E t \in Transaction :
        \/ TransactionAllocate(t)
        \/ TransactionEnds(t)
        \/ TransactionReleases(t)
    \/ DiscoveryCommand

PoolSpec == PoolInit /\ [][PoolNext]_poolVars

-----------------------------------------------------------------------------
(* Properties.                                                             *)

(* No number is ever held twice, and the pool marks as in use exactly the  *)
(* numbers somebody holds: none is lost while free, none is free while     *)
(* held (allocate and release_all of the allocator).                       *)
ExclusiveOwnership ==
    /\ \A g, h \in Holders : g # h => held[g] \intersect held[h] = {}
    /\ in_use = UNION {held[h] : h \in Holders}

(* A number is issued again only after every other number has been in use  *)
(* since it was last issued: allocate() goes round the whole range, and    *)
(* release does not put a number back at the front.  This distance is what *)
(* separates a late answer to an old request from the next request with    *)
(* the same number.                                                        *)
FarthestReuse ==
    [][\A n \in Numbers : n \in in_use' \ in_use => Numbers \ {n} \subseteq seen[n]]_poolVars

(* The pool implements the promise its users rely on.                      *)
Lease == INSTANCE NumberLease WITH Holder <- Holders, Number <- Numbers, lease <- held

LeasePromise == Lease!LeaseSpec
=============================================================================
