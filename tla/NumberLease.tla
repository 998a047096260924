----------------------------- MODULE NumberLease -----------------------------
(***************************************************************************)
(* What the users of a transaction-number pool rely on, with no pool in    *)
(* it: a number is leased to at most one holder at a time, a holder takes  *)
(* numbers one by one, and gives back only numbers it holds.  The comment  *)
(* of AsyncTransactionManager.__init__ states this promise: transactions   *)
(* "never collide on the same transaction number".                         *)
(***************************************************************************)
CONSTANTS Holder, Number

VARIABLE lease                   \* lease[h]: the numbers leased to h

LeaseInit == lease = [h \in Holder |-> {}]

Take(h, n) ==
    /\ \A g \in Holder : n \notin lease[g]
    /\ lease' = [lease EXCEPT ![h] = @ \union {n}]

Return(h, numbers) ==
    lease' = [lease EXCEPT ![h] = @ \ numbers]

LeaseNext ==
    \E h \in Holder :
        \/ \E n \in Number : Take(h, n)
        \/ \E numbers \in SUBSET Number : Return(h, numbers)

LeaseSpec == LeaseInit /\ [][LeaseNext]_lease
==============================================================================
