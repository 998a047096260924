---------------------------- MODULE TxnAllocator ----------------------------
(***************************************************************************)
(* The pool of RDM transaction numbers                                     *)
(* (rdm_dmx_async/transaction/allocator.py, TransactionNumberAllocator).   *)
(*                                                                         *)
(* One allocator is shared by everything that talks to the wire: the       *)
(* transactions of every device and the discovery service.  This module    *)
(* holds its two fields and the meaning of its methods.  Every method runs *)
(* without an await, so each one is a single step.                         *)
(***************************************************************************)
EXTENDS Naturals

CONSTANT MaxTxn                  \* RDM_TXN_MAX, 255 in the code

ASSUME MaxTxnAssumption == MaxTxn \in Nat \ {0}

VARIABLES next_number,           \* _next_number
          in_use                 \* _in_use

allocatorVars == <<next_number, in_use>>

Numbers == 1 .. MaxTxn           \* RDM_TXN_MIN = 1: number 0 is never used

Successor(n) == IF n = MaxTxn THEN 1 ELSE n + 1

(* How many candidates the loop of allocate() passes before it reaches n.  *)
Steps(from, n) == IF n >= from THEN n - from ELSE (n + MaxTxn) - from

(* Every number is taken: the only case in which allocate() raises.        *)
Exhausted == Numbers \subseteq in_use

(* Mutant of IsCandidate: allocate() does not look into _in_use.           *)
IsCandidateUnchecked(n) == n = next_number

(* n is the free number the loop reaches first.                            *)
IsCandidate(n) ==
    /\ n \in Numbers \ in_use
    /\ \A m \in Numbers \ in_use : Steps(next_number, n) <= Steps(next_number, m)

-----------------------------------------------------------------------------

AllocatorInit(start) ==
    /\ next_number = start
    /\ in_use = {}

(* allocate() returns n.  When it raises instead (Exhausted) the loop has  *)
(* made one full turn, so that next_number is back where it was.           *)
Allocate(n) ==
    /\ IsCandidate(n)
    /\ in_use' = in_use \union {n}
    /\ next_number' = Successor(n)

(* Mutant of Release: the freed number is the next one to be issued.       *)
ReleaseRewinds(n) ==
    /\ n \in in_use
    /\ in_use' = in_use \ {n}
    /\ next_number' = n

(* release(n); a number that is not in use raises ValueError.              *)
Release(n) ==
    /\ n \in in_use
    /\ in_use' = in_use \ {n}
    /\ UNCHANGED next_number

(* release_all(numbers); numbers that are not in use are skipped.          *)
ReleaseAll(numbers) ==
    /\ in_use' = in_use \ numbers
    /\ UNCHANGED next_number

AllocatorTypeOK ==
    /\ next_number \in Numbers
    /\ in_use \subseteq Numbers
=============================================================================
