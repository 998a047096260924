------------------------- MODULE MCAllocatorClients -------------------------
(* The pool and its users on a small instance.                             *)
EXTENDS AllocatorClients

CONSTANTS t1, t2                 \* model values

MCTransaction == {t1, t2}
=============================================================================
