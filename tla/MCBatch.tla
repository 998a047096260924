------------------------------ MODULE MCBatch ------------------------------
(* Three devices, two sessions and two discoveries.  With a spacing of 2   *)
(* and addresses up to 4, the first or the last address is out of range.   *)
EXTENDS BatchOperations, TLC

CONSTANTS d1, d2, d3             \* model values

MCDevice == {d1, d2, d3}
DevicesAlike == Permutations(MCDevice)
=============================================================================
