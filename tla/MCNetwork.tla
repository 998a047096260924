----------------------------- MODULE MCNetwork -----------------------------
(* Connect and disconnect requests on a small instance.                    *)
EXTENDS Network

CONSTANTS m1, m2, m3, u1, u2     \* model values

MCManager == {m1, m2, m3}
MCUser == {u1, u2}
=============================================================================
