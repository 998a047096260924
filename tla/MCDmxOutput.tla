---------------------------- MODULE MCDmxOutput ----------------------------
(* DMX output and RDM exchanges on a small instance.                       *)
EXTENDS DmxOutput

CONSTANTS s1, s2, r1, f0, f1     \* model values

MCSender == {s1, s2}
MCRequester == {r1}
MCFrame == {f0, f1}
=============================================================================
