---------------------------- MODULE MCDeviceApis ----------------------------
(* Two tasks and every PID that has a method, with two values and up to    *)
(* two indexes.  The device lists nothing but the PID looked at, everything *)
(* else, or nothing.                                                       *)
EXTENDS DeviceApis, TLC

CONSTANTS t1, t2, v1, v2         \* model values

MCTask == {t1, t2}
MCValue == {v1, v2}

MCListings == [pid \in Pid |-> {{pid}, Pid \ {pid}, {}}]

TasksAlike == Permutations(MCTask)
=============================================================================
