--------------------------- MODULE MCDeviceCache ---------------------------
(* Two tasks, two addresses and two personalities of one device.           *)
EXTENDS DeviceCache, TLC

CONSTANTS t1, t2, a1, a2, p1, p2     \* model values

MCTask == {t1, t2}
MCAddress == {a1, a2}
MCPersonality == {p1, p2}
MCDefault == [address |-> a1, personality |-> p1]
MCFaults == {"lost", "deferred"}

TasksAlike == Permutations(MCTask)
=============================================================================
