---------------------------- MODULE MCDiscovery ----------------------------
(* Discovery on small address spaces, with every set of devices.           *)
EXTENDS Discovery

NoSkip == {<<>>}
OneSkip == {<<>>, <<1>>}

NoLimit == {0}
AnyLimit == {0, 2}

Reliable == {}
Misses == {"miss"}
AllFaults == Fault
=============================================================================
