--------------------------- MODULE MCRdmProtocol ---------------------------
(* The request/response layer on small instances.                          *)
EXTENDS RdmProtocol

CONSTANTS t1, t2, d, s           \* model values

MCCaller == {t1, t2, d}
MCDiscovery == {d}
MCStopper == {s}
=============================================================================
