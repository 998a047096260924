------------------------- MODULE MCAsyncTransaction -------------------------
(* Transactions with retries on small instances.                           *)
EXTENDS AsyncTransaction

CONSTANTS t1, t2                 \* model values

TwoTransactions == {t1, t2}

(* packets/types.py: NAKReason has the values 0 to 10, and the default     *)
(* policy makes all of them permanent but PROXY_BUFFER_FULL = 10.          *)
MCDefinedReason == 0 .. 10
MCPermanent == 0 .. 9

(* The samples: PROXY_BUFFER_FULL in two bytes, high byte first, as it is  *)
(* on the wire, of which the code reads the first; in one byte, as the     *)
(* tests of the repository send it; and a manufacturer's own reason.       *)
MCNakData == {<<0, 10>>, <<10>>, <<128, 1>>}
=============================================================================
