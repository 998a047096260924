------------------------------ MODULE Framing ------------------------------
(***************************************************************************)
(* How the interface adapters (transport/adapters/) mark off packets in    *)
(* the byte stream of the serial port, in both directions.  A byte is a    *)
(* number below 256, and a delimiter is one byte, as its default is.       *)
(***************************************************************************)
EXTENDS Integers, Sequences

(* An adapter: the Enttec widget, a bare RS-485 cable, or one of the four  *)
(* framing modes of the generic serial adapter.                            *)
Adapter == {"enttec", "bare", "line", "length", "delimiter", "raw"}

Byte == 0..255
START_OF_MESSAGE == 126
END_OF_MESSAGE == 231
RDM == 204              \* StartCode.RDM
RDM_DISCOVERY == 254    \* StartCode.RDM_DISCOVERY
DISCOVERY_START == 170
Newline == 10

\* Labels of the Enttec messages that the code sends and receives.
RECEIVED_DMX_PACKET == 5
SEND_RDM_PACKET == 7
SEND_RDM_DISCOVERY == 11

MAX_PREAMBLE_BYTES == 7
MANCHESTER_DATA_LEN == 16
MAX_ENTTEC_DATA == 600

-----------------------------------------------------------------------------
(* What is received.  A size of 0 says that no frame is complete.          *)

\* The frame that b starts with is complete if it has come to that size.
IfWhole(b, size) == IF Len(b) >= size THEN size ELSE 0

EnttecSize(b) == 5 + b[3] + 256 * b[4]

FindEnttec(b) ==
    IF /\ Len(b) >= 5
       /\ b[1] = START_OF_MESSAGE
       /\ Len(b) >= EnttecSize(b)
       /\ b[EnttecSize(b)] = END_OF_MESSAGE
    THEN EnttecSize(b) ELSE 0

PreambleLen(b) ==
    CHOOSE n \in 0..MAX_PREAMBLE_BYTES :
        /\ n <= Len(b)
        /\ \A i \in 1..n : b[i] = RDM_DISCOVERY
        /\ (n < MAX_PREAMBLE_BYTES /\ n < Len(b)) => b[n + 1] # RDM_DISCOVERY

FindDiscovery(b) ==
    LET start == PreambleLen(b) + 1
    IN  IF start > 1 /\ start <= Len(b) /\ b[start] = DISCOVERY_START
        THEN IfWhole(b, start + MANCHESTER_DATA_LEN) ELSE 0

FindBare(b) ==
    CASE b # <<>> /\ b[1] = RDM_DISCOVERY -> FindDiscovery(b)
      [] Len(b) >= 3 /\ b[1] = RDM -> IfWhole(b, b[3] + 2)
      [] OTHER -> 0

FindDelimiter(b) ==
    LET at == {i \in 1..Len(b) : b[i] = Newline}
    IN  IF at = {} THEN 0 ELSE CHOOSE i \in at : \A j \in at : i <= j

FindLength(b) == IF b = <<>> THEN 0 ELSE IfWhole(b, 1 + b[1])

\* find_frame_length()
FindFrame(adapter, b) ==
    CASE adapter = "enttec" -> FindEnttec(b)
      [] adapter = "bare" -> FindBare(b)
      [] adapter \in {"line", "delimiter"} -> FindDelimiter(b)
      [] adapter = "length" -> FindLength(b)
      [] adapter = "raw" -> Len(b)

(* parse_rdm_response() of a buffer that a frame is found in: the first    *)
(* and the last byte of the packet in it.  An Enttec packet follows the    *)
(* header and the status byte, which is not looked at.                     *)
Payload(adapter, size) ==
    CASE adapter = "enttec" -> <<6, size - 1>>
      [] adapter = "length" -> <<2, size>>
      [] adapter = "delimiter" -> <<1, size - 1>>
      [] adapter \in {"bare", "line", "raw"} -> <<1, size>>

\* Whether it holds one: the other Enttec messages are consumed in silence.
Parses(adapter, b, size) ==
    adapter = "enttec" => b[2] = RECEIVED_DMX_PACKET /\ size >= 7

-----------------------------------------------------------------------------
(* What is sent.                                                           *)

\* _frame_message()
EnttecMessage(label, data) ==
    <<START_OF_MESSAGE, label, Len(data) % 256, Len(data) \div 256>>
        \o data \o <<END_OF_MESSAGE>>

Delimited(data) ==
    IF data # <<>> /\ data[Len(data)] = Newline THEN data ELSE Append(data, Newline)

\* Whether framing a packet succeeds; ValueError is logged and nothing is sent.
CanFrame(adapter, data) ==
    /\ adapter = "enttec" => Len(data) <= MAX_ENTTEC_DATA
    /\ adapter = "length" => Len(data) <= 255

\* frame_rdm_request() and frame_rdm_discovery_request()
FrameRequest(adapter, data, discovery) ==
    CASE adapter = "enttec" ->
            EnttecMessage(IF discovery THEN SEND_RDM_DISCOVERY ELSE SEND_RDM_PACKET, data)
      [] adapter \in {"line", "delimiter"} -> Delimited(data)
      [] adapter = "length" -> <<Len(data)>> \o data
      [] adapter \in {"bare", "raw"} -> data

=============================================================================
