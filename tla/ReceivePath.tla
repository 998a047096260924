---------------------------- MODULE ReceivePath ----------------------------
(***************************************************************************)
(* From a request to its answer (protocols/rdm_e120.py,                    *)
(* _send_and_receive() and _receive_loop()): the request is encoded and    *)
(* framed, a device reads the packet out of the wire and answers, the      *)
(* serial port delivers the answer among other bytes, and what comes out   *)
(* of the receive queue is decoded, validated and compared with the        *)
(* request.                                                                *)
(*                                                                         *)
(* The streams are built of pieces, each a frame or noise.  What devices   *)
(* and widgets send is modelled from how the code reads it.                *)
(***************************************************************************)
EXTENDS SerialReceive, Packets, SequencesExt

-----------------------------------------------------------------------------
(* The other side of the wire.                                             *)

\* A widget passes the packet in a message of label 7 or 11 on to the line.
OnTheLine(adapter, b) ==
    CASE adapter = "enttec" -> SubSeq(b, 5, Len(b) - 1)
      [] adapter = "length" -> Tail(b)
      [] OTHER -> b

\* A device reads the fields of a request from their places, and answers.
Reply(b, type, data) ==
    [dest |-> SubSeq(b, 10, 15), src |-> SubSeq(b, 4, 9), txn |-> b[16], port |-> type,
     sub |-> Word(b[19], b[20]), cc |-> ResponseClass(b[21]), pid |-> Word(b[22], b[23]),
     data |-> data]

\* The sixteen bytes of a discovery answer hold each byte of it twice.
Manchester(uid) ==
    LET sum == Len(uid) * 255 + ByteSum(uid)
        b == uid \o Pair(sum)
    IN  [i \in 1..16 |-> IF i % 2 = 1 THEN BitOr(b[(i + 1) \div 2], 170)
                                       ELSE BitOr(b[i \div 2], 85)]

Branch(uid, preamble) ==
    [i \in 1..preamble |-> RDM_DISCOVERY] \o <<DISCOVERY_START>> \o Manchester(uid)

\* An adapter hands a packet over, with a status byte if it is a widget.
Delivered(adapter, b) ==
    CASE adapter = "enttec" -> EnttecMessage(RECEIVED_DMX_PACKET, <<0>> \o b)
      [] adapter \in {"line", "delimiter"} -> Delimited(b)
      [] adapter = "length" -> <<Len(b)>> \o b
      [] adapter \in {"bare", "raw"} -> b

(* A piece of a stream: a frame with the packet in it and, if it is an     *)
(* answer, the fields that the device meant; or noise.                     *)
Piece(kind, bytes, packet, meant) ==
    [kind |-> kind, bytes |-> bytes, packet |-> packet, meant |-> meant]

Noise(bytes) == Piece("noise", bytes, <<>>, {})
Frame(kind, adapter, packet, meant) ==
    Piece(kind, Delivered(adapter, packet), packet, meant)

\* The bytes of the first k pieces.
Joined(pieces, k) == FlattenSeq([l \in 1..k |-> pieces[l].bytes])

Stream(adapter, request, pieces) ==
    [adapter |-> adapter,
     request |-> request,
     pieces |-> pieces,
     last |-> [k \in DOMAIN pieces |-> Len(Joined(pieces, k))],
     bytes |-> Joined(pieces, Len(pieces))]

\* A request that passes every check and is written to the port.
Sends(adapter, request) ==
    /\ CanBuild(request)
    /\ ValidRequest(request)
    /\ CanFrame(adapter, Encode(request))

\* What a device makes of a request that the transport sends to it.
Arrives(adapter, request) ==
    OnTheLine(adapter,
              FrameRequest(adapter, Encode(request), IsDiscovery(Encode(request))))

-----------------------------------------------------------------------------
(* The receive loop of the protocol.                                       *)

\* A packet is routed to the discovery queue by its first byte alone.
Routed(b) == IF b # <<>> /\ b[1] = RDM_DISCOVERY THEN "discovery" ELSE "response"

\* _receive_loop(): the packet becomes a response that can be correlated.
Correlated(b) ==
    Routed(b) = "response" /\ Decodes(b) /\ ValidResponse(Decode(b), FALSE)

\* correlate_response(): the number alone makes it the answer to the request.
Taken(request, b) == Correlated(b) /\ Decode(b).txn = request.txn

\* _send_and_receive(): an answer that does not match is logged, and returned.
Warned(request, b) == ~Matches(request, Decode(b))

-----------------------------------------------------------------------------
(* What the sender of a packet meant by it.                                *)
Fields == {"dest", "src", "txn", "sub", "cc", "pid", "data"}
Means(response, reply) ==
    response.type = reply.port /\ \A f \in Fields : response[f] = reply[f]

(* The length byte agrees with the length of the data.                     *)
LengthAgrees(b) == b[3] = HEADER + b[24]

-----------------------------------------------------------------------------
(* What the senders put into the streams.                                  *)

\* The fields of a request or of an answer have values of their types.
WellFormed(packet) ==
    /\ {packet.dest, packet.src} \subseteq Uid
    /\ {packet.txn, packet.port, packet.cc} \subseteq Byte
    /\ {packet.sub, packet.pid} \subseteq Number16
    /\ packet.data \in Seq(Byte)
    /\ Len(packet.data) <= MAX_PDL

\* The device that was asked answers what it has read.
IsAnswer(w, reply) ==
    /\ reply.port \in ResponseType
    /\ reply = Reply(Arrives(w.adapter, w.request), reply.port, reply.data)

\* The answer of another device, to another controller or to another request.
IsForeign(request, reply) ==
    \/ reply.src # request.dest
    \/ reply.dest # request.src
    \/ reply.txn # request.txn
    \/ reply.pid \notin {request.pid, QUEUED_MESSAGE}
    \/ reply.cc # ResponseClass(request.cc)

\* The line has changed one byte of a packet.
OneByteChanged(b, damaged) ==
    \E i \in DOMAIN b : damaged[i] \in Byte \ {b[i]} /\ damaged = [b EXCEPT ![i] = damaged[i]]

\* One answer is meant by the piece, and sent.
Carries(w, piece, reply) ==
    /\ piece.meant = {reply}
    /\ WellFormed(reply)
    /\ piece.bytes = Delivered(w.adapter, piece.packet)

Sent(w, piece) ==
    \/ piece.kind = "noise"
    \/ /\ piece.kind = "own"
       /\ \E reply \in piece.meant : /\ Carries(w, piece, reply)
                                     /\ IsAnswer(w, reply)
                                     /\ piece.packet = Encode(reply)
    \/ /\ piece.kind = "foreign"
       /\ \E reply \in piece.meant : /\ Carries(w, piece, reply)
                                     /\ IsForeign(w.request, reply)
                                     /\ piece.packet = Encode(reply)
    \/ /\ piece.kind = "damaged"
       /\ \E reply \in piece.meant : /\ Carries(w, piece, reply)
                                     /\ OneByteChanged(Encode(reply), piece.packet)
    \/ /\ piece.kind = "branch"
       /\ \E uid \in Uid \cap piece.meant, preamble \in 1..MAX_PREAMBLE_BYTES :
             /\ piece.meant = {uid}
             /\ piece.packet = Branch(uid, preamble)
             /\ piece.bytes = Delivered(w.adapter, piece.packet)
    \/ /\ piece.kind = "other"     \* a packet that is no answer, or none
       /\ LET part == Payload(w.adapter, Len(piece.bytes))
          IN  Parses(w.adapter, piece.bytes, Len(piece.bytes))
              => ~Correlated(SubSeq(piece.bytes, part[1], part[2]))

ASSUME SendersAssumption ==
    \A w \in DOMAIN Wires :
        /\ WellFormed(Wires[w].request)
        /\ \A k \in DOMAIN Wires[w].pieces : Sent(Wires[w], Wires[w].pieces[k])

-----------------------------------------------------------------------------
(* A response whose checksum is right, and whose length byte agrees with   *)
(* its data, says what a device has sent: a byte that the line changed,    *)
(* bytes that got lost, and the parts of two answers that a lost connection*)
(* left behind are noticed.  (The code does not read the length byte:      *)
(* without it, an answer that loses a zero has the same checksum.)         *)
DamageIsSeen ==
    \A places \in Extracted :
        LET b == Bytes(places)
        IN  Correlated(b) /\ Decode(b).checksum /\ LengthAgrees(b)
            => \E k \in DOMAIN stream.pieces :
                  /\ stream.pieces[k].kind # "branch"
                  /\ \E reply \in stream.pieces[k].meant : Means(Decode(b), reply)

\* A delimiter that the packet ends with itself is not sent twice, and cut off.
KeepsItsEnd(adapter, b) == adapter = "delimiter" => b[Len(b)] # Newline

(* The answer of the device to the request is taken for it, without a      *)
(* warning, and says what the device meant.  Another's answer is taken for *)
(* it only if its sender has given it the number of the request, and then  *)
(* there is always a warning in the log.  (That is all: the code returns   *)
(* such an answer to the caller as if it were the right one.  And an       *)
(* answer that carries the PID QUEUED_MESSAGE passes for the answer to any *)
(* PID.)  A discovery answer gives its UID, except that the line framing   *)
(* leaves a newline behind it.                                             *)
AnswersAreUnderstood ==
    \A k \in DOMAIN stream.pieces : \A places \in PacketPlaces(stream, k) \cap Extracted :
        LET piece == stream.pieces[k]
            b == Bytes(places)
        IN  /\ /\ piece.kind = "own"
               /\ Sends(stream.adapter, stream.request)
               /\ KeepsItsEnd(stream.adapter, piece.packet)
               => /\ Taken(stream.request, b) /\ ~Warned(stream.request, b)
                  /\ Decode(b).checksum
                  /\ \A reply \in piece.meant : Means(Decode(b), reply)
            /\ piece.kind = "foreign" /\ Taken(stream.request, b) =>
                  /\ Warned(stream.request, b)
                  /\ \A reply \in piece.meant : reply.txn = stream.request.txn
            /\ piece.kind = "branch" =>
                  /\ Routed(b) = "discovery"
                  /\ stream.adapter # "line" =>
                        DecodesUid(b) /\ piece.meant = {DecodeUid(b)}

=============================================================================
