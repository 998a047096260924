------------------------------ MODULE Packets ------------------------------
(***************************************************************************)
(* RDM packets (packets/, protocols/rdm_validator.py and                   *)
(* protocols/manchester_codec.py): their layout in bytes, what the decoder *)
(* makes of any sequence of bytes, and what is checked of a request and of *)
(* its answer.  A UID is its six bytes, most significant first.            *)
(***************************************************************************)
EXTENDS Framing

DISCOVERY_COMMAND == 16
GET_COMMAND == 32
SET_COMMAND == 48

\* The class of the answers to a class of commands.
ResponseClass(command) == command + 1
CommandClass == UNION {{c, ResponseClass(c)} : c \in {DISCOVERY_COMMAND, GET_COMMAND, SET_COMMAND}}

ResponseType == 0..3    \* ACK, ACK_TIMER, NAK, ACK_OVERFLOW

DISC_UNIQUE_BRANCH == 1
DISC_MUTE == 2
DISC_UN_MUTE == 3
QUEUED_MESSAGE == 32

HEADER == 24            \* bytes before the parameter data
MAX_PDL == 231
MAX_SUB_DEVICE == 4095
BROADCAST_SUB_DEVICE == 65535
BROADCAST_UID == [i \in 1..6 |-> 255]

Uid == [1..6 -> Byte]

\* Big-endian numbers of 16 bits.
MAX_WORD == 256 * 256 - 1
Number16 == 0..MAX_WORD
Pair(n) == <<n \div 256, n % 256>>
Word(high, low) == 256 * high + low

(* The sum of all bytes: a recursive function, for the sake of the proofs. *)
ByteSum(b) ==
    LET upto[n \in 0..Len(b)] == IF n = 0 THEN 0 ELSE upto[n - 1] + b[n]
    IN  upto[Len(b)]

(* Mutant of Checksum: it stops at the end of the header.                  *)
ChecksumOfHeader(b) == ByteSum(SubSeq(b, 1, HEADER)) % (MAX_WORD + 1)

\* The 16-bit sum of all bytes.
Checksum(b) == ByteSum(b) % (MAX_WORD + 1)

Summed(b) == b \o Pair(Checksum(b))

-----------------------------------------------------------------------------
(* Requests.                                                               *)

\* RDMRequest.__post_init__(): what a request can be made of.
CanBuild(request) ==
    /\ request.txn \in Byte
    /\ request.sub <= MAX_SUB_DEVICE
    /\ Len(request.data) <= MAX_PDL

\* encode_rdm_request()
Encode(request) ==
    Summed(<<RDM, 1, HEADER + Len(request.data)>> \o request.dest \o request.src
            \o <<request.txn, request.port, 0>> \o Pair(request.sub) \o <<request.cc>>
            \o Pair(request.pid) \o <<Len(request.data)>> \o request.data)

ValidUid(uid) == uid = BROADCAST_UID \/ uid[1] # 0 \/ uid[2] # 0
ValidSubDevice(sub) == sub <= MAX_SUB_DEVICE \/ sub = BROADCAST_SUB_DEVICE

\* validate_request()
ValidRequest(request) ==
    /\ ValidUid(request.dest)
    /\ ValidUid(request.src)
    /\ ValidSubDevice(request.sub)
    /\ request.cc \in {GET_COMMAND, SET_COMMAND, DISCOVERY_COMMAND}
    /\ Len(request.data) <= MAX_PDL
    /\ request.pid \in Number16
    /\ ~(request.dest = BROADCAST_UID /\ request.cc = GET_COMMAND)

\* RdmProtocolDetector.is_discovery_packet(), for an encoded packet.
IsDiscovery(b) == Len(b) >= 23 /\ Word(b[22], b[23]) \in {DISC_UNIQUE_BRANCH, DISC_MUTE, DISC_UN_MUTE}

-----------------------------------------------------------------------------
(* Answers.                                                                *)

\* decode_rdm_response() finds no RDM packet at all.
Ignored(b) == Len(b) < HEADER + 2 \/ b[1] # RDM \/ b[2] # 1

\* It raises PacketDecodeError.
Malformed(b) ==
    \/ b[17] \notin ResponseType
    \/ b[21] \notin CommandClass
    \/ Len(b) < HEADER + b[24] + 2

Decodes(b) == ~Ignored(b) /\ ~Malformed(b)

(* The RDMResponse.  The length byte is not read: b[24] alone tells where  *)
(* the data and the checksum are.                                          *)
Decode(b) ==
    LET end == HEADER + b[24]
    IN  [dest |-> SubSeq(b, 4, 9),
         src |-> SubSeq(b, 10, 15),
         txn |-> b[16],
         type |-> b[17],
         count |-> b[18],
         sub |-> Word(b[19], b[20]),
         cc |-> b[21],
         pid |-> Word(b[22], b[23]),
         data |-> SubSeq(b, HEADER + 1, end),
         checksum |-> Pair(Checksum(SubSeq(b, 1, end))) = SubSeq(b, end + 1, end + 2)]

\* validate_response()
ValidResponse(response, strict) ==
    /\ ValidUid(response.src)
    /\ ValidUid(response.dest)
    /\ ValidSubDevice(response.sub)
    /\ response.type \in ResponseType
    /\ Len(response.data) <= MAX_PDL
    /\ response.count <= 255
    /\ strict => response.checksum

(* Mutant of Matches: the sender of the answer is not looked at.           *)
MatchesAnySender(request, response) ==
    /\ request.txn = response.txn
    /\ response.dest = request.src
    /\ response.pid \in {request.pid, QUEUED_MESSAGE}
    /\ response.cc = ResponseClass(request.cc)

\* validate_request_response_match()
Matches(request, response) ==
    /\ request.txn = response.txn
    /\ response.src = request.dest
    /\ response.dest = request.src
    /\ response.pid \in {request.pid, QUEUED_MESSAGE}
    /\ response.cc = ResponseClass(request.cc)

-----------------------------------------------------------------------------
(* Answers to DISC_UNIQUE_BRANCH.                                          *)

\* ManchesterDiscoveryDecoder.decode() finds one complete answer and no more.
DecodesUid(b) == FindDiscovery(b) > 0 /\ FindDiscovery(b) = Len(b)

\* The bits that two bytes have in common, and those that either has.
CommonBit(x, y, bit) == IF (x \div bit) % 2 = 1 /\ (y \div bit) % 2 = 1 THEN bit ELSE 0
BitAnd(x, y) ==
    CommonBit(x, y, 1) + CommonBit(x, y, 2) + CommonBit(x, y, 4) + CommonBit(x, y, 8)
        + CommonBit(x, y, 16) + CommonBit(x, y, 32) + CommonBit(x, y, 64)
        + CommonBit(x, y, 128)
BitOr(x, y) == x + y - BitAnd(x, y)

\* The UID in it.  The checksum in the last four bytes is not looked at.
DecodeUid(b) ==
    LET start == FindDiscovery(b) - MANCHESTER_DATA_LEN
    IN  [i \in 1..6 |-> BitAnd(b[start + 2 * i - 1], b[start + 2 * i])]

=============================================================================
