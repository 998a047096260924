--------------------------- MODULE SerialReceive ---------------------------
(***************************************************************************)
(* The receiving half of AsyncSerialTransport: the receive loop            *)
(* (transport/serial_transport.py), which reads whatever the serial port   *)
(* has, the FrameBuffer (transport/frame_buffer.py), which cuts it into    *)
(* packets, and the bounded queue from which the protocol takes them.      *)
(*                                                                         *)
(* The buffer and the packets are sequences of positions in the stream of  *)
(* bytes that the port delivers, so that a byte can be followed.  Steps of *)
(* the loop within one call of extract_all_frames() are actions of their   *)
(* own, during which nobody else runs.                                     *)
(***************************************************************************)
EXTENDS Framing

CONSTANTS
    Wires,             \* the streams that may arrive: records with an adapter,
                       \* a sequence of bytes, and the pieces that it is made of
    MaxSize,           \* max_size of the buffer; 1024 in the code
    MaxIterations,     \* frames looked for after a read; 10 in the code
    QueueSize,         \* queue_maxsize of the serial configuration
    Losses             \* bound: numbers of bytes that a new connection loses

ASSUME ReceiveAssumption ==
    /\ \A w \in DOMAIN Wires : Wires[w].adapter \in Adapter /\ Wires[w].bytes \in Seq(Byte)
    /\ MaxSize \in Nat
    /\ MaxIterations \in Nat \ {0}
    /\ QueueSize \in Nat \ {0}
    /\ Losses \subseteq Nat

VARIABLES
    wire,              \* which of them arrives
    taken,             \* how many of its bytes have left the port
    buffer,            \* _buffer
    stalled,           \* _stalled_length
    phase,             \* the loop awaits a "read", or works on it: "extract"
    steps,             \* iterations of the last extract_all_frames()
    extracted,         \* the packets that were found, in their order
    rx_queue,          \* those that wait in _rx_queue
    interrupted        \* the transport has been disconnected and connected again

bufferVars == <<buffer, stalled>>
packetVars == <<extracted, rx_queue>>
vars == <<wire, taken, bufferVars, phase, steps, packetVars, interrupted>>

NoLength == -1         \* _stalled_length is None

stream == Wires[wire]

Bytes(places) == [i \in DOMAIN places |-> stream.bytes[places[i]]]
Places(from, to) == [i \in 1..(to - from) |-> from + i]
Drop(s, n) == SubSeq(s, n + 1, Len(s))

FrameAtFront == FindFrame(stream.adapter, Bytes(buffer))

Init ==
    /\ wire \in DOMAIN Wires
    /\ taken = 0
    /\ buffer = <<>>
    /\ stalled = NoLength
    /\ phase = "read"
    /\ steps = 0
    /\ extracted = <<>>
    /\ rx_queue = <<>>
    /\ interrupted = FALSE

-----------------------------------------------------------------------------
(* The port delivers n bytes; the buffer takes them.  A read that times    *)
(* out delivers none, and the loop reads again without looking for frames. *)
Read(n) ==
    /\ phase = "read"
    /\ taken' = taken + n
    /\ buffer' = buffer \o Places(taken, taken + n)
    /\ steps' = 0
    /\ phase' = "extract"
    /\ UNCHANGED <<wire, stalled, packetVars, interrupted>>

(* extract_all_frames() goes on.                                           *)
Extracting ==
    /\ phase = "extract"
    /\ Len(buffer) >= 5
    /\ steps < MaxIterations
    /\ steps' = steps + 1
    /\ UNCHANGED <<wire, taken, interrupted>>

(* put_nowait(): the queue drops a packet that finds it full.              *)
Put(packet) ==
    /\ extracted' = Append(extracted, packet)
    /\ rx_queue' = IF Len(rx_queue) < QueueSize THEN Append(rx_queue, packet) ELSE rx_queue

(* Mutant of Consumed: the last byte of the frame is left behind.          *)
ConsumedShort(size) == Drop(buffer, size - 1)

Consumed(size) == Drop(buffer, size)

(* extract_frame(): the buffer starts with a complete frame, which is      *)
(* consumed whether or not a packet is in it.                              *)
TakeFrame ==
    /\ Extracting
    /\ FrameAtFront > 0
    /\ IF Parses(stream.adapter, Bytes(buffer), FrameAtFront)
       THEN LET part == Payload(stream.adapter, FrameAtFront)
            IN  Put(SubSeq(buffer, part[1], part[2]))
       ELSE UNCHANGED packetVars
    /\ buffer' = Consumed(FrameAtFront)
    /\ stalled' = NoLength
    /\ UNCHANGED phase

(* Mutant of Resyncs: nothing is looked for behind the first byte.         *)
ResyncsNever(offset) == FALSE

(* A complete frame starts offset bytes behind the front of the buffer.    *)
Resyncs(offset) == FindFrame(stream.adapter, Bytes(Drop(buffer, offset))) > 0

Offsets == {offset \in 1..Len(buffer) - 5 : Resyncs(offset)}

(* _find_resync_offset(): what lies before the first such frame is         *)
(* discarded.                                                              *)
Resync ==
    /\ Extracting
    /\ FrameAtFront = 0
    /\ \E offset \in Offsets :
          /\ \A other \in Offsets : offset <= other
          /\ buffer' = Drop(buffer, offset)
    /\ stalled' = NoLength
    /\ UNCHANGED <<phase, packetVars>>

(* _advance_stall_tracking() and _handle_overflow(): the oldest byte goes  *)
(* if the buffer is as long as it was the last time, and one more if it is *)
(* longer than max_size.  The loop ends unless a byte went.                *)
Stall ==
    LET left == IF Len(buffer) = stalled THEN Tail(buffer) ELSE buffer
    IN  /\ Extracting
        /\ FrameAtFront = 0
        /\ Offsets = {}
        /\ stalled' = Len(left)
        /\ buffer' = IF Len(left) > MaxSize THEN Tail(left) ELSE left
        /\ phase' = IF buffer' = buffer THEN "read" ELSE "extract"
        /\ UNCHANGED packetVars

(* The loop ends: fewer than 5 bytes are left, or the limit is reached.    *)
EndExtract ==
    /\ phase = "extract"
    /\ Len(buffer) < 5 \/ steps = MaxIterations
    /\ phase' = "read"
    /\ UNCHANGED <<wire, taken, bufferVars, steps, packetVars, interrupted>>

(* receive(): the protocol takes the oldest packet.                        *)
Receive ==
    /\ phase = "read"
    /\ rx_queue # <<>>
    /\ rx_queue' = Tail(rx_queue)
    /\ UNCHANGED <<wire, taken, bufferVars, phase, steps, extracted, interrupted>>

(* disconnect() and connect(): the bytes of a read that was cancelled, and *)
(* those that reset_input_buffer() finds, are lost.  The buffer and the    *)
(* queue stay.  Bounds: once, and Losses.                                  *)
Reconnect(n) ==
    /\ phase = "read"
    /\ ~interrupted
    /\ taken + n <= Len(stream.bytes)
    /\ interrupted' = TRUE
    /\ taken' = taken + n
    /\ UNCHANGED <<wire, bufferVars, phase, steps, packetVars>>

Next ==
    \/ \E n \in 1..Len(stream.bytes) - taken : Read(n)
    \/ TakeFrame
    \/ Resync
    \/ Stall
    \/ EndExtract
    \/ Receive
    \/ \E n \in Losses : Reconnect(n)

Spec == Init /\ [][Next]_vars

-----------------------------------------------------------------------------
Packet == Seq(1..taken)

\* Every variable has a value of its type.
TypeOK ==
    /\ wire \in DOMAIN Wires
    /\ taken \in 0..Len(stream.bytes)
    /\ buffer \in Seq(1..taken)
    /\ stalled \in Int
    /\ phase \in {"read", "extract"}
    /\ steps \in 0..MaxIterations
    /\ extracted \in Seq(Packet)
    /\ rx_queue \in Seq(Packet)
    /\ Len(rx_queue) <= QueueSize
    /\ interrupted \in BOOLEAN

Increasing(s) == \A i, j \in 1..Len(s) : i < j => s[i] < s[j]

\* Every byte of the one has arrived before every byte of the other.
Before(first, second) ==
    \A i \in 1..Len(first), j \in 1..Len(second) : first[i] < second[j]

InOrder(packets) ==
    /\ \A k \in 1..Len(packets) : Increasing(packets[k])
    /\ \A k, l \in 1..Len(packets) : k < l => Before(packets[k], packets[l])

(* No byte is used twice, within a packet or in two, and the packets come  *)
(* out, and wait in the queue, in the order of their bytes: also when      *)
(* garbage is cut out, when the buffer overflows, when the queue is full,  *)
(* and when the buffer and the queue outlive a connection.                 *)
BytesInOrderOnce ==
    /\ InOrder(extracted)
    /\ InOrder(rx_queue)
    /\ \A k \in 1..Len(extracted) : Before(extracted[k], buffer)

-----------------------------------------------------------------------------
(* Streams of frames.                                                      *)

\* The last and the first byte of a piece of a stream.
LastByte(w, k) == w.last[k]
FirstByte(w, k) == LastByte(w, k) - Len(w.pieces[k].bytes) + 1

IsFrame(w, k) == w.pieces[k].kind # "noise"

\* The pieces of a stream lie in it side by side.
ASSUME PiecesAssumption ==
    \A w \in DOMAIN Wires : \A k \in DOMAIN Wires[w].pieces :
        LET s == Wires[w]
            bytes == s.pieces[k].bytes
        IN  /\ bytes \in Seq(Byte)
            /\ LastByte(s, k) \in 0..Len(s.bytes)
            /\ FirstByte(s, k) >= 1
            /\ \A i \in 1..Len(bytes) : bytes[i] = s.bytes[FirstByte(s, k) + i - 1]
            /\ \A l \in DOMAIN s.pieces \ {k} :
                  LastByte(s, k) < FirstByte(s, l) \/ LastByte(s, l) < FirstByte(s, k)

(* A frame that the buffer finds when it is whole: it has the 5 bytes that *)
(* the loop waits for, and it fits in the buffer.  The latter needs room   *)
(* for the bytes that one call of extract_all_frames() drops when a read   *)
(* makes the buffer as long as it was before an overflow.                  *)
Findable(adapter, bytes) ==
    /\ Len(bytes) >= 5
    /\ Len(bytes) + MaxIterations <= MaxSize + 2
    /\ FindFrame(adapter, bytes) = Len(bytes)

(* A stream without look-alikes.  A frame is found where one starts, and   *)
(* as long as it is; not in noise, and not in a frame that is still        *)
(* arriving.                                                               *)
Clean(w) ==
    /\ \A k \in DOMAIN w.pieces : IsFrame(w, k) => Findable(w.adapter, w.pieces[k].bytes)
    /\ \A from \in 1..Len(w.bytes) : \A to \in from..Len(w.bytes) :
          LET size == FindFrame(w.adapter, SubSeq(w.bytes, from, to))
          IN  size > 0 =>
                \E k \in DOMAIN w.pieces :
                   /\ IsFrame(w, k)
                   /\ \/ from = FirstByte(w, k) /\ size = Len(w.pieces[k].bytes)
                      \/ from > FirstByte(w, k) /\ LastByte(w, k) \in from..to

CleanWires == {w \in DOMAIN Wires : Clean(Wires[w])}

(* The places of the packet in a frame, if the adapter parses it.          *)
PacketPlaces(w, k) ==
    LET bytes == w.pieces[k].bytes
        part == Payload(w.adapter, Len(bytes))
        before == FirstByte(w, k) - 1
    IN  IF Parses(w.adapter, bytes, Len(bytes))
        THEN {Places(before + part[1] - 1, before + part[2])} ELSE {}

Extracted == {extracted[k] : k \in DOMAIN extracted}

(* No connection was lost, and nothing in the stream looks like a frame    *)
(* that is none.                                                           *)
Undisturbed == ~interrupted /\ wire \in CleanWires

(* Frames come out whole, nothing else does, and none waits.  Without      *)
(* look-alikes no packet is cut out of garbage or across two frames, and   *)
(* every frame that has arrived whole is out of the buffer when the loop   *)
(* reads again, however the reads cut the stream, and whatever garbage     *)
(* surrounds it; unless the limit of iterations stopped the loop.          *)
WholeFramesComeOut ==
    Undisturbed =>
        /\ \A places \in Extracted : \E k \in DOMAIN stream.pieces :
              IsFrame(stream, k) /\ places \in PacketPlaces(stream, k)
        /\ phase = "read" /\ steps < MaxIterations
           => \A k \in DOMAIN stream.pieces :
                 IsFrame(stream, k) /\ LastByte(stream, k) <= taken
                 => PacketPlaces(stream, k) \subseteq Extracted

=============================================================================
