----------------------------- MODULE MCReceive -----------------------------
(* Streams of real packets for ReceivePath. *)
EXTENDS ReceivePath

Controller == <<69, 78, 0, 0, 0, 0>>
Device == <<18, 52, 0, 0, 0, 1>>
OtherDevice == <<18, 52, 0, 0, 0, 2>>

Get(pid) ==
    [dest |-> Device, src |-> Controller, txn |-> 7, port |-> 1, sub |-> 0,
     cc |-> GET_COMMAND, pid |-> pid, data |-> <<>>]
GetAddress == Get(240)
SetAddress == [GetAddress EXCEPT !.cc = SET_COMMAND, !.sub = 513, !.data = <<1, 44>>]
Mute == [GetAddress EXCEPT !.cc = DISCOVERY_COMMAND, !.pid = DISC_MUTE]

Answer(request, data) == Reply(Encode(request), 0, data)
Own(adapter, request, data) ==
    LET reply == Reply(Arrives(adapter, request), 0, data)
    IN  Frame("own", adapter, Encode(reply), {reply})
Nak(adapter, request) ==
    LET reply == Reply(Arrives(adapter, request), 2, <<0, 6>>)
    IN  Frame("own", adapter, Encode(reply), {reply})
ForeignReplies ==
    <<[Answer(GetAddress, <<1>>) EXCEPT !.src = OtherDevice],
      [Answer(GetAddress, <<1>>) EXCEPT !.pid = 241],
      [Answer(GetAddress, <<1>>) EXCEPT !.txn = 8],
      [Answer(GetAddress, <<1>>) EXCEPT !.cc = ResponseClass(SET_COMMAND)],
      [Answer(GetAddress, <<1>>) EXCEPT !.dest = OtherDevice]>>
Foreign(adapter, reply) == Frame("foreign", adapter, Encode(reply), {reply})

\* One byte of the packet has another value when it arrives.
Changed(b, i, delta) == [b EXCEPT ![i] = (@ + delta) % 256]
Damaged(adapter, request, data, i, delta) ==
    LET reply == Reply(Arrives(adapter, request), 0, data)
    IN  Frame("damaged", adapter, Changed(Encode(reply), i, delta), {reply})

BranchOf(adapter, uid, preamble) ==
    Frame("branch", adapter, Branch(uid, preamble), {uid})
Unhandled == Piece("other", EnttecMessage(3, <<>>), <<>>, {})

Asked(adapter, pieces) == Stream(adapter, GetAddress, pieces)

\* What any adapter may deliver: answers, garbage around one, others' answers.
AnswerStreams(adapter) ==
    <<Asked(adapter, <<Own(adapter, GetAddress, <<1, 44>>)>>),
      Stream(adapter, SetAddress, <<Own(adapter, SetAddress, <<>>)>>),
      Stream(adapter, SetAddress, <<Nak(adapter, SetAddress)>>),
      Stream(adapter, Mute, <<Own(adapter, Mute, <<0, 0>>)>>),
      Asked(adapter, <<Noise(<<1, 2, 3>>), Own(adapter, GetAddress, <<1, 44>>),
                       Noise(<<4, 5, 6, 7, 8, 9>>)>>),
      Asked(adapter, <<BranchOf(adapter, Device, 7), Own(adapter, GetAddress, <<1>>)>>)>>
    \o [k \in DOMAIN ForeignReplies |-> Asked(adapter, <<Foreign(adapter, ForeignReplies[k])>>)]

\* An answer with one byte changed, at each of the places in turn.
DamagedStreams(adapter, places, delta) ==
    [k \in DOMAIN places |->
        Asked(adapter, <<Damaged(adapter, GetAddress, <<1, 44>>, places[k], delta)>>)]

Short(byte) == Frame("other", "enttec", <<byte>>, {})

EnttecStreams ==
    <<Asked("enttec", <<Unhandled, Own("enttec", GetAddress, <<1>>)>>),
      Asked("enttec", [k \in 1..3 |-> Unhandled] \o [k \in 1..2 |-> Short(k)]),
      Asked("enttec", <<Noise([i \in 1..MaxSize + 2 |-> i]), Short(1)>>)>>

\* A frame of 35 bytes is the longest that is sure to be found.
Longest == [i \in 1..(MaxSize + 2 - MaxIterations - 26) |-> i]

BareStreams ==
    <<Asked("bare", <<BranchOf("bare", Device, 1)>>),
      Asked("bare", <<BranchOf("bare", Device, 3)>>),
      Asked("bare", [k \in 1..2 |-> Own("bare", GetAddress, <<1, k>>)]),
      Asked("bare", <<Noise([i \in 1..5 |-> i]), Own("bare", GetAddress, Longest)>>)>>

\* RAW passes on what each read brings, and a length may look like any byte.
GenericStreams ==
    <<Asked("line", <<Own("line", GetAddress, <<1, 44>>)>>),
      Asked("delimiter", <<Own("delimiter", GetAddress, <<1, 44>>)>>),
      Asked("line", <<BranchOf("line", Device, 2)>>),
      Asked("delimiter", <<BranchOf("delimiter", Device, 2)>>),
      Asked("length", <<Piece("other", <<6, 201, 202, 203, 204, 205, 206>>, <<>>, {})>>),
      Asked("length", <<Piece("other", <<6, 1, 202, 3, 204, 0, 206>>, <<>>, {})>>),
      Asked("raw", <<Noise([i \in 1..8 |-> i])>>)>>

AllStreams ==
    AnswerStreams("enttec") \o AnswerStreams("bare")
        \o DamagedStreams("enttec", <<1, 3, 16, 17, 24, 25, 28>>, 1) \o DamagedStreams("bare", [i \in 1..28 |-> i], 255)
        \o EnttecStreams \o BareStreams \o GenericStreams

\* The value of Wires: a name for AllStreams, which TLC evaluates once.
Streams == AllStreams

=============================================================================
