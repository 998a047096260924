------------------------------ MODULE DmxOutput ------------------------------
(***************************************************************************)
(* DMX output next to RDM exchanges on one wire                            *)
(* (NetworkManager.send_dmx, scheduling/dmx_scheduler.py, the pause of     *)
(* RDME120Protocol and the transmit side of transport/serial_transport.py).*)
(*                                                                         *)
(* Senders call send_dmx(); the loop of the scheduler repeats the last     *)
(* universe; requesters run RDM exchanges.  All of them put their bytes    *)
(* into one bounded transmit queue, and all of them take the wire lock for *)
(* that: senders and the loop only while they do it, an exchange until it  *)
(* has its answer.  While an exchange runs, a task of its own pauses the   *)
(* loop.  One action is what a task does between two awaits.               *)
(***************************************************************************)
EXTENDS SequencesExt

CONSTANTS
    Sender,            \* the tasks that call send_dmx()
    Requester,         \* the tasks that run RDM exchanges
    Loop,              \* the task of the scheduler
    Frame,             \* the contents of a universe; every call sets all of it
    Blank,             \* the universe of zeros
    TxLimit,           \* queue_maxsize of the transport, 100 in the code
    None               \* no holder, nothing written, nothing shown

ASSUME OutputAssumption ==
    /\ Sender \intersect Requester = {}
    /\ Loop \notin Sender \union Requester
    /\ None \notin Sender \union Requester \union {Loop} \union Frame
    /\ Blank \in Frame
    /\ TxLimit \in Nat \ {0}

VARIABLES
    buffer,            \* _current_frame of the scheduler
    loop,              \* what its loop awaits; "off": there is no loop
    snapshot,          \* the frame the loop will send when it has the lock
    paused,            \* _rdm_pause_event is cleared
    pause,             \* the task that pauses the loop for the running
                       \* exchange: it has not begun ("new"), it sleeps
    ending,            \* the task of an earlier exchange has been cancelled
                       \* in its sleep and has still to run its finally
    lock,              \* the exchange that holds the wire lock
    queue,             \* who waits for it, first come, first served
    pc,                \* what a sender or a requester awaits
    data,              \* the frame a sender is to send
    tx,                \* _tx_queue
    writing,           \* the item _tx_loop is writing
    shown              \* the last frame the fixtures have got

loopVars == <<loop, snapshot>>
pauseVars == <<paused, pause, ending>>
portVars == <<writing, shown>>
vars == <<buffer, loopVars, pauseVars, lock, queue, pc, data, tx, portVars>>

User == Sender \union Requester

DmxItem(f) == [kind |-> "dmx", of |-> f]
Packet(r) == [kind |-> "rdm", of |-> r]
Item == [kind : {"dmx"}, of : Frame] \union [kind : {"rdm"}, of : Requester]

(* _running of the scheduler changes together with its task.               *)
Running == loop # "off"

Init ==
    /\ buffer = Blank
    /\ loop = "off"
    /\ snapshot = None
    /\ paused = FALSE
    /\ pause = "none"
    /\ ending = FALSE
    /\ lock = None
    /\ queue = <<>>
    /\ pc = [u \in User |-> "idle"]
    /\ data = [s \in Sender |-> None]
    /\ tx = <<>>
    /\ writing = None
    /\ shown = None

-----------------------------------------------------------------------------
(* The wire lock and the transmit queue.                                   *)

(* Mutant of Admitted: the lock of an exchange is not respected.           *)
AdmittedAlways == queue = <<>>

(* A newcomer gets the lock at once only if nobody waits for it.           *)
Admitted == lock = None /\ queue = <<>>

Turn(c) == lock = None /\ queue # <<>> /\ Head(queue) = c /\ queue' = Tail(queue)

Join(c) == ~Admitted /\ queue' = Append(queue, c)

Leave(c) == \E i \in DOMAIN queue : queue[i] = c /\ queue' = RemoveAt(queue, i)

Full == Len(tx) >= TxLimit

(* send_dmx_frame(): with a full queue the frame is dropped.               *)
SendFrame(f) == tx' = IF Full THEN tx ELSE Append(tx, DmxItem(f))

-----------------------------------------------------------------------------
(* Senders.                                                                *)

(* The end of send_dmx(): async with the wire lock, send_dmx_frame().      *)
Transmit(s, f) ==
    \/ /\ Admitted
       /\ SendFrame(f)
       /\ pc' = [pc EXCEPT ![s] = "idle"]
       /\ data' = [data EXCEPT ![s] = None]
       /\ UNCHANGED queue
    \/ /\ Join(s)
       /\ pc' = [pc EXCEPT ![s] = "queued"]
       /\ data' = [data EXCEPT ![s] = f]
       /\ UNCHANGED tx

(* Mutant of LeaveLoop: the cancelled loop stays in the queue.             *)
LeaveLoopStays == UNCHANGED queue

(* The loop has been cancelled: it waits for the lock no more.             *)
LeaveLoop == IF loop = "queued" THEN Leave(Loop) ELSE UNCHANGED queue

(* send_dmx(f, repeat=True): the loop is started if there is none.         *)
SendRepeated(s, f) ==
    /\ pc[s] = "idle"
    /\ buffer' = f
    /\ loop' = IF Running THEN loop ELSE "ready"
    /\ Transmit(s, f)
    /\ UNCHANGED <<snapshot, pauseVars, lock, portVars>>

(* send_dmx(f) with no loop.                                               *)
SendOnce(s, f) ==
    /\ pc[s] = "idle"
    /\ ~Running
    /\ buffer' = f
    /\ Transmit(s, f)
    /\ UNCHANGED <<loopVars, pauseVars, lock, portVars>>

(* send_dmx(f) with a loop: stop() cancels it and waits for its end.       *)
SendAndStop(s, f) ==
    /\ pc[s] = "idle"
    /\ Running
    /\ buffer' = f
    /\ loop' = "off"
    /\ snapshot' = None
    /\ LeaveLoop
    /\ pc' = [pc EXCEPT ![s] = "stopping"]
    /\ data' = [data EXCEPT ![s] = f]
    /\ UNCHANGED <<pauseVars, lock, tx, portVars>>

(* stop() returns.  A sender that is cancelled here does not notice it:    *)
(* stop() suppresses CancelledError.                                       *)
SenderResumes(s) ==
    /\ pc[s] = "stopping"
    /\ Transmit(s, data[s])
    /\ UNCHANGED <<buffer, loopVars, pauseVars, lock, portVars>>

SenderTurn(s) ==
    /\ Turn(s)
    /\ SendFrame(data[s])
    /\ pc' = [pc EXCEPT ![s] = "idle"]
    /\ data' = [data EXCEPT ![s] = None]
    /\ UNCHANGED <<buffer, loopVars, pauseVars, lock, portVars>>

SenderCancelled(s) ==
    /\ pc[s] = "queued"
    /\ Leave(s)
    /\ pc' = [pc EXCEPT ![s] = "idle"]
    /\ data' = [data EXCEPT ![s] = None]
    /\ UNCHANGED <<buffer, loopVars, pauseVars, lock, tx, portVars>>

-----------------------------------------------------------------------------
(* The loop of the scheduler.                                              *)

(* The interval is over and there is no pause, or the pause is over: the   *)
(* loop copies the universe and sends it.  A waiter that Event.set() has   *)
(* woken goes on even if the event has been cleared again.                 *)
LoopSends ==
    /\ loop = "woken" \/ (loop = "ready" /\ ~paused)
    /\ \/ /\ Admitted
          /\ SendFrame(buffer)
          /\ loop' = "ready"
          /\ UNCHANGED <<snapshot, queue>>
       \/ /\ Join(Loop)
          /\ snapshot' = buffer
          /\ loop' = "queued"
          /\ UNCHANGED tx
    /\ UNCHANGED <<buffer, pauseVars, lock, pc, data, portVars>>

LoopPauses ==
    /\ loop = "ready" /\ paused
    /\ loop' = "paused"
    /\ UNCHANGED <<buffer, snapshot, pauseVars, lock, queue, pc, data, tx, portVars>>

LoopTurn ==
    /\ Turn(Loop)
    /\ SendFrame(snapshot)
    /\ loop' = "ready"
    /\ snapshot' = None
    /\ UNCHANGED <<buffer, pauseVars, lock, pc, data, portVars>>

-----------------------------------------------------------------------------
(* Requesters.                                                             *)

(* An exchange begins: the task of the pause is created, the packet goes   *)
(* into the queue, and the requester waits for the answer.                 *)
Exchange(r) ==
    /\ ~Full
    /\ lock' = r
    /\ tx' = Append(tx, Packet(r))
    /\ pause' = "new"
    /\ pc' = [pc EXCEPT ![r] = "waiting"]

(* A request that finds the queue full fails at once (TransportError).     *)
Request(r) ==
    /\ pc[r] = "idle"
    /\ \/ /\ Admitted
          /\ Exchange(r)
          /\ UNCHANGED queue
       \/ /\ Join(r)
          /\ pc' = [pc EXCEPT ![r] = "queued"]
          /\ UNCHANGED <<lock, tx, pause>>
    /\ UNCHANGED <<buffer, loopVars, paused, ending, data, portVars>>

RequesterTurn(r) ==
    /\ Turn(r)
    /\ \/ Exchange(r)
       \/ /\ Full
          /\ pc' = [pc EXCEPT ![r] = "idle"]
          /\ UNCHANGED <<lock, tx, pause>>
    /\ UNCHANGED <<buffer, loopVars, paused, ending, data, portVars>>

RequesterCancelled(r) ==
    /\ pc[r] = "queued"
    /\ Leave(r)
    /\ pc' = [pc EXCEPT ![r] = "idle"]
    /\ UNCHANGED <<buffer, loopVars, pauseVars, lock, data, tx, portVars>>

(* The answer has come, or the time is over, or the requester has been     *)
(* cancelled.  The pause is cancelled: one that has not begun never will.  *)
ExchangeEnds(r) ==
    /\ pc[r] = "waiting"
    /\ pc' = [pc EXCEPT ![r] = "idle"]
    /\ lock' = None
    /\ ending' = (ending \/ pause = "sleeping")
    /\ pause' = "none"
    /\ UNCHANGED <<buffer, loopVars, paused, queue, data, tx, portVars>>

-----------------------------------------------------------------------------
(* The pause.                                                              *)

(* The event loop runs what was scheduled first, so that the cancelled     *)
(* task of the exchange before has run its finally by then.                *)
PauseBegins ==
    /\ pause = "new" /\ ~ending
    /\ pause' = "sleeping"
    /\ paused' = TRUE
    /\ UNCHANGED <<buffer, loopVars, ending, lock, queue, pc, data, tx, portVars>>

(* Mutant of Resume: the loop is woken, but the event is not set.          *)
ResumeOnce ==
    /\ loop' = IF loop = "paused" THEN "woken" ELSE loop
    /\ UNCHANGED paused

(* Event.set() wakes the loop.                                             *)
Resume ==
    /\ paused' = FALSE
    /\ loop' = IF loop = "paused" THEN "woken" ELSE loop

(* Mutant of PauseEnds: a task that is cancelled does not resume the loop. *)
PauseEndsUncancelled ==
    /\ \/ /\ pause = "sleeping"
          /\ pause' = "none"
          /\ UNCHANGED ending
          /\ Resume
       \/ /\ ending
          /\ ending' = FALSE
          /\ UNCHANGED <<pause, loop, paused>>
    /\ UNCHANGED <<buffer, snapshot, lock, queue, pc, data, tx, portVars>>

(* The finally of the task: its sleep is over, or has been cancelled.      *)
PauseEnds ==
    /\ \/ /\ pause = "sleeping"
          /\ pause' = "none"
          /\ UNCHANGED ending
       \/ /\ ending
          /\ ending' = FALSE
          /\ UNCHANGED pause
    /\ Resume
    /\ UNCHANGED <<buffer, snapshot, lock, queue, pc, data, tx, portVars>>

-----------------------------------------------------------------------------
(* The transmit loop of the transport.                                     *)

(* Mutant of TakeItem: the item stays in the queue.                        *)
TakeItemPeeks ==
    /\ writing = None
    /\ tx # <<>>
    /\ writing' = Head(tx)
    /\ UNCHANGED <<buffer, loopVars, pauseVars, lock, queue, pc, data, tx, shown>>

TakeItem ==
    /\ writing = None
    /\ tx # <<>>
    /\ writing' = Head(tx)
    /\ tx' = Tail(tx)
    /\ UNCHANGED <<buffer, loopVars, pauseVars, lock, queue, pc, data, shown>>

Written ==
    /\ writing # None
    /\ writing' = None
    /\ shown' = IF writing.kind = "dmx" THEN writing.of ELSE shown
    /\ UNCHANGED <<buffer, loopVars, pauseVars, lock, queue, pc, data, tx>>

(* The port does not take the bytes in time: they are lost.                *)
WriteFails ==
    /\ writing # None
    /\ writing' = None
    /\ UNCHANGED <<buffer, loopVars, pauseVars, lock, queue, pc, data, tx, shown>>

-----------------------------------------------------------------------------
SenderStep(s) ==
    \/ \E f \in Frame : SendRepeated(s, f) \/ SendOnce(s, f) \/ SendAndStop(s, f)
    \/ SenderResumes(s)
    \/ SenderTurn(s)
    \/ SenderCancelled(s)

LoopStep == LoopSends \/ LoopPauses \/ LoopTurn

RequesterStep(r) ==
    \/ Request(r)
    \/ RequesterTurn(r)
    \/ RequesterCancelled(r)
    \/ ExchangeEnds(r)

PauseStep == PauseBegins \/ PauseEnds

PortStep == TakeItem \/ Written \/ WriteFails

Next ==
    \/ \E s \in Sender : SenderStep(s)
    \/ LoopStep
    \/ \E r \in Requester : RequesterStep(r)
    \/ PauseStep
    \/ PortStep

(* The event loop runs every task that is ready, every sleep and every     *)
(* exchange ends (wait_for), and the port, which may refuse a write, does  *)
(* not refuse all writes for ever.                                         *)
Fairness ==
    /\ \A s \in Sender : WF_vars(SenderResumes(s) \/ SenderTurn(s))
    /\ WF_vars(LoopStep)
    /\ \A r \in Requester : WF_vars(RequesterTurn(r) \/ ExchangeEnds(r))
    /\ WF_vars(PauseStep)
    /\ WF_vars(TakeItem)
    /\ SF_vars(Written)

Spec == Init /\ [][Next]_vars

FairSpec == Spec /\ Fairness

-----------------------------------------------------------------------------
(* Properties.                                                             *)

TypeOK ==
    /\ buffer \in Frame
    /\ loop \in {"off", "ready", "paused", "woken", "queued"}
    /\ snapshot \in Frame \union {None}
    /\ paused \in BOOLEAN
    /\ pause \in {"none", "new", "sleeping"}
    /\ ending \in BOOLEAN
    /\ lock \in Requester \union {None}
    /\ queue \in Seq(User \union {Loop})
    /\ pc \in [User -> {"idle", "stopping", "queued", "waiting"}]
    /\ data \in [Sender -> Frame \union {None}]
    /\ tx \in Seq(Item) /\ Len(tx) <= TxLimit
    /\ writing \in Item \union {None}
    /\ shown \in Frame \union {None}

(* While an exchange runs nothing is put on the wire behind its packet:    *)
(* its packet is the last item of the queue, or has left a queue that is   *)
(* empty until the exchange ends (the comment on _wire_lock in             *)
(* NetworkManager: DMX writes never race with requests).                   *)
ExchangeIsQuiet ==
    /\ \A r \in Requester : pc[r] = "waiting" <=> lock = r
    /\ lock # None => tx = <<>> \/ Last(tx) = Packet(lock)

(* The loop is paused exactly while a task is there that will resume it,   *)
(* the pause of the running exchange or one that is just being cancelled,  *)
(* and it sleeps on the event only as long as that is so: no wake-up is    *)
(* lost, whichever way exchanges and pauses overlap (pause_for_rdm: "Always *)
(* resume ... otherwise DMX output stalls forever").                       *)
PauseIsOwned ==
    /\ paused <=> pause = "sleeping" \/ ending
    /\ loop = "paused" => paused
    /\ pause # "none" => lock # None

(* The queue of the lock holds those who wait, each once.  A loop that has *)
(* been stopped and a task that has been cancelled are not among them.     *)
QueueIsExact ==
    /\ ToSet(queue) = {u \in User : pc[u] = "queued"} \union
                      (IF loop = "queued" THEN {Loop} ELSE {})
    /\ IsInjective(queue)

(* Senders, the loop and exchanges share one lock as they should: it has   *)
(* one holder at most and is given out in the order of those who ask.      *)
Wire == INSTANCE WireLock WITH Task <- User \union {Loop}, Nobody <- None

WirePromise == Wire!LockSpec

(* The loop gets through every pause and every wait for the lock, however  *)
(* many requests follow each other.                                        *)
OutputGoesOn == loop \in {"paused", "woken", "queued"} ~> loop \in {"ready", "off"}

(* The frame that is repeated is shown in the end and stays, once requests *)
(* pause: what was queued, dropped or copied before does not come back.    *)
RepeatShows ==
    \A f \in Frame :
        <>[](Running /\ buffer = f /\ \A r \in Requester : pc[r] = "idle") =>
            <>[](shown = f)

=============================================================================
