# TLA+ models and proofs for rdm-dmx-async

`rdm_dmx_async` is an asyncio library that controls lighting devices over an RS-485
line: it sends DMX512 frames and speaks RDM (ANSI E1.20), the request/response
protocol on the same line.  This directory holds TLA+ modules for the parts of it
that decide its behaviour, the TLC configurations that check them on small
instances, and theorems proved with TLAPS for every value of the constants.

Paths below are relative to `src/rdm_dmx_async/` unless they say otherwise. One fact
shapes every model: the library runs in **one asyncio event loop**, so that code
between two `await`s is atomic, and everything that can go wrong goes wrong *at* an
await: another task runs, a timer fires, or the awaiting task is cancelled.  One
action of a module is what one task does between two awaits.

## 1. The system

### Components

| Component (source) | State | Operations | Called by / calls |
|---|---|---|---|
| Number pool (`transaction/allocator.py`) | `_next_number`, `_in_use` | `allocate`, `release`, `release_all` | transactions of all devices and the discovery service share one pool |
| Transactions (`transaction/async_transaction.py`, `correlator.py`, `policy.py`, `state.py`, `result.py`, `transaction_manager.py`) | per execution: state, list of attempts, allocated numbers | `execute` with retries, ACK_TIMER polls, delays, classification of late answers | created by `RdmDevice`; awaits `send_get_command` / `send_set_command` under `wait_for` |
| Request/response protocol (`protocols/rdm_e120.py`) | `_running`, `_wire_lock`, `_discovery_queue`, receive task | `start`, `stop`, `send_get/set_command`, `send_discovery_command`, receive loop | transactions and discovery call it; it calls correlator, scheduler, transport |
| Correlator (`protocols/response_correlator.py`) | `_handlers`, cleanup task | register, unregister, correlate, cleanup of stale handlers, stop | the protocol |
| Discovery (`services/discovery_service.py`, `binary_search.py`) | `_discovered_uids`; tree of ranges, saved node | `full_discovery`, `unmute_all`, `mute_device`, `discover_unique_branch`, `discover_known_devices` | `NetworkManager`; calls the protocol |
| DMX scheduler (`scheduling/dmx_scheduler.py`) | frame buffer, `_paused` event, loop task | `set_dmx_data`, `pause_for_rdm`, `start`, `stop`, periodic frame | `NetworkManager` feeds it, the protocol pauses it, it writes through the wire lock |
| Network manager (`application/network_manager.py`) | `_running`, references to all objects below | `start`, `stop`, `send_dmx`, `discover_devices` | HTTP API, examples |
| Devices (`services/rdm_device.py`, `device_apis/*`) | cached parameter values, `supported_pids` | GET with cache, SET with invalidation, initialise, capabilities | user code; runs transactions |
| Device collection and repository (`application/device_collection_manager.py`, `services/device_repository.py`) | map UID to device | add, remove, initialise all | network manager |
| Batch operations (`application/batch_operation_service.py`) | none | apply one operation to many devices | user code |
| Serial transport (`transport/serial_transport.py`) | `_connected`, port, two bounded queues, reader/writer tasks | `connect`, `disconnect`, `send`, `send_dmx_frame`, `receive` | protocol, scheduler |
| Frame buffer and adapters (`transport/frame_buffer.py`, `adapters/*`) | bytes, stall counter | find frames in a byte stream, resynchronise, limit size | transport |
| Packets, validator, Manchester codec (`packets/*`, `protocols/rdm_validator.py`, `protocols/manchester_codec.py`) | none | encode, decode, validate | protocol, discovery |
| HTTP API (`src/api`), front end (`src/frontend`) | one global `NetworkManager` | connect, disconnect, discover, DMX, device parameters | users |

### How they interact

A user call on a device makes an `AsyncTransaction`.  Each attempt takes a number
from the pool and awaits `_send_and_receive`, which registers a handler for that
number in the correlator, waits for the wire lock, pauses the DMX scheduler, puts
the packet in the transport's queue and awaits the handler's future.  The receive
loop is another task: it takes packets from the transport and gives them to the
correlator, or, discovery responses, to a queue of their own.  Discovery uses the
same pool, lock and wire, without a transaction around it.

### What is hard

* **Cancellation.** `asyncio.wait_for` in a transaction cancels a request in
  whatever await it is, and `CancelledError` passes every `except Exception`.
* **Shared wire.** Requests wait for one first-come-first-served lock while others
  time out, are cancelled, or the protocol is restarted.
* **Late and duplicated answers.** Numbers are 8 bits and are reused; an answer may
  arrive after its request was given up, and one queue of discovery responses is
  shared by all branch requests.
* **Exhaustion.** 255 numbers, 100 queued packets, and users that do not give
  numbers back.
* **Search that must end and miss nobody**, over a wire on which collisions are
  normal and every exchange may fail.

* **A collection that changes under a loop.**  A batch goes through the live
  dictionary of devices with an await for each of them, while discovery adds to it
  and `stop` clears it.
* **A byte stream without boundaries.**  Reads cut it anywhere, garbage surrounds
  the frames, the buffer overflows, and buffer and queue outlive a connection.
* **Tables that must agree.**  Which PID a method uses, which PIDs a module needs
  and what a SET clears are written down in several places.

`PROJECT.json` lists these hazards line by line, with the properties that cover
them. Three have no property, since nothing in the code rules them out and there is
nothing to state that it would keep; the note of each says what a model shows of it.

### What makes each component correct

| Component | Correct when |
|---|---|
| Number pool | no number has two holders; none is lost; reuse comes as late as possible |
| Transactions | everything taken is given back on every way out; the result agrees with the attempts; late answers do not decide; each transaction ends |
| Protocol, correlator | one request on the wire; the lock is never left held; each waiting request has its own handler; requests are served in order and end; leftovers are cleaned up |
| Discovery | a range is given up only when silent; nothing is found that is not a device; every device is found on a sound wire; the search ends |
| DMX output | nothing on the wire behind the packet of a running exchange; every pause has a task that ends it, and output resumes; the last repeated frame is shown in the end |
| Network manager | what `start` builds is exactly what `stop` destroys, also when calls overlap; nothing is used after it is stopped |
| Device cache | no value that is older than an acknowledged SET |
| Device APIs | a typed getter takes nothing old from the cache; no method decodes more bytes than it has made sure of; a sweep says exactly what failed; the tables agree |
| Transport, frame buffer | connected exactly while a port is open and both tasks run; no byte is used twice or out of order; a frame that has arrived whole comes out |
| Packets | a damaged answer can be told from a sound one; the answer to a request is taken for it, and another one that is taken for it leaves a warning |
| Batch operations | addresses do not overlap; each result belongs to its device |

## 2. The modules

| Module | Models | Abstracts from |
|---|---|---|
| `TxnAllocator` | the two fields and four methods of the allocator, each one action | the lock around them (no await inside) |
| `NumberLease` | *abstract*: numbers leased to one holder at a time | that there is a pool |
| `WireLock` | *abstract*: a lock with one holder, given out first come, first served, whose waiters may give up | what its holders do with the wire |
| `AllocatorClients` | the pool with transactions and discovery as users | what they do with the numbers |
| `AsyncTransaction` | `execute`, `_execute_attempt`, `_poll_queued_message` step by step, several tasks, cancellation in every await | the wire: an operation may answer anything its contract allows |
| `RdmProtocol` | wire lock, correlator, receive loop, discovery queue, start, and stop between its awaits | packet contents; the DMX pause |
| `DmxOutput` | `send_dmx`, the loop of the scheduler, the pause around an exchange, the wire lock between them, the transmit queue and its loop | numbers, handlers and answers of the exchanges; universes are single values |
| `Discovery` | the search, its tree, muting; devices and wire as environment | how an exchange travels |
| `Network` | connect, disconnect, shutdown and DMX requests of the HTTP API; the tasks and the port of each manager | contents of queues; the devices |
| `DeviceCache` | DEVICE_INFO, the state and the personality of one device under concurrent GET, SET, raw SET, reset and expiry; the device and its answers as environment | the other parameters (`DeviceApis`); how a transaction travels |
| `DeviceMethods` | a table of every public method of `device_apis/*`: PID, use of the cache, bytes required and bytes decoded, what a SET clears; the PID tables of `rdm_device.py` and `capabilities.py` | contents of the values |
| `DeviceApis` | these methods at work: typed, raw, one index after the other, refresh of a module, with answers that are deferred or lost | one PID at a time; DEVICE_INFO |
| `Framing` | finding, parsing and building frames, for each adapter | DMX frames, widget parameters |
| `SerialReceive` | the receive loop, the frame buffer step by step, the receive queue, one reconnect | values of bytes where only places matter |
| `Packets` | encoding, decoding, checksum, validation, match of a response with a request, Manchester UID | log messages |
| `ReceivePath` | request to answer: the two modules above together, with devices and widgets as environment | timing |
| `DeviceCollection` | start and stop of the manager, `discover_devices`, its collection and a repository for each session | how devices are found |
| `BatchOperations` | the six batch operations on that collection | how an exchange travels |

`TxnAllocator` is extended by `AllocatorClients`, `AsyncTransaction`, `RdmProtocol`
and `Discovery`, so that the *same* `Allocate` and `Release` operators run in every
model.  `AllocatorClients` and `AsyncTransaction` are each shown to implement
`NumberLease` (`INSTANCE NumberLease WITH ...`): both by proof, the second also by a
run (`LeasePromise`); so is `RdmProtocol`, by proof. `RdmProtocol` and `DmxOutput`
describe two sets of users of *one* lock, the `_wire_lock` that `NetworkManager`
makes; both are shown to implement `WireLock` (`WirePromise`), the first by a run
and a proof, the second by proof.  The layers above and below a module are its
environment, chosen so that it can do at least what the neighbouring module does:
the operation of `AsyncTransaction` may answer with any number, one out of range
included, or fail at any time, which includes everything `RdmProtocol` returns; the
callers of `RdmProtocol` may be cancelled in every await, as `AsyncTransaction` does
to them; the faults of `Discovery` include the shifted discovery queue that
`RdmProtocol` exhibits; an exchange of `DmxOutput` may end at any time after its
packet is queued, as one of `RdmProtocol` does. `ReceivePath` extends
`SerialReceive` and `Packets`, both of which stand on `Framing`; `BatchOperations`
extends `DeviceCollection`; `DeviceApis` extends `DeviceMethods`.

Names follow the source: `next_number`, `in_use`, `attempt_index`, `current`,
`allocated`, `lock`, `handler`, `saved`, `complete`.

**`AsyncTransaction`.** `pc[t]` says what the task awaits: `operation`
(`_execute_attempt`, line 204), `ack_delay` (sleep before a poll), `poll`
(QUEUED_MESSAGE), `retry_delay`.  `StartAttempt` is the top of the loop in `execute`
up to the first await, `CompleteAttempt` everything from the answer to the next
await, including the next round if there is no delay.  `Outcome` is the order of
tests in `execute`: an undefined NAK reason raises, then a late answer is skipped,
then ACK, permanent NAK, retry.  `End` is the `finally`.  `Succeeds` is the
`success` that `_execute_attempt` records, which is not what `execute` decides by:
`classify_response` raises `ValueError` for an answer with a number out of range
(`Unclassifiable`; 0 stands for all of them), the attempt swallows it and records a
failure, but keeps the answer, and an ACK still ends the transaction as a success.
`ResultMatchesAttempts` names this case, and counts a late answer as a round, as the
loop does.

**`RdmProtocol`.** A caller is `idle`, `queued` for `_wire_lock`, or `waiting` for
an answer with the lock.  `handler[n]` is the entry of `_handlers`: `live` (future
of a running request), `orphan` (pending, its request is over), `dead` (cancelled
future).  `late` are answers that may still come to requests that were given up;
`frames` is `_discovery_queue`, each item marked as the answer to the request that
waits or to an older one.  `stop()` awaits twice, and a task that calls it (one of
`Stopper`) takes three steps: `Stop` cancels the receive loop, `ReceiveStopped` goes
on when that has ended and cancels the cleanup loop of the correlator, and
`CorrelatorStopped` cancels the futures and forgets the handlers.  `Start` may come
between any two of them.  `running` is the protocol's flag, `cleaning` the
correlator's: a start that overlaps a stop can leave the first true and the second
false.

**`Discovery`.** A node of the tree is its range; the tree is the set `split` of
nodes with children and the set `complete`.  `Begin`, `Prepare`, `Search`, `Branch`,
`Mute`, `Climb` and `Choose` follow `full_discovery` and `get_next_root`.  The
devices are external: what may go wrong is the constant `Faults` (missed branch,
garbled collision, late answer, unheard mute, lost acknowledgement, restart).  With
`Faults = {}` the wire is sound, which is where completeness of the search can be
asked for at all.

**`DmxOutput`.** `queue` is the deque of waiters of the one `asyncio.Lock` that
`NetworkManager` shares with the protocol.  Senders and the loop hold the lock only
inside one action, because `send` has no await in which another task could run;
`lock` names the exchange that holds it longer.  `loop` says what the task of the
scheduler awaits: its interval (`ready`), the pause event (`paused`, or `woken` once
`Event.set()` has resolved its future, which a later `clear()` does not undo), or
the lock with its copy of the universe (`queued`, `snapshot`).  `pause` is the task
that `_dmx_paused` creates.  It may be cancelled before it has begun, in which case
it never runs, or in its sleep, in which case its `finally` runs a turn of the event
loop later (`ending`) and before the task of the next exchange begins.  `tx` is
`_tx_queue`, `writing` what is with the executor, `shown` the last frame that has
been written.

Every call of `send_dmx` is taken to set the whole universe.  In the code shorter
data leave the tail of the buffer as it was, so that the repeated frame may be
longer than the frame sent at once.

**`Network`.** A manager belongs to the request that connects.  `pc` says what its
connect or disconnect awaits: the query of the widget (`querying`), or, in
`_cleanup`, the task that has been cancelled last (`scheduler`, `receive`,
`cleaner`) and in the end the two tasks of the transport (`port`); `up` is
`is_active`.  Everything in `start()` after the query is one action, `Assemble`,
because nothing in it is really awaited: the coroutines it calls have no await of
their own.  `current` is `app.state.network_manager`.  `user` holds the manager that
`get_network_manager`, which runs in a thread, has given to a request whose handler
has not begun. `overlapped` is a history variable: a connect or disconnect has begun
while another was on its way.

**`DeviceCache`.** The address and the personality are the parameters that the state
of the device repeats: DEVICE_INFO reads both, the APIs set them one at a time, the
personality has a cache entry of its own.  `pc` follows a transaction from outside:
`asking`, `answered` (the device has obeyed and the wire is held for the answer),
`deferred` (ACK_TIMER, not yet done) and `worked` (done, answer waiting for a poll).
A device defers one request at a time; a deferred request that is no longer polled
for is `owed` and may be done at any later time.  `raw.set()` sends the same SETs
(`raw` in an operation) and takes no notice of their success (`RawSet`).  Three
history variables say what the properties may expect: `known` (parameters read or
set since the factory defaults), `old` (what has changed since a prepared answer was
prepared) and `doubt` (what a raw SET, or an answer that was lost, given up or
overtaken, has left uncertain, until it is read or set again).

**`DeviceMethods` and `DeviceApis`.**  A method is a record: its PID and verb,
whether it takes its value from the cache, whether it has an index, the bytes it
requires (`least`) and the bytes it decodes (`needs`), and the PIDs whose entries a
SET clears.  Parameters share nothing but the clearing of the whole cache, so that a
behaviour looks at one PID, `focus`, which `Init` chooses among all of them.
`CallMethod`, `CallRaw`, `CallSweep` and `CallRefresh` begin a call, up to the
exchange or to a hit in the cache; `Obey`, `LoseAnswer` and `GiveUp` are the
exchange seen from outside, and `Defer`, `Work`, `Collect`, `StopPolling` and
`WorkLate` one that the device answers with ACK_TIMER, as in `DeviceCache`: an
answer that has been prepared grows `old` when another task's SET is obeyed before
it is fetched, and a getter that then stores it leaves an older value in the cache;
`ReadDone`, `WriteDone`, `RawDone`, `SweepAnswered` and `SweepFails` are what the
method does with the answer, up to the next await.  The contents of a value are left
out, but not its length, nor which of the tables in `capabilities.py` and
`rdm_device.py` a call looks into.  `Listings` is a constant without an assumption:
the lists of supported parameters that a device may give when a PID is in focus.

**`SerialReceive`.**  The buffer and the packets are sequences of *places* in the
stream that the port delivers, so that a byte can be followed; `Bytes` gives their
values where the adapter looks at them.  `Read` is a turn of the receive loop,
`TakeFrame`, `Resync` and `Stall` are the branches of one iteration of
`extract_all_frames`, and `EndExtract` its end; while `phase` is `extract` nobody
else runs.  `Reconnect` keeps the buffer and the queue, as `disconnect` does, and
loses bytes of the stream.  A stream may be known to consist of *pieces*, frames and
noise; `Clean` says that nothing in it looks like a frame but its frames, and
`WholeFramesComeOut` what is promised of those then.  `Findable` says which frames
the promise is about: a frame must leave the buffer room for `MaxIterations - 2`
bytes.  The reason is a cascade that needs a full buffer.  When garbage overflows
the buffer, the loop drops a byte and notes the length; if the next read brings the
buffer back to that length, the loop takes it for stalled and drops another byte in
each of its iterations, and with them the first byte of a frame that is still
arriving.  A frame that is shorter than the buffer by that much is out of reach.  In
the code, with 1024 bytes, 10 iterations and frames of at most 605 bytes, every
frame is; the run has a frame of exactly the length that is still safe, behind noise
that overflows the buffer.

**`Packets` and `ReceivePath`.**  Packets are sequences of bytes, since checksums,
lengths and look-alikes are about bytes.  A stream is built of pieces: the device's
own answer, answers of others, damaged answers, branch responses, messages of the
widget that nobody handles, and noise.  Each remembers what its sender meant by it.
`Sent` says what a piece of each kind may be, and `SendersAssumption` that the
pieces are such; the streams of `MCReceive` are checked against it, and the proofs
know nothing else of a stream.  Sums and bits are written so that the prover can
work with them: `ByteSum` is a recursive function, and `BitAnd` takes the binary
digits by division.

`AnswersAreUnderstood` is about every packet that comes out of the frame of an
answer.  `Taken` is what makes the program take a packet for the answer to a
request, in the correlator: its number, and nothing else.  `Warned` is what
`_send_and_receive` makes of the other fields: a line in the log.  It returns the
answer all the same, so that nothing better can be promised of an answer of another
device with the same number than that the mismatch is always noticed.  The property
has two exceptions, both of the generic adapter.  The line mode gives the packet
with its newline; the decoder ignores what follows the checksum, but a discovery
answer with one byte more than its length is not decoded.  The delimiter mode does
not send a delimiter twice and always cuts it off, so that a packet whose own
checksum ends with that byte comes out one byte short (`KeepsItsEnd` keeps such
answers out of the promise).

**`DeviceCollection` and `BatchOperations`.**  The collection is a sequence without
repetitions, for the order of insertion of a dictionary.  An entry has the session
whose protocol it holds.  `held` is the address that the running call gave to a
device.  In `set_all_dmx_addresses` every device is one action after the other
(`Refuse`, `Confirm`, `Unconfirmed`, `Raise`), with the next turn of the iterator at
the end of it; `IterationFails` is the `RuntimeError` of a dictionary that has
changed its size.  The operations with `gather` start a task for each device and
note the order in which they return (`finished`), which the results must not depend
on.

The `MC*.tla` modules only give constants their values; that of `MCReceive` builds
the streams.

## 3. The runs

| Run | Shows | Instance |
|---|---|---|
| `MCAllocatorClients` | `ExclusiveOwnership`, `FarthestReuse` | 4 numbers, every starting number, 2 transactions and discovery |
| `MCTransactions` | `PoolAccounting`, `ResultMatchesAttempts`, `LateAnswerNeverWins`, refinement of `NumberLease`, `EveryTransactionEnds` | 2 transactions, 2 attempts, 1 poll, delay, 3 numbers, answers with any number or one out of range, permanent, retryable and undefined NAK reasons |
| `MCProtocol` | `HalfDuplex`, `QueueIsExact`, `HandlersServed`, refinement of `WireLock`, `EveryRequestEnds`, `LeftoversGo` | 2 transactions and discovery, 2 numbers, 1 queued discovery response, 1 task that stops, under fairness |
| `MCDiscoveryReliable` | `FindsAll` | every subset of a space of 7 addresses, 40 numbers, no faults |
| `MCDiscoveryFaults` | `FoundAreDevices`, `EverySearchEnds` | 4 addresses, 8 numbers, all faults, under fairness |
| `MCDmxOutput` | `ExchangeIsQuiet`, `PauseIsOwned`, `QueueIsExact`, `OutputGoesOn`, `RepeatShows` | 2 senders, 2 frames, 1 requester, transmit queue of 2, under fairness |
| `MCNetwork` | `ReceiverHasPort`, `ActiveIsWhole`, `GoneIsQuiet`, `AppWide`, `EveryRequestEnds` | 3 managers, 2 requests in flight, under fairness |
| `MCDeviceCache` | `StateInSync`, `CacheIsFresh`, `HitIsPopulated` | 2 tasks, 2 addresses, 2 personalities, lost and deferred answers, raw SETs |
| `MCDeviceApis` | `TypedCacheIsFresh`, `RefreshAsksSupported`, `SupportIsConsistent`, `SweepIsWhole`, `DecodesWhatIsThere` | every PID that has a method, 2 tasks, 2 values, up to 2 indexes, deferred, lost, short and refused answers |
| `MCReceive` | `BytesInOrderOnce`, `WholeFramesComeOut`, `DamageIsSeen`, `AnswersAreUnderstood` | streams for every adapter, cut into reads in every way; buffer of 36 bytes, 3 iterations, queue of 1, one reconnect |
| `MCBatch` | `AddressesDoNotOverlap`, `ResultsAreTheDevices` | 3 devices, 2 sessions, 2 discoveries, addresses up to 4, spacing 2 |
| `MCOneManager` | a statement of the repository that the code does not keep (section 6) | as `MCNetwork` |

Type invariants, and four properties that other ones imply or lead to
(`AttemptsInStep`, `NumbersKept`, `TreeIsSound`, `CompleteIsSilent`), are proved and
are not in the runs.

**Why the bounds are enough.**  Three numbers for two transactions that take up to
four each make the pool run empty in the middle of an attempt, of a retry and of a
poll, and wrap around; four numbers let the pool's own run have a middle.  Two
attempts and one poll give a first, a last and a repeated round; a middle round adds
nothing to the proofs, which cover any number of attempts and polls.  In
`MCProtocol` two numbers for three callers leave one caller without a number, so
that at most two are busy at a time: one has the lock and one waits for it.  A
longer queue, with a middle that can be cancelled, is covered by the proofs, which
hold for every number of callers and every pool, and by the queue of three in
`MCDmxOutput`; `EveryRequestEnds` is checked for the short one only.  One task that
calls `stop()`, and starts at any time, are enough for a start between the two
awaits and for a second stop that finds the correlator stopped.  Ranges of seven
addresses give a tree of depth three with odd halves and single addresses; 40
numbers let a full search of six devices finish.  `Retries` and `MuteRetries` are 2
where the code has 3 and 5: a first and a last try.  In the run with faults, the 8
numbers end every search, as the 255 of the code do.

In `MCDmxOutput` two senders, the loop and a requester make a queue of three behind
a running exchange, in which the loop may be stopped in the middle; a transmit queue
of two is full with one older frame behind another, so that frames are dropped and
requests fail; one requester runs one exchange after the other, so that pauses
overlap.  `TxLimit` is 100 in the code, and the proofs hold for every limit.  Three
managers in `MCNetwork` are one that goes, one that comes and one that overtakes
both; two requests are one that has resolved the old manager and one that has the
new.  Two tasks in `MCDeviceCache` are one for each side of an overlap, and a third
actor is the device, which does a deferred request on its own; two values of each
parameter tell an old value from a new one.  The safety properties of both are
proved for any number.

In `MCDeviceApis` a sweep of two indexes has a first, a last and, with failures,
every pattern of blanks; the number of indexes may change under it.  A device lists
the parameter in focus and nothing else, everything but it, or nothing at all: a
method asks about one PID and a module about its own, so that each answer is met
both ways, and the proof holds for every list.  In `MCReceive` a buffer of 36 bytes
is smaller than an answer with garbage around it and larger than an answer, so that
it overflows, but not always; 3 iterations are fewer than the frames of one stream,
a queue of 1 drops packets, and a loss of 0, 1 or 27 bytes at the reconnect leaves
the front of one answer before a later part of the next. The damaged streams change
one byte, for Enttec at one place of each kind and for the bare adapter at every
place.  In `MCBatch` three devices are one before, one at and one behind a failure;
with a spacing of 2 the first or the last address is out of range; two sessions and
two discoveries let a discovery end in the session after its own.

The counters of the code are bounded by themselves (`MaxAttempts`, `MaxPolls`,
`Retries`, `Limits`, `MaxIterations`, `MaxSize`, `QueueSize`, `MaxAddress`).  Bounds
that are the model's own: `MaxFrames` (discovery responses queued at a time),
`MaxCount` (indexes), `MaxSessions` and `MaxCalls` (starts of the manager,
discoveries), `Losses` and one reconnect.

`CHECK_DEADLOCK FALSE` appears only where the pool really comes to rest
(`MCAllocatorClients`: the discovery service never releases), or the server does
(`MCNetwork`, `MCOneManager`: after its shutdown nothing happens), or the stream
(`MCReceive`: it ends).

**Fairness.**  `AsyncTransaction!Fairness` and `RdmProtocol!Fairness` assume weak
fairness of the event loop's own duties: a timer that is due fires (`asyncio.sleep`,
`asyncio.wait_for`), a task whose future is resolved or whose turn at the lock has
come runs, the cleanup task runs while the protocol is started.  Nothing is assumed
of devices, answers, users, cancellations, `stop` or `start`. `Discovery!FairSpec`
assumes that the search itself goes on, which is what `EveryRequestEnds` establishes
one layer below. `DmxOutput!Fairness` assumes the same of the event loop (tasks that
are ready run, sleeps end, an exchange ends by its `wait_for`) and, of the port,
that it does not refuse writes for ever: strong fairness of `Written`, because a
write that fails loses its item and another comes.  `RepeatShows` is about a time in
which no request is made and nobody changes the frame; otherwise one-shot frames may
be the last ones written for as long as they come. `Network!Fairness` assumes that a
cancelled task ends, that the task which awaits it goes on, and that the query of
the widget, which has a bounded number of attempts with time-outs, gives an answer
or gives up. `DeviceApis`, `SerialReceive`, `ReceivePath` and `BatchOperations`
state safety only and assume no fairness.

## 4. The proofs

Proof modules: `AsyncTransactionProofs`, `RdmProtocolProofs`, `DiscoveryProofs` (the
number pool with its users first, then the search), `DmxOutputProofs`,
`ManagerProofs` (`Network`, then the collection and `BatchOperations`),
`DeviceCacheProofs`, `DeviceApisProofs` and `ReceivePathProofs` (the buffer first,
then packets and answers).  They assume nothing but the named assumptions on
constants (`MaxTxnAssumption`, `HolderAssumption`, `PolicyAssumption`,
`CallerAssumption`, `DiscoveryAssumption`, `OutputAssumption`, `NetworkAssumption`,
`CollectionAssumption`, `BatchAssumption`, `AnswerAssumption`, `CacheAssumption`,
`ApisAssumption`, `ReceiveAssumption`, `PiecesAssumption`, `SendersAssumption`), so
that they hold for 255 numbers, 2^48 addresses, any number of callers and devices
and every stream of bytes.  All of these say only of what kind the constants are;
`PiecesAssumption` says that the pieces of a stream lie in it side by side, with the
bytes that they claim to have, and `SendersAssumption` what a piece of each kind is:
an answer of the device that was asked, an answer of another one or to another
request, an answer of which the line has changed one byte, a discovery answer, or
anything else, with fields of any value of their types.

* **Pool.**  `ExclusiveOwnership` is inductive with `TypeOK`.  `PoolStepOwnership`
  says that every step is a take, a return or neither, from which both
  `OwnershipIsExclusive` and the refinement `ImplementsLease` follow.
  `FarthestReuse` speaks of the whole past and needs `SeenInv`: every number
  *behind* the pointer, counted from the place where n was issued, has been in use
  since.  Three lemmas on the circle of numbers carry it.
* **Transactions.**  `TypeOK` is not inductive: the counters stay in range because a
  poll or a delay is entered only while a round is left; that is `ControlInv`.
  `PoolIsAccounted` and `TransactionsKeepLease` rest on `StepOwnership` (each step
  takes one number, or gives back all of them, or both in the end of a round).
  `RecordInv` joins `AttemptsInStep` and `ResultMatchesAttempts`, each of which
  needs the other; the answer that decided is kept in `response`, so that a success
  whose last attempt is recorded as a failure can be traced to an answer without a
  valid number.  `LateAnswersNeverWin` rests on `ControlInv` and on one lemma about
  `Outcome` (`DecidedInTime`): whatever ends a transaction with a result is decided
  after the test for a late answer.
* **Protocol.**  `ProtocolInv` is `TypeOK`, `ShapeInv` (which fields of a caller fit
  together) and its safety properties (with `NumbersKept`, which is only a step to
  them). `HandlersServed` needs `NumbersKept` (nobody else has the number), which
  needs `ShapeInv`; the futures that `CorrelatorStopped` cancels are those of
  whoever is registered then, whether or not the protocol has been started again;
  `HalfDuplex` needs `QueueIsExact` (who is first in line is queued). `WireIsFair`
  is the refinement of `WireLock`: who asks is neither in the queue nor the holder
  (`QueueIsExact`, `HalfDuplex`), and who ends a request is the holder, so that each
  step is one of the abstract lock or leaves it alone. `CallersKeepLease` is the
  refinement of `NumberLease`, from `NumbersKept`.
* **Discovery.**  `SplitPartitions`: the halves of a range are ranges, cover it and
  do not overlap.  `TreeInv` adds to `TreeIsSound` that no node is saved where the
  search goes down or retreats.  `DiscoveryIsComplete` and `CompleteRangesAreSilent`
  rest on `SearchInv`: complete ranges are silent, a saved root means that nobody is
  left, everything muted is known.  It holds as long as numbers are left
  (`ReliableInv`), which is why `FindsAll` has `~Exhausted` as a condition: see
  section 6 on the leak.

* **DMX output.**  `OutputInv` is `TypeOK`, `ShapeInv` (who waits has a frame to
  send) and three properties of `MCDmxOutput`.  `PauseIsOwned` is inductive only
  together with "not asleep while another is still ending" (`PauseInv`), which is
  the order in which the event loop runs cancelled and new tasks, and needs that a
  pause exists only while the wire is held.  `ExchangeIsQuiet` needs that whoever
  sends has found the lock free, in its turn as well as at once; `QueueIsExact` that
  a loop that is stopped leaves its place. `OutputSharesTheWire` is the refinement
  of `WireLock` by senders, loop and exchanges; a sender and the loop have the lock
  only within a step.

* **Network.**  `NetworkInv` is `TypeOK`, `StageInv` (which tasks a manager has in
  each stage of its life) and `AloneInv` (without overlap at most one manager is not
  gone, and it is the one of the application unless it is on its way).  The three
  properties of a single manager follow from `StageInv`, `AppWide` from both.
* **Device cache.**  `CacheInv` adds to the three properties and `TypeOK` that a
  task which asks has asked for something (`ShapeInv`) and that an answer says what
  the device has, except for what has changed since it was prepared (`AnswerInv`). A
  raw SET puts what it changes in doubt when the device obeys it, not when it
  returns. `AnswerInv` is what makes storing an answer safe, whoever else has used
  the device in between.
* **Batches.**  `BatchTypeInv` carries the collection: it has no UID twice
  (`CollectionInv`), and what a search leaves is a list without repetitions, which
  makes appending what is new safe (the lemma `Joined`).  `AddressesStayApart` needs
  only that every address given in a call lies a footprint below the next one
  (`GivenBelow`) and that nothing is given before.  `ResultsBelongToDevices` needs
  `LoopInv`: as long as `stop` has not intervened, the first `size` places of the
  collection are still those of the start, because a discovery replaces objects in
  place and appends, so that the results are those of the places passed so far; and
  `GatherInv`: the tasks that have ended are those with an answer, each of its own
  device, in whatever order.
* **Device APIs.**  First the tables, row by row, over all methods of all modules:
  `MethodsAreGood` (each method requires the bytes that it decodes, each setter
  clears its own entry or is one of six actions whose answer nobody keeps),
  `GettersAreListed` (`METHOD_PID` has the PID that the getter really uses) and
  `MappingIsOfMethods` (the PIDs of a module are those of its methods).  Then the
  calls: `TasksInv` says that a call that waits is a good row for the PID in focus,
  that one answer at a time is on the wire, and that an answer has the device's
  present value unless it has grown old; `Swept` that the indexes done, failed and
  left of a sweep are together 1 to its count.  From these and the tables follow
  `RefreshIsSupported`, `DecodingIsSafe` and `SweepsAreWhole`; `TypedCache` also
  needs `CacheInv` (only a PID that some getter keeps is ever in the cache),
  `SupportIsOneThing` only `ListInv`.
* **Receiving.**  `PacketsInOrder` says that no byte is used twice and none
  overtakes another, for every stream, every way to cut it, every size of buffer and
  queue.  Its invariant takes the packets that were found, or those that wait,
  together with the buffer as a *chain*: each link is increasing and lies before the
  next one.  Reading makes the last link longer, dropping makes it shorter, and
  taking a frame splits it in two; one lemma each.  `FrameFits` and `PayloadFits` go
  through the adapters: a frame that is found lies in the buffer and its packet lies
  in the frame.  A frame of the delimiter mode ends at the *first* newline, which
  needs the least element of a set of naturals; `FirstExists` gets it from the
  well-founded order of finite sets by inclusion, without induction over an
  operator.
* **Whole frames.**  `FramesComeOut` holds for every stream without look-alikes, all
  adapters and every way to cut the stream: nothing but the packets of frames comes
  out (`OnlyFrames`), and no frame that has arrived whole stays behind.  Without a
  reconnect the buffer holds the last bytes that were taken (`Contiguous`).
  `OutInv`: no frame lies across the front of the buffer; what lies before it is
  out; and when the loop has come to its end nothing whole is left behind it.
  `FoundStays` says that a frame which is found is found again, and as long, when
  more bytes follow it, for each adapter except RAW, in which every read is a frame
  (and no stream is clean: `CleanIsNotRaw`).  So a whole frame is seen where it
  starts (`WholeIsSeen`), nothing else is, and what `Resync` cuts out has no part of
  a frame in it.  The byte that a stall or an overflow drops may be the first of a
  frame that is still arriving, if that frame is nearly as long as the buffer:
  `StallInv` bounds how short the buffer can get in that way, and `Findable` keeps
  frames below it.
* **Packets.**  Two theorems about the code of `packets/` alone, for every packet:
  `PacketsRoundTrip` (an answer decodes to the fields from which it was encoded) and
  `OneByteIsNoticed` (no change of a single byte passes the decoder, the checksum
  and the length byte).  The layout comes first (`LayoutIs` and its kin say at which
  place each field stands), then the checksum.  The header tells the decoder where
  the checksum is, so that a change of the length of the data moves it; that case is
  the reason for the length byte in the statement, and the code does not read that
  byte. Otherwise the two sums differ by less than 2^16 and by more than 0, or the
  changed byte is in the checksum itself.  That the sum of a changed packet differs
  by what the byte does is induction over the packet: the library's induction
  theorems take an operator, which no prover here can instantiate; the lemma
  `Induction` takes a *set* of numbers instead and follows from `FirstExists`.
  `SumsExist` proves by it that the recursion of `ByteSum` defines a sum for every
  sequence.
* **Answers.**  `AnswersUnderstood` composes them with the adapters and the buffer:
  what is extracted from the frame of a piece is the packet that the sender encoded
  (`PartComesOut`), for Enttec, bare RS-485 and all modes of the generic adapter. An
  own answer then decodes, correlates and matches, by its fields; a foreign one that
  correlates has the same number and differs in one of the other fields that
  `Matches` compares, which is why it is warned of; a discovery answer starts with
  its preamble, so that it is routed to discovery, and the AND of each pair of
  Manchester bytes is the byte of the UID, which is a statement about the eight
  digits of a byte.
* **Damage.**  `DamageSeen`: while the connection lasts, and in a stream without
  look-alikes, a packet that passes all checks says what somebody has sent.  The
  first half of `FramesComeOut` says that what is extracted is the packet of a
  frame, and `OneByteIsNoticed` does the rest; a frame of another kind is not
  correlated at all.

Only model-checked: `EveryTransactionEnds`, both `EveryRequestEnds`, `LeftoversGo`,
`EverySearchEnds`, `OutputGoesOn` and `RepeatShows` (liveness under fairness is out
of the prover's reach).  `DamageIsSeen` is proved for undisturbed streams, and only
model-checked for the others: after a reconnect, or in garbage that looks like a
frame, a packet is made of bytes of several, and a 16-bit sum may agree by chance.
So it does not hold for every stream, but for those of the run it does.  That
streams without look-alikes exist is not proved either: the run has them, for every
adapter but RAW.

## 5. What is not modelled, and the plan

Left out for good: parameter tables (no behaviour), port detection, serial UID query
and command line (operating-system input and output), the front end, examples,
hardware tests and packaging.

Left out of modelled components:

* the contents of parameter values: a method is known by its PID, its lengths and
  its use of the cache, not by how it unpacks a sensor reading;
* DMX frames, break signal and widget parameters of the adapters; the DMXKing
  adapter, every method of which raises `NotImplementedError`;
* `remove_device` and `cleanup_stale_devices` of the repository, which nothing
  calls;
* `start` called twice on one manager, and the requests of `initialize`, which other
  tasks may interleave with like any other calls;
* two searches at a time, and queued messages about another request (each is a
  hazard with a note: the code has no defence whose working could be stated);
* executor threads that go on reading or writing while `disconnect` closes the port;
* a `connect` of the transport that fails after `serial.Serial` has opened the port
  (`transport/serial_transport.py:113-132`): `_connected` is still false, so that
  `disconnect` returns at once, and the port stays open until the transport object
  is collected.  `Network!ConnectFails` has the failures before that.

The plan, in order:

1. *Done*: pool, transactions, protocol with correlator, discovery.
2. *Done*: `DmxOutput`, scheduler, pauses by RDM exchanges, wire lock and bounded
   transmit queue together.
3. *Done*: `Network`, the life cycle of the manager behind overlapping requests, and
   `DeviceCollection`, with a discovery that outlives its session.
4. *Done*: `DeviceCache` for the state, `DeviceMethods` and `DeviceApis` for all
   other parameters, and the capabilities.
5. *Done*: `SerialReceive`, `Framing`, `Packets` and their composition
   `ReceivePath`.
6. *Done*: `BatchOperations` with failures in the middle and a collection that
   changes.
7. *Done*: the proofs of section 4.
8. Left: `AsyncTransaction` over `RdmProtocol` in one module, with the step between
   them proved instead of argued; a second concurrent search.

## 6. Where code and documentation disagree

One is a run that TLC violates, with the trace as the explanation.

* `MCOneManager`: `connect` checks for an active manager before it awaits `start()`
  and assigns its own afterwards (`src/api/routers/network.py:46`, `:71`);
  `disconnect` forgets whatever manager the application refers to when `stop()`
  returns (`:80`).  Overlapping requests leave a manager that is active, with its
  port open, and that no request can reach; `dependencies.py:11` calls the manager
  "app-wide".

Others that were seen and have no run of their own.  The models have the behaviour
of the code.

*Numbers and transactions.*  Discovery takes a number for every command
(`services/discovery_service.py:160`) and never releases it; `allocate` says that an
empty pool "should never happen in practice" (`transaction/allocator.py:51`) and
blames concurrent transactions (`:72`). `execute` reads one byte of the two-byte NAK
reason (`transaction/async_transaction.py:147`), `RDMResponse.nak_reason` reads
both. `TransactionState`'s diagram (`transaction/state.py:14-17`) has no edge from
IN_PROGRESS to FAILED, which a permanent NAK takes; the comment at
`async_transaction.py:134` says that a late answer does not count as an attempt, but
the loop counts it; an answer whose number is out of range makes an attempt fail
(`:244-247`) and, if it is an ACK, the transaction succeed (`:139-143`), with a
result in which no attempt has succeeded; `execute` raises where its docstring (line
112) promises a result, when the pool is empty or a NAK reason is undefined.

*Discovery and the wire.*  `max_devices` of `full_discovery`
(`discovery_service.py:210`) limits rounds of the search, not devices; NO_RESPONSE
(`discovery_service.py:19`) is also the result of a request that could not be sent.
A cancelled request leaves its handler in the correlator while its number is free
(`protocols/rdm_e120.py:348`: `CancelledError` is no `Exception`), so that a later
request with the number fails, against the comment in `transaction_manager.py:44-46`
that numbers "never collide" there; a branch request takes a response that was
queued before it was sent (`rdm_e120.py:264`), against the docstring in line 233; a
SET that the device has answered may be overtaken by an older answer that it had
deferred, which then stands in the state until the parameter is read again, against
"kept in sync" in `services/rdm_device.py:149`, and so does the value before a SET
by `raw.set()` (`services/device_apis/raw_pid.py:127`), which touches neither state
nor cache.  (In the models: `orphan` handlers, `old` frames, `old` answers, `raw`
operations.)  `start()` says that it starts response correlation
(`rdm_e120.py:114`), but one that comes between the two awaits of `stop()` (`:142`,
`:147`) finds the correlator running and leaves it to be stopped: a running protocol
without a cleanup loop, whose leftovers stay, and whose next `stop()` returns from
`correlator.stop()` at once without cancelling a future (`LeftoversGo` excepts the
time without cleanup).  `get_next_root` returns None for a root that was saved and
is restored after a collision, although the tree is not complete
(`services/binary_search.py:86`), so that the search ends early.
`SerialTransport.send` says "drop old frames" (`transport/serial_transport.py:175`)
and drops the new one.  The comment on the wire lock (`protocols/rdm_e120.py:65`)
says that only one request is outstanding on the wire: the lock guarantees it for
the queue (`ExchangeIsQuiet`), but an exchange whose time is over before the
transmit loop has reached its packet leaves that packet in the queue.

*Receiving.*  The stall tracking of the frame buffer
(`transport/frame_buffer.py:84-97`) hardly ever works: extraction runs only after a
read that brought bytes, so that the length at the stall is seen again only after an
overflow, and an overflow discards at most as many bytes as there are iterations.
"Byte 0 is provably garbage" (`:70-71`) is not so when the data of a frame look like
a frame. Frames of fewer than 5 bytes stay until more bytes come, and so do those
behind the tenth of a read.  The decoder never reads the Message Length byte, and
the validator that is not strict ignores the checksum, so that an answer that has
lost a zero passes. An answer of another device, to another PID or of another class
is returned to the caller if it has the number of the request
(`rdm_e120.py:331-340`), although `_send_and_receive` says "Validate response
matches request": a mismatch is only logged.  A QUEUED_MESSAGE response passes as
the answer to any request without even that.  After a reconnect the bare adapter can
form one frame of the bytes of two connections (`DamageIsSeen` is what the checksum
makes of it).  The length-prefix mode cannot send more than 255 bytes: the
`ValueError` is logged and the packet is lost. `protocols/manchester_codec.py:12`
speaks of 0 to 7 bytes of preamble, but the frame is found only with at least one.

*Device APIs.*  `set_power_cycles` is missing in `_METHOD_PID`, and its schema, like
that of the year of the real-time clock, allows 0 to 255 only.
`get_module_state("system")` collects queued messages on the way.  Sensor
definitions are cached for ever, also an incomplete list, and a reset does not clear
them (`device_apis/device_control.py:34`, `:49`).  `get_all_slot_descriptions` takes
the footprint from the state (`device_apis/dmx_slots.py:53`), which may be that of
the personality before.

*Batch operations.*  An exception skips `address += spacing`
(`application/batch_operation_service.py:103`), so that a device that obeyed an
attempt whose answer was lost and the next device get the same address; this is why
`AddressesDoNotOverlap` excepts the devices in `raised`.  A discovery during
`set_all_dmx_addresses` ends it with a `RuntimeError`, and the results are lost; a
collection that is cleared and filled to the same size goes unnoticed.  A discovery
that ends after `stop` puts devices of the dead session into the collection.
