----------------------------- MODULE DeviceApis -----------------------------
(***************************************************************************)
(* The methods of the device APIs at work (services/device_apis/,          *)
(* rdm_device.py, api/routers/capabilities.py): tasks call the typed       *)
(* methods of DeviceMethods, the raw ones, the methods that ask for one    *)
(* index after the other, and the refresh of a module's state.             *)
(*                                                                         *)
(* Parameters share nothing but the clearing of the whole cache, so that a *)
(* behaviour looks at one PID, "focus", which Init chooses.  DEVICE_INFO   *)
(* and the state that it fills are in module DeviceCache.                  *)
(*                                                                         *)
(* The device is external.  An exchange holds the wire from the moment     *)
(* that the device obeys until the task has its answer.  A device may      *)
(* defer one request at a time (ACK_TIMER): it then obeys while others use *)
(* the wire, and the answer is fetched later.                              *)
(***************************************************************************)
EXTENDS DeviceMethods, Sequences, FiniteSets

CONSTANTS
    Task,
    Value,          \* values of a parameter
    Default,        \* the one that factory_defaults restores
    MaxCount,       \* bound: indexes of an indexed parameter
    Listings,       \* for each PID, the lists that a device may give
    None

\* An answer: the value it carries, its length in bytes, and (history) whether
\* the device has changed since the answer was prepared.
Answers == [value : Value, length : Nat, old : BOOLEAN]

ASSUME ApisAssumption ==
    Default \in Value /\ None \notin Value \union Answers /\ MaxCount \in Nat

VARIABLES
    focus,          \* the PID looked at
    device,         \* external: its value in the device
    count,          \* external: how many indexes the device has (of slots: any
                    \* number, as it changes with the personality)
    listed,         \* external: the PIDs that the device lists
    owed,           \* external: what a deferred SET that is not polled for any
                    \* more will yet set, or None
    cache,          \* _parameter_cache[focus], or None
    known_count,    \* DeviceState: dmx_footprint or sensor_count
    definitions,    \* _cached_definitions of the sensors, or None
    checked,        \* _capabilities_checked
    supported,      \* _supported_pids
    pc,             \* idle, asking, answered, deferred, worked
    call,           \* what the task has called
    answer,         \* the answer it has, or None
    todo,           \* the indexes that a sweep has still to ask for
    list,           \* what a sweep has collected
    failed,         \* history: the indexes of a sweep that have failed
    doubt           \* history: the entry may be older than the device's value

external == <<focus, listed, count>>
capabilities == <<checked, supported>>
sweeping == <<todo, list, failed>>
vars == <<external, device, owed, cache, known_count, definitions, capabilities,
          pc, call, answer, sweeping, doubt>>

Call(kind, method, use_cache, value, missing) ==
    [kind |-> kind, method |-> method, use_cache |-> use_cache, value |-> value,
     missing |-> missing]

NoMethod == Action("none", "none", "none")
NoCall == Call("none", NoMethod, FALSE, None, FALSE)

\* External: the device takes a SET of the PID.
Settable == \E m \in Methods : m.pid = focus /\ m.verb = "set"

Init ==
    /\ focus \in Pid
    /\ device \in (IF Settable THEN Value ELSE {Default})
    /\ count \in 0 .. MaxCount
    /\ count # 0 => focus # "SLOT_DESCRIPTION" /\ \E s \in Sweeps : s.pid = focus
    /\ listed \in Listings[focus]
    /\ owed = None
    /\ cache = None
    /\ known_count = 0
    /\ definitions = None
    /\ checked = FALSE
    /\ supported = {}
    /\ pc = [t \in Task |-> "idle"]
    /\ call = [t \in Task |-> NoCall]
    /\ answer = [t \in Task |-> None]
    /\ todo = [t \in Task |-> {}]
    /\ list = [t \in Task |-> <<>>]
    /\ failed = [t \in Task |-> {}]
    /\ doubt = FALSE

-----------------------------------------------------------------------------
(* Calls.                                                                  *)

Known(pid) == SupportsPid(checked, supported, pid)

Start(t, c) ==
    /\ pc' = [pc EXCEPT ![t] = "asking"]
    /\ call' = [call EXCEPT ![t] = c]
    /\ UNCHANGED <<external, device, owed, cache, known_count, definitions,
                   capabilities, answer, doubt>>

\* The typed methods of the focus, and the two that clear the whole cache.
\* An entry of the cache answers at once, and nothing changes.
CallMethod(t) ==
    /\ pc[t] = "idle"
    /\ \E m \in Methods :
        /\ m.pid = focus \/ AnyPid \in m.clears
        /\ \E use \in (IF m.cached THEN BOOLEAN ELSE {FALSE}),
              v \in (IF m.verb = "set" THEN Value ELSE {None}) :
            /\ use => cache = None
            /\ Start(t, Call("method", m, use, v, FALSE))
    /\ UNCHANGED sweeping

\* raw.get and raw.set take any PID, and pass the cache by.
\* (FACTORY_DEFAULTS through raw.set does to the focus what Default does.)
RawMethod(verb) == Method("raw", "raw", focus, verb, FALSE, FALSE, 0, 0, {})

CallRaw(t) ==
    /\ pc[t] = "idle"
    /\ \E v \in (IF Settable THEN Value ELSE {}) \union {None} :
        Start(t, Call("raw", RawMethod(IF v = None THEN "get" ELSE "set"), FALSE, v, FALSE))
    /\ UNCHANGED sweeping

\* get_module_state: every getter without an argument, but for those whose PID
\* the device is known to lack.
CallRefresh(t) ==
    /\ pc[t] = "idle"
    /\ \E m \in Methods :
        /\ m.pid = focus /\ m.verb = "get" /\ ~m.index /\ m.module # "device"
        /\ Offered(checked, supported, m.module, m.name)
        /\ m.cached => cache = None
        /\ Start(t, Call("method", m, m.cached, None, ~Known(focus)))
    /\ UNCHANGED sweeping

\* How many indexes a sweep asks for: the count of the last DEVICE_INFO, or what
\* the request before it has told, if it was answered.
SweepCounts == IF focus \in {"SENSOR_DEFINITION", "SLOT_DESCRIPTION"}
               THEN {known_count} ELSE {0, count}

\* get_all_sensor_definitions takes its own list, if there is one.
CallSweep(t) ==
    /\ pc[t] = "idle"
    /\ \E s \in Sweeps, refresh \in BOOLEAN, use \in BOOLEAN, n \in SweepCounts :
        /\ s.pid = focus
        /\ n > 0
        /\ use /\ focus = "SENSOR_DEFINITION" => definitions = None
        /\ refresh => /\ s.module \in {"sensor_definitions", "slots"}
                      /\ Offered(checked, supported, s.module, s.name)
        /\ \E m \in Methods :
            /\ m.pid = focus /\ m.verb = "get"
            /\ Start(t, Call("sweep", m, FALSE, None,
                             refresh /\ ~Known(focus)))
        /\ todo' = [todo EXCEPT ![t] = 1 .. n]
        /\ list' = [list EXCEPT ![t] = <<>>]
        /\ failed' = [failed EXCEPT ![t] = {}]

-----------------------------------------------------------------------------
(* Exchanges.                                                              *)

WireFree == \A t \in Task : pc[t] # "answered"

Implements(pid) == pid \in listed \union MANDATORY_PIDS

\* A sweep asks for the lowest index that is left.
Index(t) == CHOOSE i \in todo[t] : \A j \in todo[t] : i <= j

\* What a call sets, or None.
Effect(c) ==
    IF c.method.verb # "set" THEN None
    ELSE IF c.method.pid = "FACTORY_DEFAULTS" THEN Default
    ELSE IF c.method.pid = focus THEN c.value ELSE None

Obeyed(c) == IF Effect(c) = None THEN device ELSE Effect(c)

Pending(t) == pc[t] \in {"answered", "worked"}

\* The device has changed: what has been prepared before is old.
Aged(a) == IF a # None /\ device' # device THEN [a EXCEPT !.old = TRUE] ELSE a

\* The device obeys.  The answer may be shorter than the standard says.
Reply(t, stage) ==
    /\ device' = Obeyed(call[t])
    /\ \E length \in {n \in 0 .. call[t].method.least : n + 1 >= call[t].method.least} :
        answer' = [u \in Task |->
                      IF u = t THEN [value |-> device', length |-> length, old |-> FALSE]
                      ELSE Aged(answer[u])]
    /\ pc' = [pc EXCEPT ![t] = stage]
    /\ UNCHANGED <<external, owed, cache, known_count, definitions, capabilities,
                   call, sweeping, doubt>>

Obey(t) ==
    /\ pc[t] = "asking"
    /\ WireFree
    /\ call[t].method.pid = focus => Implements(focus)
    /\ Reply(t, "answered")

\* A step of the exchange in which nothing is obeyed and no answer is lost.
Wait(t, from, to) ==
    /\ pc[t] = from
    /\ WireFree
    /\ pc' = [pc EXCEPT ![t] = to]
    /\ UNCHANGED <<external, device, owed, cache, known_count, definitions,
                   capabilities, call, answer, sweeping, doubt>>

\* The answer is ACK_TIMER: the device will see to it.
Defer(t) ==
    /\ call[t].method.pid = focus => Implements(focus)
    /\ \A u \in Task : pc[u] \notin {"deferred", "worked"}
    /\ owed = None
    /\ Wait(t, "asking", "deferred")

\* It does, whoever uses the wire, and keeps the answer.
Work(t) == pc[t] = "deferred" /\ Reply(t, "worked")

\* QUEUED_MESSAGE fetches it.
Collect(t) == Wait(t, "worked", "answered")

\* A SET that nobody hears of leaves the entry in doubt.
Doubted(t) == doubt \/ (call[t].method.verb = "set" /\ cache \notin {None, device})

Retry(t) ==
    /\ pc' = [pc EXCEPT ![t] = "asking"]
    /\ answer' = [answer EXCEPT ![t] = None]
    /\ UNCHANGED <<external, device, cache, known_count, definitions,
                   capabilities, call, sweeping>>

\* A time-out in the place of the answer, and another attempt.
LoseAnswer(t) ==
    /\ pc[t] = "answered"
    /\ Retry(t)
    /\ doubt' = Doubted(t)
    /\ UNCHANGED owed

\* The polls are used up, or one has timed out: another attempt, with the
\* deferred request done or still to be done.
StopPolling(t) ==
    /\ Retry(t)
    /\ \/ /\ pc[t] = "deferred"
          /\ owed' = Effect(call[t])
          /\ UNCHANGED doubt
       \/ /\ pc[t] = "worked"
          /\ doubt' = Doubted(t)
          /\ UNCHANGED owed

\* It is done behind everybody's back.
WorkLate ==
    /\ owed # None
    /\ device' = owed
    /\ owed' = None
    /\ answer' = [u \in Task |-> Aged(answer[u])]
    /\ doubt' = (doubt \/ cache \notin {None, owed})
    /\ UNCHANGED <<external, cache, known_count, definitions, capabilities,
                   pc, call, sweeping>>

Return(t) ==
    /\ pc' = [pc EXCEPT ![t] = "idle"]
    /\ call' = [call EXCEPT ![t] = NoCall]
    /\ answer' = [answer EXCEPT ![t] = None]
    /\ UNCHANGED <<external, device, owed, known_count, capabilities>>

\* "response_data and len(response_data) >= least".
Accepted(t) == answer[t].length >= call[t].method.least

\* The attempts are used up, or the device has refused.
GiveUp(t) ==
    /\ pc[t] = "asking"
    /\ call[t].kind # "sweep"
    /\ Return(t)
    /\ UNCHANGED <<cache, definitions, sweeping, doubt>>

\* A getter of the typed methods.
ReadDone(t) ==
    /\ pc[t] = "answered"
    /\ call[t].kind = "method" /\ call[t].method.verb = "get"
    /\ Return(t)
    /\ IF Accepted(t) /\ call[t].use_cache
       THEN cache' = answer[t].value /\ doubt' = answer[t].old
       ELSE UNCHANGED <<cache, doubt>>
    /\ UNCHANGED <<definitions, sweeping>>

\* A setter: its success clears what its row of the table says.
WriteDone(t) ==
    /\ pc[t] = "answered"
    /\ call[t].kind = "method" /\ call[t].method.verb = "set"
    /\ Return(t)
    /\ IF Clears(call[t].method, focus)
       THEN cache' = None /\ doubt' = FALSE
       ELSE UNCHANGED <<cache, doubt>>
    /\ UNCHANGED <<definitions, sweeping>>

\* raw.set clears nothing: the entry of a typed getter outlives it.
RawDone(t) ==
    /\ pc[t] = "answered"
    /\ call[t].kind = "raw"
    /\ Return(t)
    /\ doubt' = Doubted(t)
    /\ UNCHANGED <<cache, definitions, sweeping>>

\* cache_max_age, or clear_all_caches() of the collection.
Expire ==
    /\ cache # None
    /\ cache' = None
    /\ doubt' = FALSE
    /\ UNCHANGED <<external, device, owed, known_count, definitions, capabilities,
                   pc, call, answer, sweeping>>

-----------------------------------------------------------------------------
(* Sweeps.                                                                 *)

\* An index that fails leaves a blank in the list, or nothing at all.
KeepsBlanks == focus \in {"SLOT_DESCRIPTION", "PARAMETER_DESCRIPTION", "SENSOR_VALUE"}

Entry(i, content) == [index |-> i, content |-> content]

\* The last index ends the sweep; only the sensor definitions are kept.
SweepOn(t, i, l) ==
    /\ todo' = [todo EXCEPT ![t] = @ \ {i}]
    /\ list' = [list EXCEPT ![t] = l]
    /\ IF todo[t] = {i}
       THEN /\ Return(t)
            /\ definitions' = IF focus = "SENSOR_DEFINITION" THEN l ELSE definitions
       ELSE /\ pc' = [pc EXCEPT ![t] = "asking"]
            /\ answer' = [answer EXCEPT ![t] = None]
            /\ UNCHANGED <<external, device, owed, known_count, definitions,
                           capabilities, call>>
    /\ UNCHANGED <<cache, doubt>>

SweepAnswered(t) ==
    /\ pc[t] = "answered"
    /\ call[t].kind = "sweep"
    /\ Accepted(t)
    /\ SweepOn(t, Index(t), Append(list[t], Entry(Index(t), answer[t].value)))
    /\ UNCHANGED failed

(* Mutant of SweepFails: a slot that fails is left out of the list.        *)
SweepFailsSkips(t) ==
    /\ pc[t] = "asking"
    /\ call[t].kind = "sweep"
    /\ SweepOn(t, Index(t), list[t])
    /\ failed' = [failed EXCEPT ![t] = @ \union {Index(t)}]

\* The request has failed, or its answer is too short.
SweepFails(t) ==
    /\ \/ pc[t] = "asking"
       \/ pc[t] = "answered" /\ ~Accepted(t)
    /\ call[t].kind = "sweep"
    /\ SweepOn(t, Index(t), IF KeepsBlanks THEN Append(list[t], Entry(Index(t), None))
                            ELSE list[t])
    /\ failed' = [failed EXCEPT ![t] = @ \union {Index(t)}]

\* get_device_info tells how many indexes there are.
ReadDeviceInfo ==
    /\ known_count' \in (IF focus = "SLOT_DESCRIPTION" THEN 0 .. MaxCount ELSE {count})
    /\ known_count' # known_count
    /\ UNCHANGED <<external, device, owed, cache, definitions, capabilities,
                   pc, call, answer, sweeping, doubt>>

-----------------------------------------------------------------------------
\* check_capabilities: the list of the device, if there is something in it.
CheckCapabilities ==
    /\ ~checked
    /\ listed # {}
    /\ checked' = TRUE
    /\ supported' = listed
    /\ UNCHANGED <<external, device, owed, cache, known_count, definitions,
                   pc, call, answer, sweeping, doubt>>

TaskStep(t) ==
    \/ CallMethod(t) \/ CallRaw(t) \/ CallRefresh(t) \/ CallSweep(t)
    \/ Obey(t) \/ Defer(t) \/ Work(t) \/ Collect(t)
    \/ LoseAnswer(t) \/ StopPolling(t) \/ GiveUp(t)
    \/ ReadDone(t) \/ WriteDone(t) \/ RawDone(t)
    \/ SweepAnswered(t) \/ SweepFails(t)

Next ==
    \/ \E t \in Task : TaskStep(t)
    \/ WorkLate \/ Expire \/ ReadDeviceInfo \/ CheckCapabilities

Spec == Init /\ [][Next]_vars

-----------------------------------------------------------------------------
(* Properties.                                                             *)

Entries == [index : 1 .. MaxCount, content : Value \union {None}]

Calls == [kind : {"none", "method", "raw", "sweep"},
          method : Methods \union {NoMethod, RawMethod("get"), RawMethod("set")},
          use_cache : BOOLEAN, value : Value \union {None}, missing : BOOLEAN]

(* Every variable has a value of its type.                                *)
TypeOK ==
    /\ focus \in Pid /\ listed \in Listings[focus]
    /\ device \in Value /\ owed \in Value \union {None}
    /\ {count, known_count} \subseteq 0 .. MaxCount
    /\ cache \in Value \union {None}
    /\ definitions # None => definitions \in Seq(Entries)
    /\ checked \in BOOLEAN /\ supported \in {{}, listed}
    /\ pc \in [Task -> {"idle", "asking", "answered", "deferred", "worked"}]
    /\ call \in [Task -> Calls]
    /\ answer \in [Task -> Answers \union {None}]
    /\ {todo, failed} \subseteq [Task -> SUBSET (1 .. MaxCount)]
    /\ list \in [Task -> Seq(Entries)]
    /\ \A t \in Task :
        /\ pc[t] = "idle" <=> call[t].kind = "none"
        /\ Pending(t) <=> answer[t] # None
    /\ doubt \in BOOLEAN

(* A typed getter takes its value from the cache only while the device has *)
(* it, whichever of the methods of its PID are called, but for three ways  *)
(* in which the code lets an older value in: raw.set passes the cache by,  *)
(* the answer to a SET is lost or given up, and the answer that a getter   *)
(* keeps was prepared (ACK_TIMER) before a SET that has since been obeyed. *)
(* While a SET waits for its answer the entry may be older than the value. *)
TypedCacheIsFresh ==
    (\A t \in Task : Pending(t) => call[t].method.verb = "get") /\ ~doubt =>
        cache \in {None, device}

(* The refresh of a module's state asks for nothing that the device is     *)
(* known to lack: the PIDs of METHOD_PID are those the methods really use. *)
RefreshAsksSupported == \A t \in Task : pc[t] # "idle" => ~call[t].missing

\* The PIDs that the methods of a module really use.
MethodPids == [module \in Module |-> {m.pid : m \in {n \in Methods : n.module = module}}]

(* What the program says about a module is one thing, whoever is asked:    *)
(* supports_api() and the details agree, also for a device that leaves out *)
(* the mandatory PIDs, and a module is supported if a method of it is.     *)
SupportIsConsistent ==
    \A module \in Module \ {"raw"} :
        LET supports == SupportsApi(checked, supported, module)
        IN  /\ supports <=> DetailsSupported(checked, supported, module)
            /\ supports <=> \E pid \in MethodPids[module] : Known(pid)

InOrder(l) == \A i, j \in DOMAIN l : i < j => l[i].index < l[j].index

(* A sweep asks for every index once and in order: what is blank in its    *)
(* list, or missing from it, has failed, whatever other tasks do and       *)
(* however the number of indexes changes under it.  The definitions that   *)
(* are kept are the list of one sweep.                                     *)
SweepIsWhole ==
    /\ \A t \in Task :
        LET got == {list[t][i].index : i \in DOMAIN list[t]}
            all == got \union failed[t] \union todo[t]
        IN  /\ InOrder(list[t])
            /\ all = 1 .. Cardinality(all)
            /\ \A i \in DOMAIN list[t] : list[t][i].content = None <=> list[t][i].index \in failed[t]
            /\ KeepsBlanks => \A i \in DOMAIN list[t] : list[t][i].index = i
    /\ definitions # None => InOrder(definitions)

(* No method decodes more bytes than it has made sure of: an answer that   *)
(* is too short is None, not an exception.                                 *)
DecodesWhatIsThere ==
    \A t \in Task :
        pc[t] = "answered" /\ Accepted(t) => answer[t].length >= call[t].method.needs
=============================================================================
