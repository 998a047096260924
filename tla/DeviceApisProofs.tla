-------------------------- MODULE DeviceApisProofs --------------------------
(***************************************************************************)
(* Theorems about the methods of the device APIs: first about the tables   *)
(* of DeviceMethods, row by row, and then about DeviceApis, for any number *)
(* of tasks, values and indexes.                                           *)
(***************************************************************************)
EXTENDS DeviceApis, FiniteSetTheorems, SequenceTheorems, TLAPS

-----------------------------------------------------------------------------
(* The tables.                                                             *)

\* The PIDs whose SET clears nothing; no getter keeps their answer.
ActionPids == {"IDENTIFY_DEVICE", "RECORD_SENSORS", "CAPTURE_PRESET", "PERFORM_SELFTEST",
               "CLEAR_STATUS_ID", "COMMS_STATUS"}

(* What every row must be for the cache and the decoding to be right.      *)
GoodRow(m) ==
    /\ m.verb \in {"get", "set"} /\ m.cached \in BOOLEAN
    /\ m.least \in Nat /\ m.needs \in Nat /\ m.needs <= m.least
    /\ m.verb = "get" => m.clears = {}
    /\ m.cached => m.verb = "get" /\ m.pid \notin ActionPids
    /\ m.verb = "set" => m.pid \in ActionPids \/ Clears(m, m.pid)
    /\ m.pid = "FACTORY_DEFAULTS" => m.verb = "set" /\ AnyPid \in m.clears
    /\ m.pid # NoPid

\* METHOD_PID has the PID that the method really asks for.
Listed(m) == MethodPid(m.module, m.name) = m.pid

ReadsAtOnce(m) == m.verb = "get" /\ ~m.index /\ m.module # "device"

(* A getter is a good row if it makes sure of the bytes that it decodes,   *)
(* and a setter if it clears its own entry or is one of the actions.       *)
LEMMA GetterRow ==
    ASSUME NEW module, NEW name, NEW pid, NEW least \in Nat, NEW needs \in Nat,
           needs <= least, pid \notin {"FACTORY_DEFAULTS", NoPid}
    PROVE  /\ pid \notin ActionPids => GoodRow(Cached(module, name, pid, least, needs))
           /\ GoodRow(Uncached(module, name, pid, least, needs))
           /\ GoodRow(Indexed(module, name, pid, least, needs))
  BY DEF Cached, Uncached, Indexed, Method, GoodRow

LEMMA SetterRow ==
    ASSUME NEW module, NEW name, NEW pid, NEW clears,
           pid # NoPid, pid \in ActionPids \/ pid \in clears \/ AnyPid \in clears,
           pid = "FACTORY_DEFAULTS" => AnyPid \in clears
    PROVE  GoodRow(Setter(module, name, pid, clears))
  BY DEF Setter, Method, GoodRow, Clears

(* Every method of every API class is a good row.                          *)
LEMMA MethodsAreGood == \A m \in Methods : GoodRow(m)
<1> USE DEF Both, Action, ActionPids, AnyPid, NoPid
<1>1. \A m \in DeviceLabelAPI : GoodRow(m)
      BY GetterRow, SetterRow DEF DeviceLabelAPI
<1>2. \A m \in DmxConfigAPI : GoodRow(m)
      BY GetterRow, SetterRow DEF DmxConfigAPI
<1>3. \A m \in DeviceControlAPI : GoodRow(m)
      BY GetterRow, SetterRow DEF DeviceControlAPI
<1>4. \A m \in SensorsAPI : GoodRow(m)
      BY GetterRow, SetterRow DEF SensorsAPI
<1>5. \A m \in SensorDefinitionsAPI : GoodRow(m)
      BY GetterRow, SetterRow DEF SensorDefinitionsAPI
<1>6. \A m \in DeviceMaintenanceAPI : GoodRow(m)
      BY GetterRow, SetterRow DEF DeviceMaintenanceAPI
<1>7. \A m \in DeviceInfoAPI : GoodRow(m)
      BY GetterRow, SetterRow DEF DeviceInfoAPI
<1>8. \A m \in DmxSlotsAPI : GoodRow(m)
      BY GetterRow, SetterRow DEF DmxSlotsAPI
<1>9. \A m \in DmxModesAPI : GoodRow(m)
      BY GetterRow, SetterRow DEF DmxModesAPI
<1>10. \A m \in LampControlAPI : GoodRow(m)
      BY GetterRow, SetterRow DEF LampControlAPI
<1>11. \A m \in DisplaySettingsAPI : GoodRow(m)
      BY GetterRow, SetterRow DEF DisplaySettingsAPI
<1>12. \A m \in PositionConfigAPI : GoodRow(m)
      BY GetterRow, SetterRow DEF PositionConfigAPI
<1>13. \A m \in PowerControlAPI : GoodRow(m)
      BY GetterRow, SetterRow DEF PowerControlAPI
<1>14. \A m \in SelfTestAPI : GoodRow(m)
      BY GetterRow, SetterRow DEF SelfTestAPI
<1>15. \A m \in PresetControlAPI : GoodRow(m)
      BY GetterRow, SetterRow DEF PresetControlAPI
<1>16. \A m \in SystemParameters : GoodRow(m)
      BY GetterRow, SetterRow DEF SystemParameters
<1>17. \A m \in SystemMessages : GoodRow(m)
      BY GetterRow, SetterRow DEF SystemMessages
<1>18. \A m \in SystemSettings : GoodRow(m)
      BY GetterRow, SetterRow DEF SystemSettings
<1>19. \A m \in ProxyAPI : GoodRow(m)
      BY GetterRow, SetterRow DEF ProxyAPI
<1>20. \A m \in RdmDeviceLabels : GoodRow(m)
      BY GetterRow, SetterRow DEF RdmDeviceLabels
<1> QED
    BY <1>1, <1>2, <1>3, <1>4, <1>5, <1>6, <1>7, <1>8, <1>9, <1>10, <1>11, <1>12,
       <1>13, <1>14, <1>15, <1>16, <1>17, <1>18, <1>19, <1>20
    DEF Methods

(* METHOD_PID is right about every getter that the refresh calls.          *)
LEMMA GettersAreListed == \A m \in Methods : ReadsAtOnce(m) => Listed(m)
<1> USE DEF Both, Cached, Uncached, Indexed, Setter, Action, Method,
            ReadsAtOnce, Listed, MethodPid, METHOD_PID
<1>1. \A m \in DeviceLabelAPI : ReadsAtOnce(m) => Listed(m)
      BY DEF DeviceLabelAPI
<1>2. \A m \in DmxConfigAPI : ReadsAtOnce(m) => Listed(m)
      BY DEF DmxConfigAPI
<1>3. \A m \in DeviceControlAPI : ReadsAtOnce(m) => Listed(m)
      BY DEF DeviceControlAPI
<1>4. \A m \in SensorsAPI : ReadsAtOnce(m) => Listed(m)
      BY DEF SensorsAPI
<1>5. \A m \in SensorDefinitionsAPI : ReadsAtOnce(m) => Listed(m)
      BY DEF SensorDefinitionsAPI
<1>6. \A m \in DeviceMaintenanceAPI : ReadsAtOnce(m) => Listed(m)
      BY DEF DeviceMaintenanceAPI
<1>7. \A m \in DeviceInfoAPI : ReadsAtOnce(m) => Listed(m)
      BY DEF DeviceInfoAPI
<1>8. \A m \in DmxSlotsAPI : ReadsAtOnce(m) => Listed(m)
      BY DEF DmxSlotsAPI
<1>9. \A m \in DmxModesAPI : ReadsAtOnce(m) => Listed(m)
      BY DEF DmxModesAPI
<1>10. \A m \in LampControlAPI : ReadsAtOnce(m) => Listed(m)
      BY DEF LampControlAPI
<1>11. \A m \in DisplaySettingsAPI : ReadsAtOnce(m) => Listed(m)
      BY DEF DisplaySettingsAPI
<1>12. \A m \in PositionConfigAPI : ReadsAtOnce(m) => Listed(m)
      BY DEF PositionConfigAPI
<1>13. \A m \in PowerControlAPI : ReadsAtOnce(m) => Listed(m)
      BY DEF PowerControlAPI
<1>14. \A m \in SelfTestAPI : ReadsAtOnce(m) => Listed(m)
      BY DEF SelfTestAPI
<1>15. \A m \in PresetControlAPI : ReadsAtOnce(m) => Listed(m)
      BY DEF PresetControlAPI
<1>16. \A m \in SystemParameters : ReadsAtOnce(m) => Listed(m)
      BY DEF SystemParameters
<1>17. \A m \in SystemMessages : ReadsAtOnce(m) => Listed(m)
      BY DEF SystemMessages
<1>18. \A m \in SystemSettings : ReadsAtOnce(m) => Listed(m)
      BY DEF SystemSettings
<1>19. \A m \in ProxyAPI : ReadsAtOnce(m) => Listed(m)
      BY DEF ProxyAPI
<1>20. \A m \in RdmDeviceLabels : ReadsAtOnce(m) => Listed(m)
      BY DEF RdmDeviceLabels
<1> HIDE DEF Both, Cached, Uncached, Indexed, Setter, Action, Method,
            ReadsAtOnce, Listed, MethodPid, METHOD_PID
<1> QED
    BY <1>1, <1>2, <1>3, <1>4, <1>5, <1>6, <1>7, <1>8, <1>9, <1>10, <1>11, <1>12,
       <1>13, <1>14, <1>15, <1>16, <1>17, <1>18, <1>19, <1>20
    DEF Methods

(* API_PID_MAPPING has the PIDs of the methods of each module.             *)
InMapping(m, module) == m.module = module /\ m.pid \in API_PID_MAPPING[module]

LEMMA MethodsAreMapped ==
    \A m \in Methods \ RdmDeviceLabels : m.module # "raw" /\ InMapping(m, m.module)
<1> USE DEF Both, Cached, Uncached, Indexed, Setter, Action, Method, API_PID_MAPPING, InMapping
<1>1. \A m \in DeviceLabelAPI : InMapping(m, "device_label")
      BY DEF DeviceLabelAPI
<1>2. \A m \in DmxConfigAPI : InMapping(m, "dmx_config")
      BY DEF DmxConfigAPI
<1>3. \A m \in DeviceControlAPI : InMapping(m, "control")
      BY DEF DeviceControlAPI
<1>4. \A m \in SensorsAPI : InMapping(m, "sensors")
      BY DEF SensorsAPI
<1>5. \A m \in SensorDefinitionsAPI : InMapping(m, "sensor_definitions")
      BY DEF SensorDefinitionsAPI
<1>6. \A m \in DeviceMaintenanceAPI : InMapping(m, "maintenance")
      BY DEF DeviceMaintenanceAPI
<1>7. \A m \in DeviceInfoAPI : InMapping(m, "info")
      BY DEF DeviceInfoAPI
<1>8. \A m \in DmxSlotsAPI : InMapping(m, "slots")
      BY DEF DmxSlotsAPI
<1>9. \A m \in DmxModesAPI : InMapping(m, "modes")
      BY DEF DmxModesAPI
<1>10. \A m \in LampControlAPI : InMapping(m, "lamp")
      BY DEF LampControlAPI
<1>11. \A m \in DisplaySettingsAPI : InMapping(m, "display")
      BY DEF DisplaySettingsAPI
<1>12. \A m \in PositionConfigAPI : InMapping(m, "position")
      BY DEF PositionConfigAPI
<1>13. \A m \in PowerControlAPI : InMapping(m, "power")
      BY DEF PowerControlAPI
<1>14. \A m \in SelfTestAPI : InMapping(m, "self_test")
      BY DEF SelfTestAPI
<1>15. \A m \in PresetControlAPI : InMapping(m, "presets")
      BY DEF PresetControlAPI
<1>16. \A m \in SystemParameters : InMapping(m, "system")
      BY DEF SystemParameters
<1>17. \A m \in SystemMessages : InMapping(m, "system")
      BY DEF SystemMessages
<1>18. \A m \in SystemSettings : InMapping(m, "system")
      BY DEF SystemSettings
<1>19. \A m \in ProxyAPI : InMapping(m, "proxy")
      BY DEF ProxyAPI
<1> HIDE DEF Both, Cached, Uncached, Indexed, Setter, Action, Method, API_PID_MAPPING
<1> QED
    BY <1>1, <1>2, <1>3, <1>4, <1>5, <1>6, <1>7, <1>8, <1>9, <1>10, <1>11, <1>12,
       <1>13, <1>14, <1>15, <1>16, <1>17, <1>18, <1>19
    DEF Methods

(* and nothing else.                                                       *)
Covered(module, methods) ==
    /\ API_PID_MAPPING[module] # {}
    /\ \A pid \in API_PID_MAPPING[module] :
          \E m \in methods : m.module = module /\ m.pid = pid

LEMMA MappingIsOfMethods == \A module \in Module \ {"raw"} : Covered(module, Methods)
<1> USE DEF Both, Cached, Uncached, Indexed, Setter, Action, Method, API_PID_MAPPING, Covered
<1>1. Covered("device_label", DeviceLabelAPI)
      BY DEF DeviceLabelAPI
<1>2. Covered("dmx_config", DmxConfigAPI)
      BY DEF DmxConfigAPI
<1>3. Covered("control", DeviceControlAPI)
      BY DEF DeviceControlAPI
<1>4. Covered("sensors", SensorsAPI)
      BY DEF SensorsAPI
<1>5. Covered("sensor_definitions", SensorDefinitionsAPI)
      BY DEF SensorDefinitionsAPI
<1>6. Covered("maintenance", DeviceMaintenanceAPI)
      BY DEF DeviceMaintenanceAPI
<1>7. Covered("info", DeviceInfoAPI)
      BY DEF DeviceInfoAPI
<1>8. Covered("slots", DmxSlotsAPI)
      BY DEF DmxSlotsAPI
<1>9. Covered("modes", DmxModesAPI)
      BY DEF DmxModesAPI
<1>10. Covered("lamp", LampControlAPI)
      BY DEF LampControlAPI
<1>11. Covered("display", DisplaySettingsAPI)
      BY DEF DisplaySettingsAPI
<1>12. Covered("position", PositionConfigAPI)
      BY DEF PositionConfigAPI
<1>13. Covered("power", PowerControlAPI)
      BY DEF PowerControlAPI
<1>14. Covered("self_test", SelfTestAPI)
      BY DEF SelfTestAPI
<1>15. Covered("presets", PresetControlAPI)
      BY DEF PresetControlAPI
<1>16. Covered("system", SystemParameters \union SystemMessages \union SystemSettings)
      BY DEF SystemParameters, SystemMessages, SystemSettings
<1>17. Covered("proxy", ProxyAPI)
      BY DEF ProxyAPI
<1>18. Module \ {"raw"} = { "device_label", "dmx_config", "control", "sensors",
                           "sensor_definitions", "maintenance", "info", "slots",
                           "modes", "lamp", "display", "position", "power",
                           "self_test", "presets", "system", "proxy"}
      BY DEF Module
<1> HIDE DEF Both, Cached, Uncached, Indexed, Setter, Action, Method, API_PID_MAPPING
<1>19. ASSUME NEW module, NEW methods \in SUBSET Methods, Covered(module, methods)
       PROVE  Covered(module, Methods)
      BY <1>19
<1> HIDE DEF Covered
<1> QED
    BY <1>1, <1>2, <1>3, <1>4, <1>5, <1>6, <1>7, <1>8, <1>9, <1>10, <1>11, <1>12,
       <1>13, <1>14, <1>15, <1>16, <1>17, <1>18, <1>19
    DEF Methods

(* The typed entry of a PID that an action goes for is never in the cache. *)
CachedPids == {m.pid : m \in {n \in Methods : n.cached}}

LEMMA CachedPidsFacts ==
    /\ CachedPids \cap ActionPids = {}
    /\ "FACTORY_DEFAULTS" \notin CachedPids
    /\ \A m \in Methods : m.cached => m.pid \in CachedPids
  BY MethodsAreGood DEF CachedPids, GoodRow

-----------------------------------------------------------------------------
(* The tasks and their calls.                                              *)

DeviceTypes ==
    /\ focus \in Pid /\ listed \in Listings[focus]
    /\ device \in Value /\ owed \in Value \union {None}
    /\ count \in 0 .. MaxCount /\ known_count \in 0 .. MaxCount
    /\ cache \in Value \union {None}
    /\ definitions # None => definitions \in Seq(Entries)
    /\ checked \in BOOLEAN /\ supported \in {{}, listed}
    /\ doubt \in BOOLEAN

SweepTypes ==
    /\ todo \in [Task -> SUBSET (1 .. MaxCount)]
    /\ failed \in [Task -> SUBSET (1 .. MaxCount)]
    /\ list \in [Task -> Seq(Entries)]

Stages == {"idle", "asking", "answered", "deferred", "worked"}

TaskTypes ==
    /\ pc \in [Task -> Stages]
    /\ call \in [Task -> Calls]
    /\ answer \in [Task -> Answers \union {None}]
    /\ \A t \in Task :
        /\ pc[t] = "idle" <=> call[t].kind = "none"
        /\ Pending(t) <=> answer[t] # None

LEMMA Types == TypeOK <=> DeviceTypes /\ SweepTypes /\ TaskTypes
  BY DEF TypeOK, DeviceTypes, SweepTypes, TaskTypes, Stages

(* What a call asks for while "pid" is looked at: "rest" is what is left   *)
(* of its sweep.                                                           *)
GoodCall(c, rest, pid) ==
    /\ c.kind # "none" /\ c.method.verb = "set" => c.kind # "sweep" /\ c.value \in Value
    /\ c.kind = "method" =>
           /\ c.method \in Methods
           /\ c.method.pid = pid \/ AnyPid \in c.method.clears
           /\ c.use_cache => c.method.cached /\ c.method.pid = pid
    /\ c.kind = "raw" => c.method.pid = pid /\ c.method.least = 0 /\ c.method.needs = 0
    /\ c.kind = "sweep" =>
           /\ c.method \in Methods
           /\ c.method.pid = pid /\ c.method.verb = "get"
           /\ rest # {}
    /\ ~c.missing

\* The device has the value that it answers, unless the answer has grown old.
AnswersInv == \A t \in Task : Pending(t) /\ ~answer[t].old => answer[t].value = device

TasksInv ==
    /\ DeviceTypes /\ SweepTypes /\ TaskTypes
    /\ \A t \in Task : GoodCall(call[t], todo[t], focus)
    /\ AnswersInv

LEMMA InitTasks == Init => TasksInv
<1> SUFFICES ASSUME Init PROVE TasksInv
    OBVIOUS
<1>1. Default \in Value /\ MaxCount \in Nat
      BY ApisAssumption
<1>2. DeviceTypes
  <2>1. /\ focus \in Pid /\ listed \in Listings[focus]
        /\ count \in 0 .. MaxCount /\ known_count = 0
        /\ owed = None /\ cache = None /\ definitions = None /\ supported = {}
    BY DEF Init
  <2>2. device \in Value
    BY <1>1 DEF Init
  <2>3. checked \in BOOLEAN /\ doubt \in BOOLEAN
    BY DEF Init
  <2>4. QED
    BY <1>1, <2>1, <2>2, <2>3 DEF DeviceTypes
<1>3. SweepTypes
  <2>1. <<>> \in Seq(Entries)
    BY EmptySeq
  <2>2. QED
    BY <2>1 DEF Init, SweepTypes
<1>4. NoCall \in Calls /\ NoCall.kind = "none" /\ ~NoCall.missing
      BY DEF NoCall, Call, Calls
<1>5. /\ pc = [t \in Task |-> "idle"]
      /\ call = [t \in Task |-> NoCall]
      /\ answer = [t \in Task |-> None]
      BY DEF Init
<1>6. TaskTypes
      BY <1>4, <1>5 DEF TaskTypes, Stages, Pending
<1>7. \A t \in Task : GoodCall(call[t], todo[t], focus)
      BY <1>4, <1>5 DEF GoodCall
<1>8. AnswersInv
      BY <1>5 DEF AnswersInv, Pending
<1> QED
    BY <1>2, <1>3, <1>6, <1>7, <1>8 DEF TasksInv

(* A step of one task, which leaves the device as it is.  Its own state    *)
(* is the argument: what it awaits, its call, its answer, its sweep.       *)
LEMMA TaskMoves ==
    ASSUME TasksInv, NEW t \in Task,
           NEW stage \in {"idle", "asking", "deferred"}, NEW c \in Calls,
           pc' = [pc EXCEPT ![t] = stage],
           call' = [call EXCEPT ![t] = c],
           answer' = [answer EXCEPT ![t] = None] \/ (answer' = answer /\ ~Pending(t)),
           stage = "idle" <=> c.kind = "none",
           GoodCall(c, todo'[t], focus),
           SweepTypes', \A u \in Task \ {t} : todo'[u] = todo[u],
           DeviceTypes', focus' = focus, device' = device
    PROVE  TasksInv'
  <1>1. /\ pc \in [Task -> Stages]
        /\ call \in [Task -> Calls]
        /\ answer \in [Task -> Answers \union {None}]
    BY DEF TasksInv, TaskTypes
  <1>2. answer' = [answer EXCEPT ![t] = None]
    BY <1>1 DEF TasksInv, TaskTypes
  <1>3. Calls' = Calls
    BY DEF Calls, RawMethod
  <1>4. \A u \in Task :
            /\ pc'[u] = IF u = t THEN stage ELSE pc[u]
            /\ call'[u] = IF u = t THEN c ELSE call[u]
            /\ answer'[u] = IF u = t THEN None ELSE answer[u]
    BY <1>1, <1>2
  <1>5. TaskTypes'
    <2>1. /\ pc' \in [Task -> Stages]
          /\ call' \in [Task -> Calls']
          /\ answer' \in [Task -> Answers \union {None}]
      BY <1>1, <1>2, <1>3 DEF Stages
    <2>2. ASSUME NEW u \in Task
          PROVE  /\ pc'[u] = "idle" <=> call'[u].kind = "none"
                 /\ Pending(u)' <=> answer'[u] # None
      BY <1>4 DEF TasksInv, TaskTypes, Pending
    <2>3. QED
      BY <2>1, <2>2 DEF TaskTypes
  <1>6. ASSUME NEW u \in Task PROVE GoodCall(call[u], todo[u], focus)'
    <2>1. CASE u = t
      BY <2>1, <1>4
    <2>2. CASE u # t
      BY <2>2, <1>4 DEF TasksInv
    <2>3. QED
      BY <2>1, <2>2
  <1>7. AnswersInv'
    BY <1>4 DEF TasksInv, AnswersInv, Pending
  <1> QED
    BY <1>5, <1>6, <1>7 DEF TasksInv

(* What grows old stays an answer, and one that has not is still true.     *)
LEMMA AgedAnswer ==
    ASSUME NEW a \in Answers \union {None}
    PROVE  /\ Aged(a) \in Answers \union {None}
           /\ Aged(a) # None <=> a # None
           /\ a # None /\ ~Aged(a).old => ~a.old /\ Aged(a).value = a.value /\ device' = device
  <1>1. None \notin Answers
    BY ApisAssumption
  <1>2. CASE a = None
    BY <1>2 DEF Aged
  <1>3. CASE a \in Answers /\ device' = device
    BY <1>1, <1>3 DEF Aged
  <1>4. CASE a \in Answers /\ device' # device
    <2>1. Aged(a) = [a EXCEPT !.old = TRUE]
      BY <1>1, <1>4 DEF Aged
    <2>2. [a EXCEPT !.old = TRUE] \in Answers /\ [a EXCEPT !.old = TRUE].old = TRUE
      BY <1>4 DEF Answers
    <2>3. QED
      BY <1>1, <1>4, <2>1, <2>2
  <1> QED
    BY <1>2, <1>3, <1>4

(* What is set is a value.                                                 *)
LEMMA EffectIsValue ==
    ASSUME TasksInv, NEW t \in Task, call[t].kind # "none"
    PROVE  Effect(call[t]) \in Value \union {None} /\ Obeyed(call[t]) \in Value
  <1>1. GoodCall(call[t], todo[t], focus) /\ device \in Value
    BY DEF TasksInv, DeviceTypes
  <1>2. Effect(call[t]) \in Value \union {None}
    BY <1>1, ApisAssumption DEF Effect, GoodCall
  <1> QED
    BY <1>1, <1>2 DEF Obeyed

(* The device obeys: at once, or after it has deferred the request.        *)
LEMMA ReplyTasks ==
    ASSUME TasksInv, NEW t \in Task, NEW stage \in {"answered", "worked"},
           pc[t] \in {"asking", "deferred"}, Reply(t, stage)
    PROVE  TasksInv'
  <1>1. /\ pc \in [Task -> Stages]
        /\ call \in [Task -> Calls]
        /\ answer \in [Task -> Answers \union {None}]
    BY DEF TasksInv, TaskTypes
  <1>2. /\ device' = Obeyed(call[t])
        /\ pc' = [pc EXCEPT ![t] = stage]
        /\ UNCHANGED <<focus, listed, owed, count, cache, known_count, definitions, checked,
                       supported, call, todo, list, failed, doubt>>
    BY DEF Reply, external, capabilities, sweeping
  <1>3. call[t].kind # "none"
    BY DEF TasksInv, TaskTypes
  <1>4. device' \in Value
    BY <1>2, <1>3, EffectIsValue
  <1>5. call[t].method.least \in Nat
    <2>1. call[t].method \in Methods \union {NoMethod, RawMethod("get"), RawMethod("set")}
      BY <1>1 DEF Calls
    <2>2. \A m \in {NoMethod, RawMethod("get"), RawMethod("set")} : m.least \in Nat
      BY DEF NoMethod, RawMethod, Action, Setter, Method
    <2>3. \A m \in Methods : m.least \in Nat
      BY MethodsAreGood DEF GoodRow
    <2>4. QED
      BY <2>1, <2>2, <2>3
  <1>6. PICK length \in {n \in 0 .. call[t].method.least : n + 1 >= call[t].method.least} :
            answer' = [u \in Task |->
                          IF u = t THEN [value |-> device', length |-> length, old |-> FALSE]
                          ELSE Aged(answer[u])]
    BY DEF Reply
  <1> DEFINE new == [value |-> device', length |-> length, old |-> FALSE]
  <1>7. new \in Answers /\ new # None /\ new.value = device' /\ new.old = FALSE
    <2>1. new \in Answers
      BY <1>4, <1>5, <1>6 DEF Answers
    <2>2. QED
      BY <2>1, ApisAssumption
  <1> HIDE DEF new
  <1>8. \A u \in Task :
            /\ pc'[u] = IF u = t THEN stage ELSE pc[u]
            /\ answer'[u] = IF u = t THEN new ELSE Aged(answer[u])
    BY <1>1, <1>2, <1>6 DEF new
  <1>9. Calls' = Calls
    BY <1>2 DEF Calls, RawMethod, external
  <1>10. \A u \in Task : answer[u] \in Answers \union {None}
    BY <1>1
  <1>11. TaskTypes'
    <2>1. pc' \in [Task -> Stages] /\ call' \in [Task -> Calls']
      BY <1>1, <1>2, <1>9 DEF Stages
    <2>2. answer' \in [Task -> Answers \union {None}]
      <3>1. \A u \in Task : (IF u = t THEN new ELSE Aged(answer[u])) \in Answers \union {None}
        BY <1>7, <1>10, AgedAnswer
      <3>2. answer' = [u \in Task |-> IF u = t THEN new ELSE Aged(answer[u])]
        BY <1>6 DEF new
      <3>3. QED
        BY <3>1, <3>2
    <2>3. ASSUME NEW u \in Task
          PROVE  /\ pc'[u] = "idle" <=> call'[u].kind = "none"
                 /\ Pending(u)' <=> answer'[u] # None
      <3>1. CASE u = t
        BY <1>2, <1>3, <1>7, <1>8, <3>1 DEF Pending
      <3>2. CASE u # t
        <4>1. answer'[u] = Aged(answer[u]) /\ pc'[u] = pc[u] /\ call'[u] = call[u]
          BY <1>2, <1>8, <3>2
        <4>2. answer'[u] # None <=> answer[u] # None
          BY <1>10, <4>1, AgedAnswer
        <4>3. QED
          BY <4>1, <4>2 DEF TasksInv, TaskTypes, Pending
      <3>3. QED
        BY <3>1, <3>2
    <2>4. QED
      BY <2>1, <2>2, <2>3 DEF TaskTypes
  <1>12. DeviceTypes'
    BY <1>2, <1>4 DEF TasksInv, DeviceTypes, Entries
  <1>13. SweepTypes'
    BY <1>2 DEF TasksInv, SweepTypes, Entries
  <1>14. \A u \in Task : GoodCall(call[u], todo[u], focus)'
    BY <1>2 DEF TasksInv
  <1>15. AnswersInv'
    <2>1. ASSUME NEW u \in Task, Pending(u)', ~answer'[u].old
          PROVE  answer'[u].value = device'
      <3>1. CASE u = t
        BY <1>7, <1>8, <3>1
      <3>2. CASE u # t
        <4>1. answer'[u] = Aged(answer[u]) /\ Pending(u)
          BY <1>8, <2>1, <3>2 DEF Pending
        <4>2. answer[u] # None
          BY <4>1 DEF TasksInv, TaskTypes
        <4>3. ~answer[u].old /\ answer'[u].value = answer[u].value /\ device' = device
          BY <1>10, <2>1, <4>1, <4>2, AgedAnswer
        <4>4. QED
          BY <4>1, <4>3 DEF TasksInv, AnswersInv
      <3>3. QED
        BY <3>1, <3>2
    <2>2. QED
      BY <2>1 DEF AnswersInv
  <1> QED
    BY <1>11, <1>12, <1>13, <1>14, <1>15 DEF TasksInv

(* A deferred SET that nobody polls for is done.                           *)
LEMMA LateTasks ==
    ASSUME TasksInv, WorkLate
    PROVE  TasksInv'
  <1>1. /\ answer \in [Task -> Answers \union {None}]
        /\ owed \in Value \union {None} /\ doubt \in BOOLEAN
    BY DEF TasksInv, TaskTypes, DeviceTypes
  <1>2. /\ owed # None /\ device' = owed /\ owed' = None
        /\ answer' = [u \in Task |-> Aged(answer[u])]
        /\ doubt' = (doubt \/ cache \notin {None, owed})
        /\ UNCHANGED <<focus, listed, count, cache, known_count, definitions, checked,
                       supported, pc, call, todo, list, failed>>
    BY DEF WorkLate, external, capabilities, sweeping
  <1>3. doubt' \in BOOLEAN
    BY <1>2
  <1>4. DeviceTypes'
    BY <1>1, <1>2, <1>3 DEF TasksInv, DeviceTypes, Entries
  <1>5. SweepTypes' /\ \A u \in Task : GoodCall(call[u], todo[u], focus)'
    BY <1>2 DEF TasksInv, SweepTypes, Entries
  <1>6. ASSUME NEW u \in Task
        PROVE  /\ answer'[u] \in Answers \union {None}
               /\ answer'[u] # None <=> answer[u] # None
               /\ answer[u] # None /\ ~answer'[u].old =>
                      ~answer[u].old /\ answer'[u].value = answer[u].value /\ device' = device
    <2>1. answer[u] \in Answers \union {None} /\ answer'[u] = Aged(answer[u])
      BY <1>1, <1>2
    <2>2. QED
      BY <2>1, AgedAnswer
  <1>7. TaskTypes'
    <2>1. answer' \in [Task -> Answers \union {None}]
      BY <1>2, <1>6
    <2>2. Calls' = Calls
      BY <1>2 DEF Calls, RawMethod
    <2>3. QED
      BY <1>2, <1>6, <2>1, <2>2 DEF TasksInv, TaskTypes, Pending
  <1>8. AnswersInv'
    BY <1>2, <1>6 DEF TasksInv, TaskTypes, AnswersInv, Pending
  <1> QED
    BY <1>4, <1>5, <1>7, <1>8 DEF TasksInv

(* The request is deferred, or what it has come to is fetched.             *)
LEMMA WaitTasks ==
    ASSUME TasksInv, NEW t \in Task,
           Wait(t, "asking", "deferred") \/ Wait(t, "worked", "answered")
    PROVE  TasksInv'
  <1>1. /\ pc \in [Task -> Stages]
        /\ call[t] \in Calls
    BY DEF TasksInv, TaskTypes
  <1>2. UNCHANGED <<focus, listed, device, owed, count, cache, known_count, definitions,
                    checked, supported, call, answer, todo, list, failed, doubt>>
    BY DEF Wait, external, capabilities, sweeping
  <1>3. DeviceTypes' /\ SweepTypes' /\ (\A u \in Task : GoodCall(call[u], todo[u], focus)')
    BY <1>2 DEF TasksInv, DeviceTypes, SweepTypes, Entries
  <1>4. ASSUME NEW u \in Task
        PROVE  /\ Pending(u)' <=> Pending(u)
               /\ pc'[u] = "idle" <=> pc[u] = "idle"
               /\ pc'[u] \in Stages
    BY <1>1 DEF Wait, Pending, Stages
  <1>5. TaskTypes'
    <2>1. pc' \in [Task -> Stages]
      BY <1>1 DEF Wait, Stages
    <2>2. Calls' = Calls
      BY <1>2 DEF Calls, RawMethod
    <2>3. QED
      BY <1>2, <1>4, <2>1, <2>2 DEF TasksInv, TaskTypes
  <1>6. AnswersInv'
    BY <1>2, <1>4 DEF TasksInv, AnswersInv
  <1> QED
    BY <1>3, <1>5, <1>6 DEF TasksInv

-----------------------------------------------------------------------------
(* Sweeps.  A list "l" that has come to index k of n: the indexes before k *)
(* are in the list or among those lost, "rest" are the others; "blanks"    *)
(* says that those lost are in the list as well.                           *)
SweepAt(l, rest, lost, blanks, k, n) ==
    /\ rest = k .. n
    /\ {l[i].index : i \in DOMAIN l} \union lost = 1 .. k - 1
    /\ InOrder(l)
    /\ \A i \in DOMAIN l : l[i].content = None <=> l[i].index \in lost
    /\ blanks => Len(l) = k - 1 /\ \A i \in DOMAIN l : l[i].index = i

Swept(t) ==
    \E n \in 0 .. MaxCount : \E k \in 1 .. n + 1 :
        SweepAt(list[t], todo[t], failed[t], KeepsBlanks, k, n)

SweptInv == \A t \in Task : Swept(t)

(* The next index joins the list, as a blank or with its value.            *)
LEMMA SweepAppends ==
    ASSUME NEW l \in Seq(Entries), NEW rest, NEW lost, NEW blanks \in BOOLEAN,
           NEW n \in Nat, NEW k \in 1 .. n, n <= MaxCount,
           SweepAt(l, rest, lost, blanks, k, n),
           NEW content \in Value \union {None}, NEW missed,
           content = None => missed = lost \union {k},
           content # None => missed = lost
    PROVE  /\ Append(l, Entry(k, content)) \in Seq(Entries)
           /\ SweepAt(Append(l, Entry(k, content)), rest \ {k}, missed, blanks, k + 1, n)
  <1> DEFINE e == Entry(k, content)
             longer == Append(l, e)
             m == Len(l)
  <1>1. MaxCount \in Nat
    BY ApisAssumption
  <1>2. e \in Entries /\ e.index = k /\ e.content = content
    BY <1>1 DEF Entry, Entries
  <1>3. m \in Nat /\ DOMAIN l = 1 .. m /\ \A i \in 1 .. m : l[i] \in Entries
    BY LenProperties, ElementOfSeq
  <1>4. /\ longer \in Seq(Entries) /\ Len(longer) = m + 1 /\ DOMAIN longer = 1 .. m + 1
        /\ \A i \in 1 .. m : longer[i] = l[i]
        /\ longer[m + 1] = e
    BY <1>2, AppendProperties, LenProperties
  <1> HIDE DEF longer, e
  <1>5. /\ rest = k .. n
        /\ {l[i].index : i \in 1 .. m} \union lost = 1 .. k - 1
        /\ \A i, j \in 1 .. m : i < j => l[i].index < l[j].index
        /\ \A i \in 1 .. m : l[i].content = None <=> l[i].index \in lost
        /\ blanks => m = k - 1 /\ \A i \in 1 .. m : l[i].index = i
    BY <1>3 DEF SweepAt, InOrder
  <1>6. \A i \in 1 .. m : l[i].index \in 1 .. k - 1
    BY <1>5
  <1>7. k \notin lost
    BY <1>5
  <1>8. rest \ {k} = k + 1 .. n
    BY <1>5
  <1>9. {longer[i].index : i \in DOMAIN longer} \union missed = 1 .. k + 1 - 1
    <2>1. {longer[i].index : i \in 1 .. m + 1} = {l[i].index : i \in 1 .. m} \union {k}
      <3>1. \A i \in 1 .. m + 1 : i \in 1 .. m \/ i = m + 1
        BY <1>3
      <3>2. 1 .. m \subseteq 1 .. m + 1 /\ m + 1 \in 1 .. m + 1
        BY <1>3
      <3>3. QED
        BY <1>2, <1>4, <3>1, <3>2
    <2>2. 1 .. k + 1 - 1 = (1 .. k - 1) \union {k}
      OBVIOUS
    <2>3. QED
      BY <1>4, <1>5, <2>1, <2>2
  <1>10. InOrder(longer)
    <2>1. ASSUME NEW i \in 1 .. m + 1, NEW j \in 1 .. m + 1, i < j
          PROVE  longer[i].index < longer[j].index
      <3>1. i \in 1 .. m
        BY <1>3, <2>1
      <3>2. CASE j \in 1 .. m
        BY <1>4, <1>5, <2>1, <3>1, <3>2
      <3>3. CASE j = m + 1
        BY <1>2, <1>4, <1>6, <3>1, <3>3
      <3>4. QED
        BY <1>3, <3>2, <3>3
    <2>2. QED
      BY <2>1, <1>4 DEF InOrder
  <1>11. \A i \in DOMAIN longer : longer[i].content = None <=> longer[i].index \in missed
    <2>1. ASSUME NEW i \in 1 .. m
          PROVE  longer[i].content = None <=> longer[i].index \in missed
      <3>1. l[i].index # k
        BY <1>6
      <3>2. QED
        BY <1>4, <1>5, <3>1
    <2>2. longer[m + 1].content = None <=> longer[m + 1].index \in missed
      BY <1>2, <1>4, <1>7
    <2>3. QED
      BY <1>3, <1>4, <2>1, <2>2
  <1>12. blanks => Len(longer) = k + 1 - 1 /\ \A i \in DOMAIN longer : longer[i].index = i
    BY <1>2, <1>3, <1>4, <1>5
  <1>13. SweepAt(longer, rest \ {k}, missed, blanks, k + 1, n)
    BY <1>8, <1>9, <1>10, <1>11, <1>12 DEF SweepAt
  <1> QED
    BY <1>4, <1>13 DEF longer, e

(* The next index fails and leaves nothing.                                *)
LEMMA SweepSkips ==
    ASSUME NEW l, NEW rest, NEW lost, NEW n \in Nat, NEW k \in 1 .. n,
           SweepAt(l, rest, lost, FALSE, k, n)
    PROVE  SweepAt(l, rest \ {k}, lost \union {k}, FALSE, k + 1, n)
  <1>1. rest \ {k} = k + 1 .. n
    BY DEF SweepAt
  <1>2. {l[i].index : i \in DOMAIN l} \union (lost \union {k}) = 1 .. k + 1 - 1
    BY DEF SweepAt
  <1>3. \A i \in DOMAIN l : l[i].index \in 1 .. k - 1
    BY DEF SweepAt
  <1>4. \A i \in DOMAIN l : l[i].content = None <=> l[i].index \in lost \union {k}
    BY <1>3 DEF SweepAt
  <1> QED
    BY <1>1, <1>2, <1>4 DEF SweepAt

(* The index that a sweep asks for.                                        *)
LEMMA IndexIs ==
    ASSUME NEW t \in Task, NEW n \in Nat, NEW k \in 1 .. n, todo[t] = k .. n
    PROVE  Index(t) = k
  <1>1. \E i \in todo[t] : \A j \in todo[t] : i <= j
    BY DEF Index
  <1>2. Index(t) \in todo[t] /\ \A j \in todo[t] : Index(t) <= j
    BY <1>1 DEF Index
  <1>3. k \in todo[t] /\ k <= Index(t) /\ Index(t) \in Nat
    BY <1>2
  <1> QED
    BY <1>2, <1>3

(* One index of a sweep, with its answer or without.                       *)
LEMMA SweepMoves ==
    ASSUME TasksInv, SweptInv, NEW t \in Task, SweepAnswered(t) \/ SweepFails(t)
    PROVE  /\ SweptInv' /\ SweepTypes'
           /\ list'[t] \in Seq(Entries) /\ InOrder(list'[t])
           /\ Index(t) \in todo[t]
  <1>1. /\ todo \in [Task -> SUBSET (1 .. MaxCount)]
        /\ failed \in [Task -> SUBSET (1 .. MaxCount)]
        /\ list \in [Task -> Seq(Entries)]
    BY DEF TasksInv, SweepTypes
  <1>2. call[t].kind = "sweep" /\ pc[t] # "idle"
    BY DEF SweepAnswered, SweepFails
  <1>3. todo[t] # {}
    BY <1>2 DEF TasksInv, GoodCall
  <1>4. MaxCount \in Nat
    BY ApisAssumption
  <1>5. PICK n \in 0 .. MaxCount :
            \E k \in 1 .. n + 1 : SweepAt(list[t], todo[t], failed[t], KeepsBlanks, k, n)
    BY DEF SweptInv, Swept
  <1>6. PICK k \in 1 .. n + 1 : SweepAt(list[t], todo[t], failed[t], KeepsBlanks, k, n)
    BY <1>5
  <1>7. todo[t] = k .. n /\ n \in Nat /\ n <= MaxCount
    BY <1>4, <1>6 DEF SweepAt
  <1>8. k \in 1 .. n
    BY <1>3, <1>7
  <1>9. Index(t) = k
    BY <1>7, <1>8, IndexIs
  <1>10. KeepsBlanks \in BOOLEAN /\ KeepsBlanks' = KeepsBlanks
    BY DEF KeepsBlanks, SweepAnswered, SweepFails, SweepOn, Return, external
  <1> DEFINE Went(l, lost) ==
                 /\ todo' = [todo EXCEPT ![t] = @ \ {k}]
                 /\ list' = [list EXCEPT ![t] = l]
                 /\ failed' = [failed EXCEPT ![t] = lost]
                 /\ l \in Seq(Entries) /\ lost \subseteq 1 .. MaxCount
                 /\ SweepAt(l, todo[t] \ {k}, lost, KeepsBlanks, k + 1, n)
  <1>11. ASSUME SweepAnswered(t) PROVE \E l, lost : Went(l, lost)
    <2> DEFINE v == answer[t].value
    <2>1. pc[t] = "answered"
          /\ todo' = [todo EXCEPT ![t] = @ \ {k}]
          /\ list' = [list EXCEPT ![t] = Append(list[t], Entry(k, v))]
          /\ failed' = failed
      BY <1>9, <1>11 DEF SweepAnswered, SweepOn
    <2>2. v \in Value \union {None} /\ v # None
      <3>1. answer[t] \in Answers
        BY <2>1 DEF TasksInv, TaskTypes, Pending
      <3>2. QED
        BY <3>1, ApisAssumption DEF Answers
    <2> HIDE DEF v
    <2>3. list[t] \in Seq(Entries) /\ failed[t] \subseteq 1 .. MaxCount
      BY <1>1
    <2>4. /\ Append(list[t], Entry(k, v)) \in Seq(Entries)
          /\ SweepAt(Append(list[t], Entry(k, v)), todo[t] \ {k}, failed[t],
                     KeepsBlanks, k + 1, n)
      BY <2>3, <1>6, <1>7, <1>8, <1>10, <2>2, SweepAppends
    <2>5. Went(Append(list[t], Entry(k, v)), failed[t])
      BY <1>1, <2>1, <2>3, <2>4
    <2>6. QED
      BY <2>5
  <1>12. ASSUME SweepFails(t) PROVE \E l, lost : Went(l, lost)
    <2> DEFINE l == IF KeepsBlanks THEN Append(list[t], Entry(k, None)) ELSE list[t]
    <2>1. todo' = [todo EXCEPT ![t] = @ \ {k}]
          /\ list' = [list EXCEPT ![t] = l]
          /\ failed' = [failed EXCEPT ![t] = failed[t] \union {k}]
      BY <1>9, <1>12 DEF SweepFails, SweepOn
    <2>2. l \in Seq(Entries) /\ SweepAt(l, todo[t] \ {k}, failed[t] \union {k}, KeepsBlanks,
                                        k + 1, n)
      <3>1. CASE KeepsBlanks
        <4>1. None \in Value \union {None} /\ KeepsBlanks = TRUE
          BY <3>1
        <4>2. /\ Append(list[t], Entry(k, None)) \in Seq(Entries)
              /\ SweepAt(Append(list[t], Entry(k, None)), todo[t] \ {k}, failed[t] \union {k},
                         KeepsBlanks, k + 1, n)
          BY <1>1, <1>6, <1>7, <1>8, <1>10, <4>1, SweepAppends
        <4>3. QED
          BY <3>1, <4>2
      <3>2. CASE ~KeepsBlanks
        <4>1. KeepsBlanks = FALSE
          BY <3>2, <1>10
        <4>2. SweepAt(list[t], todo[t] \ {k}, failed[t] \union {k}, FALSE, k + 1, n)
          BY <1>6, <1>7, <1>8, <4>1, SweepSkips
        <4>3. QED
          BY <1>1, <4>1, <4>2
      <3>3. QED
        BY <3>1, <3>2
    <2>3. failed[t] \union {k} \subseteq 1 .. MaxCount
      BY <1>1, <1>7, <1>8, <1>4
    <2> HIDE DEF l
    <2>4. Went(l, failed[t] \union {k})
      BY <2>1, <2>2, <2>3
    <2>5. QED
      BY <2>4
  <1>13. PICK l, lost : Went(l, lost)
    BY <1>11, <1>12
  <1>14. SweepTypes'
    BY <1>1, <1>13 DEF SweepTypes, Entries
  <1>15. ASSUME NEW u \in Task PROVE Swept(u)'
    <2>1. CASE u = t
      <3>1. SweepAt(list[u], todo[u], failed[u], KeepsBlanks, k + 1, n)'
        BY <1>1, <1>10, <1>13, <2>1 DEF SweepAt, InOrder
      <3>2. k + 1 \in 1 .. n + 1
        BY <1>7, <1>8
      <3>3. QED
        BY <3>1, <3>2, <1>5 DEF Swept
    <2>2. CASE u # t
      <3>1. list'[u] = list[u] /\ todo'[u] = todo[u] /\ failed'[u] = failed[u]
        BY <1>1, <1>13, <2>2
      <3>2. QED
        BY <3>1, <1>10 DEF SweptInv, Swept
    <2>3. QED
      BY <2>1, <2>2
  <1>16. list'[t] = l
    BY <1>1, <1>13
  <1>17. InOrder(l)
    BY <1>13 DEF SweepAt
  <1> QED
    BY <1>3, <1>7, <1>8, <1>9, <1>13, <1>14, <1>15, <1>16, <1>17 DEF SweptInv

-----------------------------------------------------------------------------
(* The steps of a task.                                                    *)

(* A task that is idle starts a call.                                      *)
LEMMA StartTasks ==
    ASSUME TasksInv, NEW t \in Task, NEW c \in Calls, pc[t] = "idle", Start(t, c),
           c.kind # "none", GoodCall(c, todo'[t], focus),
           SweepTypes', \A u \in Task \ {t} : todo'[u] = todo[u]
    PROVE  TasksInv'
  <1>1. /\ pc' = [pc EXCEPT ![t] = "asking"]
        /\ call' = [call EXCEPT ![t] = c]
        /\ answer' = answer /\ focus' = focus /\ device' = device
    BY DEF Start, external
  <1>2. DeviceTypes'
    BY DEF Start, external, capabilities, TasksInv, DeviceTypes, Entries
  <1>3. ("asking" = "idle" <=> c.kind = "none") /\ ~Pending(t)
    BY DEF Pending
  <1> QED
    BY <1>1, <1>2, <1>3, TaskMoves

(* A call that is over leaves the task idle.                               *)
LEMMA ReturnTasks ==
    ASSUME TasksInv, NEW t \in Task, Return(t),
           SweepTypes', \A u \in Task \ {t} : todo'[u] = todo[u],
           cache' \in Value \union {None}, doubt' \in BOOLEAN,
           definitions' # None => definitions' \in Seq(Entries)
    PROVE  TasksInv'
  <1>1. NoCall \in Calls /\ NoCall.kind = "none" /\ ~NoCall.missing
    BY DEF NoCall, Call, Calls
  <1>2. GoodCall(NoCall, todo'[t], focus)
    BY <1>1 DEF GoodCall
  <1>3. /\ pc' = [pc EXCEPT ![t] = "idle"]
        /\ call' = [call EXCEPT ![t] = NoCall]
        /\ answer' = [answer EXCEPT ![t] = None]
        /\ focus' = focus /\ listed' = listed /\ device' = device
        /\ UNCHANGED <<count, owed, known_count, checked, supported>>
    BY DEF Return, external, capabilities
  <1>4. DeviceTypes'
    <2>1. Entries' = Entries
      BY DEF Entries
    <2>2. QED
      BY <1>3, <2>1 DEF TasksInv, DeviceTypes
  <1>5. "idle" = "idle" <=> NoCall.kind = "none"
    BY <1>1
  <1> QED
    BY <1>1, <1>2, <1>3, <1>4, <1>5, TaskMoves

(* What a task calls is a good call.                                       *)
LEMMA CallTasks ==
    ASSUME TasksInv, NEW t \in Task,
           CallMethod(t) \/ CallRaw(t) \/ CallRefresh(t)
    PROVE  TasksInv'
  <1>1. UNCHANGED sweeping /\ pc[t] = "idle"
    BY DEF CallMethod, CallRaw, CallRefresh
  <1>2. SweepTypes' /\ \A u \in Task : todo'[u] = todo[u]
    BY <1>1 DEF sweeping, TasksInv, SweepTypes, Entries
  <1>3. focus # NoPid /\ focus \in Pid
    <2>1. focus \in Pid
      BY DEF TasksInv, DeviceTypes
    <2>2. QED
      BY <2>1, MethodsAreGood DEF Pid, GoodRow
  <1>4. ASSUME CallMethod(t) PROVE TasksInv'
    <2>1. PICK m \in Methods : \E use \in (IF m.cached THEN BOOLEAN ELSE {FALSE}),
                                  v \in (IF m.verb = "set" THEN Value ELSE {None}) :
              /\ m.pid = focus \/ AnyPid \in m.clears
              /\ use => cache = None
              /\ Start(t, Call("method", m, use, v, FALSE))
      BY <1>4 DEF CallMethod
    <2>2. PICK use \in (IF m.cached THEN BOOLEAN ELSE {FALSE}),
               v \in (IF m.verb = "set" THEN Value ELSE {None}) :
              /\ m.pid = focus \/ AnyPid \in m.clears
              /\ Start(t, Call("method", m, use, v, FALSE))
      BY <2>1
    <2> DEFINE c == Call("method", m, use, v, FALSE)
    <2>3. c \in Calls /\ c.kind # "none"
      BY <2>2 DEF Call, Calls
    <2>4. GoodCall(c, todo'[t], focus)
      <3>1. use => m.cached /\ m.clears = {}
        BY MethodsAreGood DEF GoodRow
      <3>2. QED
        BY <2>2, <3>1 DEF Call, GoodCall
    <2> HIDE DEF c
    <2>5. Start(t, c)
      BY <2>2 DEF c
    <2>6. QED
      BY <1>1, <1>2, <2>3, <2>4, <2>5, StartTasks
  <1>5. ASSUME CallRaw(t) PROVE TasksInv'
    <2>1. PICK v \in Value \union {None} :
            Start(t, Call("raw", RawMethod(IF v = None THEN "get" ELSE "set"), FALSE, v, FALSE))
      BY <1>5 DEF CallRaw
    <2> DEFINE c == Call("raw", RawMethod(IF v = None THEN "get" ELSE "set"), FALSE, v, FALSE)
    <2>2. c \in Calls /\ c.kind # "none"
      BY DEF Call, Calls
    <2>3. GoodCall(c, todo'[t], focus)
      BY DEF Call, GoodCall, RawMethod, Method
    <2> HIDE DEF c
    <2>4. Start(t, c)
      BY <2>1 DEF c
    <2>5. QED
      BY <1>1, <1>2, <2>2, <2>3, <2>4, StartTasks
  <1>6. ASSUME CallRefresh(t) PROVE TasksInv'
    <2>1. PICK m \in Methods :
            /\ m.pid = focus /\ m.verb = "get" /\ ~m.index /\ m.module # "device"
            /\ Offered(checked, supported, m.module, m.name)
            /\ Start(t, Call("method", m, m.cached, None, ~Known(focus)))
      BY <1>6 DEF CallRefresh
    <2>2. Known(focus)
      <3>1. MethodPid(m.module, m.name) = focus
        BY <2>1, GettersAreListed DEF ReadsAtOnce, Listed
      <3>2. QED
        BY <1>3, <2>1, <3>1 DEF Offered, Known
    <2> DEFINE c == Call("method", m, m.cached, None, ~Known(focus))
    <2>3. m.cached \in BOOLEAN
      BY MethodsAreGood DEF GoodRow
    <2>4. ~Known(focus) = FALSE
      BY <2>2
    <2>5. c \in Calls /\ c.kind # "none"
      BY <2>3, <2>4 DEF Call, Calls
    <2>6. GoodCall(c, todo'[t], focus)
      BY <2>1, <2>2 DEF Call, GoodCall
    <2> HIDE DEF c
    <2>7. Start(t, c)
      BY <2>1 DEF c
    <2>8. QED
      BY <1>1, <1>2, <2>5, <2>6, <2>7, StartTasks
  <1> QED
    BY <1>4, <1>5, <1>6

(* A sweep is called for indexes that there are.                           *)
LEMMA CallSweepTasks ==
    ASSUME TasksInv, NEW t \in Task, CallSweep(t)
    PROVE  /\ TasksInv'
           /\ \E n \in 0 .. MaxCount : /\ todo' = [todo EXCEPT ![t] = 1 .. n]
                                       /\ list' = [list EXCEPT ![t] = <<>>]
                                       /\ failed' = [failed EXCEPT ![t] = {}]
           /\ focus' = focus
  <1>1. PICK s \in Sweeps, refresh \in BOOLEAN, use \in BOOLEAN, n \in SweepCounts :
            /\ s.pid = focus /\ n > 0
            /\ refresh => /\ s.module \in {"sensor_definitions", "slots"}
                          /\ Offered(checked, supported, s.module, s.name)
            /\ \E m \in Methods :
                /\ m.pid = focus /\ m.verb = "get"
                /\ Start(t, Call("sweep", m, use, None, refresh /\ ~Known(focus)))
            /\ todo' = [todo EXCEPT ![t] = 1 .. n]
            /\ list' = [list EXCEPT ![t] = <<>>]
            /\ failed' = [failed EXCEPT ![t] = {}]
    BY DEF CallSweep
  <1>2. PICK m \in Methods :
            /\ m.pid = focus /\ m.verb = "get"
            /\ Start(t, Call("sweep", m, use, None, refresh /\ ~Known(focus)))
    BY <1>1
  <1>3. refresh => Known(focus)
    <2>1. \A x \in Sweeps : x.module \in {"sensor_definitions", "slots"} =>
              MethodPid(x.module, x.name) = x.pid /\ x.pid # NoPid
      BY DEF Sweeps, Sweep, MethodPid, METHOD_PID, NoPid
    <2>2. QED
      BY <1>1, <2>1 DEF Offered, Known
  <1>4. n \in 0 .. MaxCount
    BY ApisAssumption DEF SweepCounts, TasksInv, DeviceTypes
  <1> DEFINE c == Call("sweep", m, use, None, refresh /\ ~Known(focus))
  <1>5. (refresh /\ ~Known(focus)) = FALSE
    BY <1>3
  <1>6. c \in Calls /\ c.kind # "none"
    BY <1>5 DEF Call, Calls
  <1>7. todo \in [Task -> SUBSET (1 .. MaxCount)]
    BY DEF TasksInv, SweepTypes
  <1>8. GoodCall(c, todo'[t], focus)
    <2>1. todo'[t] = 1 .. n /\ 1 .. n # {}
      BY <1>1, <1>4, <1>7
    <2>2. QED
      BY <1>2, <1>3, <2>1 DEF Call, GoodCall
  <1>9. Start(t, c) /\ pc[t] = "idle"
    BY <1>2 DEF CallSweep
  <1>10. SweepTypes'
    <2>1. <<>> \in Seq(Entries)
      BY EmptySeq
    <2>2. 1 .. n \in SUBSET (1 .. MaxCount) /\ {} \in SUBSET (1 .. MaxCount)
      BY <1>4, ApisAssumption
    <2>3. QED
      BY <1>1, <2>1, <2>2 DEF TasksInv, SweepTypes, Entries
  <1>11. \A u \in Task \ {t} : todo'[u] = todo[u]
    BY <1>1, <1>7
  <1> HIDE DEF c
  <1>12. TasksInv'
    BY <1>6, <1>8, <1>9, <1>10, <1>11, StartTasks
  <1>13. focus' = focus
    BY <1>9 DEF Start, external
  <1> QED
    BY <1>1, <1>4, <1>12, <1>13

(* The other steps of a call that is not a sweep.                          *)
LEMMA EndTasks ==
    ASSUME TasksInv, NEW t \in Task,
           \/ LoseAnswer(t) \/ StopPolling(t)
           \/ GiveUp(t) \/ ReadDone(t) \/ WriteDone(t) \/ RawDone(t)
    PROVE  TasksInv'
  <1>1. UNCHANGED <<sweeping, definitions, external>>
    BY DEF LoseAnswer, StopPolling, Retry, GiveUp, ReadDone, WriteDone, RawDone, Return
  <1>2. SweepTypes' /\ \A u \in Task : todo'[u] = todo[u]
    BY <1>1 DEF sweeping, TasksInv, SweepTypes, Entries
  <1>3. definitions' # None => definitions' \in Seq(Entries)
    BY <1>1 DEF TasksInv, DeviceTypes
  <1>4. cache \in Value \union {None} /\ doubt \in BOOLEAN /\ device \in Value
    BY DEF TasksInv, DeviceTypes
  <1>5. Doubted(t) \in BOOLEAN
    BY DEF Doubted
  <1>6. ASSUME LoseAnswer(t) \/ StopPolling(t) PROVE TasksInv'
    <2>1. pc[t] # "idle" /\ Retry(t)
      BY <1>6 DEF LoseAnswer, StopPolling
    <2>2. /\ pc' = [pc EXCEPT ![t] = "asking"] /\ call' = call
          /\ answer' = [answer EXCEPT ![t] = None]
          /\ UNCHANGED <<focus, listed, device, count, cache, known_count, definitions,
                         checked, supported>>
      BY <2>1 DEF Retry, external, capabilities
    <2>3. call[t] \in Calls /\ call[t].kind # "none" /\ GoodCall(call[t], todo'[t], focus)
      BY <1>2, <2>1 DEF TasksInv, TaskTypes
    <2>4. owed' \in Value \union {None}
      BY <1>6, <2>3, EffectIsValue DEF LoseAnswer, StopPolling, TasksInv, DeviceTypes
    <2>5. doubt' = Doubted(t) \/ doubt' = doubt
      BY <1>6 DEF LoseAnswer, StopPolling
    <2>6. doubt' \in BOOLEAN
      BY <1>4, <1>5, <2>5, Zenon
    <2>7. DeviceTypes'
      BY <2>2, <2>4, <2>6 DEF TasksInv, DeviceTypes, Entries
    <2>8. call' = [call EXCEPT ![t] = call[t]]
      BY <2>2 DEF TasksInv, TaskTypes
    <2>9. "asking" = "idle" <=> call[t].kind = "none"
      BY <2>3
    <2>10. QED
      BY <1>2, <2>2, <2>3, <2>7, <2>8, <2>9, TaskMoves
  <1>7. ASSUME GiveUp(t) PROVE TasksInv'
    <2>1. Return(t) /\ cache' = cache /\ doubt' = doubt
      BY <1>7 DEF GiveUp
    <2>2. QED
      BY <1>2, <1>3, <1>4, <2>1, ReturnTasks
  <1>8. ASSUME ReadDone(t) PROVE TasksInv'
    <2>1. Return(t) /\ pc[t] = "answered"
      BY <1>8 DEF ReadDone
    <2>2. answer[t].value \in Value /\ answer[t].old \in BOOLEAN
      BY <2>1 DEF TasksInv, TaskTypes, Pending, Answers
    <2>3. cache' \in Value \union {None}
      BY <1>4, <1>8, <2>2 DEF ReadDone
    <2>4. doubt' = answer[t].old \/ doubt' = doubt
      BY <1>8 DEF ReadDone
    <2>5. doubt' \in BOOLEAN
      BY <1>4, <2>2, <2>4, Zenon
    <2>6. QED
      BY <1>2, <1>3, <2>1, <2>3, <2>5, ReturnTasks
  <1>9. ASSUME WriteDone(t) PROVE TasksInv'
    <2>1. Return(t) /\ (cache' = None \/ cache' = cache)
      BY <1>9 DEF WriteDone
    <2>2. doubt' = FALSE \/ doubt' = doubt
      BY <1>9 DEF WriteDone
    <2>3. doubt' \in BOOLEAN
      BY <1>4, <2>2, Zenon
    <2>4. QED
      BY <1>2, <1>3, <1>4, <2>1, <2>3, ReturnTasks
  <1>10. ASSUME RawDone(t) PROVE TasksInv'
    <2>1. Return(t) /\ cache' = cache /\ doubt' \in BOOLEAN
      BY <1>5, <1>10 DEF RawDone
    <2>2. QED
      BY <1>2, <1>3, <1>4, <2>1, ReturnTasks
  <1> QED
    BY <1>6, <1>7, <1>8, <1>9, <1>10

(* One index of a sweep, and the end of it.                                *)
LEMMA SweepTasks ==
    ASSUME TasksInv, SweptInv, NEW t \in Task, SweepAnswered(t) \/ SweepFails(t)
    PROVE  TasksInv'
  <1>1. /\ SweepTypes' /\ list'[t] \in Seq(Entries) /\ Index(t) \in todo[t]
    BY SweepMoves
  <1>2. PICK l : SweepOn(t, Index(t), l)
    BY DEF SweepAnswered, SweepFails
  <1>3. /\ todo \in [Task -> SUBSET (1 .. MaxCount)]
        /\ list \in [Task -> Seq(Entries)]
        /\ cache \in Value \union {None} /\ doubt \in BOOLEAN
        /\ call \in [Task -> Calls] /\ pc \in [Task -> Stages]
    BY DEF TasksInv, SweepTypes, DeviceTypes, TaskTypes
  <1>4. /\ todo' = [todo EXCEPT ![t] = @ \ {Index(t)}]
        /\ list'[t] = l /\ cache' = cache /\ doubt' = doubt
    BY <1>2, <1>3 DEF SweepOn
  <1>5. todo'[t] = todo[t] \ {Index(t)} /\ \A u \in Task \ {t} : todo'[u] = todo[u]
    BY <1>3, <1>4
  <1>6. CASE todo[t] = {Index(t)}
    <2>1. Return(t) /\ (definitions' = l \/ definitions' = definitions)
      BY <1>2, <1>6 DEF SweepOn
    <2>2. definitions' # None => definitions' \in Seq(Entries)
      BY <1>1, <1>4, <2>1 DEF TasksInv, DeviceTypes
    <2>3. QED
      BY <1>1, <1>3, <1>4, <1>5, <2>1, <2>2, ReturnTasks
  <1>7. CASE todo[t] # {Index(t)}
    <2>1. /\ pc' = [pc EXCEPT ![t] = "asking"]
          /\ answer' = [answer EXCEPT ![t] = None]
          /\ UNCHANGED <<focus, listed, device, owed, count, known_count, definitions,
                         checked, supported, call>>
      BY <1>2, <1>7 DEF SweepOn, external, capabilities
    <2>2. todo'[t] # {}
      BY <1>1, <1>5, <1>7
    <2>3. call[t].kind = "sweep" /\ GoodCall(call[t], todo[t], focus)
      BY DEF SweepAnswered, SweepFails, TasksInv
    <2>4. GoodCall(call[t], todo'[t], focus)
      BY <2>2, <2>3 DEF GoodCall
    <2>5. call[t] \in Calls /\ call' = [call EXCEPT ![t] = call[t]]
      BY <1>3, <2>1
    <2>6. DeviceTypes'
      BY <1>4, <2>1 DEF TasksInv, DeviceTypes, Entries
    <2>7. "asking" = "idle" <=> call[t].kind = "none"
      BY <2>3
    <2>8. QED
      BY <1>1, <1>5, <2>1, <2>4, <2>5, <2>6, <2>7, TaskMoves
  <1> QED
    BY <1>6, <1>7

(* The steps that are no task's.                                           *)
LEMMA OtherTasks ==
    ASSUME TasksInv,
           \/ Expire \/ ReadDeviceInfo \/ CheckCapabilities
           \/ UNCHANGED vars
    PROVE  TasksInv'
  <1>1. UNCHANGED <<focus, listed, device, owed, definitions, pc, call, answer, todo, list,
                    failed>>
    BY DEF Expire, ReadDeviceInfo, CheckCapabilities, vars, external,
           sweeping
  <1>2. count' \in 0 .. MaxCount /\ known_count' \in 0 .. MaxCount
    BY ApisAssumption DEF external, Expire, ReadDeviceInfo, CheckCapabilities, vars,
           TasksInv, DeviceTypes
  <1>3. cache' \in {cache, None} /\ supported' \in {supported, listed}
    BY DEF Expire, ReadDeviceInfo, CheckCapabilities, vars, capabilities
  <1>4. (doubt' = FALSE \/ doubt' = doubt) /\ (checked' = TRUE \/ checked' = checked)
    BY DEF Expire, ReadDeviceInfo, CheckCapabilities, vars, capabilities
  <1>5. doubt' \in BOOLEAN /\ checked' \in BOOLEAN
    <2>1. doubt \in BOOLEAN /\ checked \in BOOLEAN
      BY DEF TasksInv, DeviceTypes
    <2>2. QED
      BY <1>4, <2>1, Zenon
  <1>6. DeviceTypes'
    BY <1>1, <1>2, <1>3, <1>5 DEF TasksInv, DeviceTypes, Entries
  <1>7. SweepTypes' /\ TaskTypes'
    BY <1>1 DEF TasksInv, SweepTypes, TaskTypes, Entries, Calls, RawMethod, Pending
  <1>8. (\A t \in Task : GoodCall(call[t], todo[t], focus))' /\ AnswersInv'
    BY <1>1 DEF TasksInv, AnswersInv, Pending
  <1> QED
    BY <1>6, <1>7, <1>8 DEF TasksInv

LEMMA InitSwept == Init => SweptInv
<1> SUFFICES ASSUME Init, NEW t \in Task PROVE Swept(t)
    BY DEF SweptInv
<1>1. list[t] = <<>> /\ todo[t] = {} /\ failed[t] = {}
      BY DEF Init
<1>2. SweepAt(<<>>, {}, {}, KeepsBlanks, 1, 0)
      BY DEF SweepAt, InOrder
<1>3. 0 \in 0 .. MaxCount /\ 1 \in 1 .. 0 + 1
      BY ApisAssumption
<1> QED
    BY <1>1, <1>2, <1>3 DEF Swept

(* Every step but a call of a sweep and its own leaves the sweeps alone.   *)
LEMMA SweptKept ==
    ASSUME SweptInv, UNCHANGED <<sweeping, focus>>
    PROVE  SweptInv'
  BY DEF SweptInv, Swept, sweeping, KeepsBlanks

LEMMA CallSwept ==
    ASSUME TasksInv, SweptInv, NEW t \in Task, CallSweep(t)
    PROVE  SweptInv'
  <1>1. PICK n \in 0 .. MaxCount : /\ todo' = [todo EXCEPT ![t] = 1 .. n]
                                   /\ list' = [list EXCEPT ![t] = <<>>]
                                   /\ failed' = [failed EXCEPT ![t] = {}]
    BY CallSweepTasks
  <1>2. KeepsBlanks' = KeepsBlanks
    BY CallSweepTasks DEF KeepsBlanks
  <1>3. ASSUME NEW u \in Task PROVE Swept(u)'
    <2>1. CASE u = t
      <3>1. todo'[u] = 1 .. n /\ list'[u] = <<>> /\ failed'[u] = {}
        BY <1>1, <2>1 DEF TasksInv, SweepTypes
      <3>2. SweepAt(<<>>, 1 .. n, {}, KeepsBlanks, 1, n)
        BY DEF SweepAt, InOrder
      <3>3. 1 \in 1 .. n + 1
        BY ApisAssumption
      <3>4. QED
        BY <1>2, <3>1, <3>2, <3>3 DEF Swept
    <2>2. CASE u # t
      <3>1. todo'[u] = todo[u] /\ list'[u] = list[u] /\ failed'[u] = failed[u]
        BY <1>1, <2>2 DEF TasksInv, SweepTypes
      <3>2. QED
        BY <1>2, <3>1 DEF SweptInv, Swept
    <2>3. QED
      BY <2>1, <2>2
  <1> QED
    BY <1>3 DEF SweptInv

CallInv == TasksInv /\ SweptInv

LEMMA CallStep == CallInv /\ [Next]_vars => CallInv'
<1> SUFFICES ASSUME TasksInv, SweptInv, [Next]_vars
             PROVE  TasksInv' /\ SweptInv'
    BY DEF CallInv
<1>1. ASSUME NEW t \in Task, TaskStep(t) PROVE TasksInv' /\ SweptInv'
  <2>1. CASE CallMethod(t) \/ CallRaw(t) \/ CallRefresh(t)
    <3>1. UNCHANGED <<sweeping, focus>>
      BY <2>1 DEF CallMethod, CallRaw, CallRefresh, Start, external
    <3>2. QED
      BY <2>1, <3>1, CallTasks, SweptKept
  <2>2. CASE CallSweep(t)
    BY <2>2, CallSweepTasks, CallSwept
  <2>3. CASE Obey(t) \/ Work(t)
    <3>1. \E stage \in {"answered", "worked"} :
              pc[t] \in {"asking", "deferred"} /\ Reply(t, stage)
      BY <2>3 DEF Obey, Work
    <3>2. UNCHANGED <<sweeping, focus>>
      BY <3>1 DEF Reply, external
    <3>3. QED
      BY <3>1, <3>2, ReplyTasks, SweptKept
  <2>4. CASE \/ LoseAnswer(t) \/ StopPolling(t)
             \/ GiveUp(t) \/ ReadDone(t) \/ WriteDone(t) \/ RawDone(t)
    <3>1. UNCHANGED <<sweeping, focus>>
      BY <2>4 DEF LoseAnswer, StopPolling, Retry, GiveUp, ReadDone, WriteDone, RawDone, Return,
                  external
    <3>2. QED
      BY <2>4, <3>1, EndTasks, SweptKept
  <2>5. CASE SweepAnswered(t) \/ SweepFails(t)
    BY <2>5, SweepMoves, SweepTasks
  <2>6. CASE Defer(t) \/ Collect(t)
    <3>1. Wait(t, "asking", "deferred") \/ Wait(t, "worked", "answered")
      BY <2>6 DEF Defer, Collect
    <3>2. UNCHANGED <<sweeping, focus>>
      BY <3>1 DEF Wait, external
    <3>3. QED
      BY <3>1, <3>2, WaitTasks, SweptKept
  <2>7. QED
    BY <1>1, <2>1, <2>2, <2>3, <2>4, <2>5, <2>6 DEF TaskStep
<1>2. CASE \/ Expire \/ ReadDeviceInfo \/ CheckCapabilities
           \/ UNCHANGED vars
  <2>1. UNCHANGED <<sweeping, focus>>
    BY <1>2 DEF Expire, ReadDeviceInfo, CheckCapabilities, vars, external
  <2>2. QED
    BY <1>2, <2>1, OtherTasks, SweptKept
<1>3. CASE WorkLate
  <2>1. UNCHANGED <<sweeping, focus>>
    BY <1>3 DEF WorkLate, external
  <2>2. QED
    BY <1>3, <2>1, LateTasks, SweptKept
<1> QED
    BY <1>1, <1>2, <1>3 DEF Next

LEMMA CallAlways == Spec => []CallInv
<1>1. Init => CallInv
      BY InitTasks, InitSwept DEF CallInv
<1> QED
    BY <1>1, CallStep, PTL DEF Spec

-----------------------------------------------------------------------------
(* Types, the refresh, the decoding.                                       *)

(* Every variable keeps its type, for any number of tasks and values.      *)
THEOREM ApisTypes == Spec => []TypeOK
<1>1. CallInv => TypeOK
      BY Types DEF CallInv, TasksInv
<1> QED
    BY <1>1, CallAlways, PTL

(* The refresh of a module never asks for what the device is known to lack *)
(* (api/routers/capabilities.py): the two tables and the methods agree.    *)
THEOREM RefreshIsSupported == Spec => []RefreshAsksSupported
<1>1. CallInv => RefreshAsksSupported
      BY DEF CallInv, TasksInv, GoodCall, RefreshAsksSupported
<1> QED
    BY <1>1, CallAlways, PTL

(* No method of any API class decodes more bytes than it has made sure of. *)
THEOREM DecodingIsSafe == Spec => []DecodesWhatIsThere
<1>1. ASSUME CallInv PROVE DecodesWhatIsThere
  <2>1. SUFFICES ASSUME NEW t \in Task, pc[t] = "answered", Accepted(t)
                 PROVE  answer[t].length >= call[t].method.needs
    BY DEF DecodesWhatIsThere
  <2>2. GoodCall(call[t], todo[t], focus) /\ call[t].kind \in {"method", "raw", "sweep"}
    BY <1>1, <2>1 DEF CallInv, TasksInv, TaskTypes, Calls
  <2>3. /\ call[t].method.least \in Nat /\ call[t].method.needs \in Nat
        /\ call[t].method.needs <= call[t].method.least
    BY <2>2, MethodsAreGood DEF GoodCall, GoodRow
  <2>4. answer[t].length \in Nat
    BY <1>1, <2>1 DEF CallInv, TasksInv, TaskTypes, Pending, Answers
  <2>5. QED
    BY <2>1, <2>3, <2>4 DEF Accepted
<1> QED
    BY <1>1, CallAlways, PTL

-----------------------------------------------------------------------------
(* What is said about a module.                                            *)

\* What has been read of the device's list is the list, and there is something in it.
ListInv == checked => supported = listed /\ listed # {}

(* The three answers are one, for any list that a device may give.         *)
LEMMA SupportAgrees ==
    ASSUME ListInv, NEW module \in Module \ {"raw"}
    PROVE  /\ SupportsApi(checked, supported, module) <=>
                  DetailsSupported(checked, supported, module)
           /\ SupportsApi(checked, supported, module) <=>
                  \E m \in Methods : m.module = module /\ Known(m.pid)
<1> DEFINE pids == API_PID_MAPPING[module]
<1>1. pids # {} /\ \A pid \in pids : \E m \in Methods : m.module = module /\ m.pid = pid
      BY MappingIsOfMethods DEF Covered
<1>2. \A m \in Methods : m.module = module => m.pid \in pids
  <2>1. "device" \notin Module
    BY DEF Module, API_PID_MAPPING
  <2>2. \A m \in RdmDeviceLabels : m.module = "device"
    BY DEF RdmDeviceLabels, Cached, Method
  <2>3. QED
    BY <2>1, <2>2, MethodsAreMapped DEF InMapping
<1>3. checked => supported # {}
      BY DEF ListInv
<1>4. SupportsApi(checked, supported, module) <=>
          ~checked \/ \E pid \in pids : SupportsPid(checked, supported, pid)
      BY DEF SupportsApi
<1> HIDE DEF pids
<1>5. CASE checked
  <2>1. SupportDetails(checked, supported, module) =
            {pid \in pids : pid \in supported \union MANDATORY_PIDS}
    BY <1>3, <1>5 DEF SupportDetails, pids
  <2>2. \A pid : SupportsPid(checked, supported, pid) <=>
                     pid \in supported \union MANDATORY_PIDS
    BY <1>5 DEF SupportsPid
  <2>3. QED
    BY <1>1, <1>2, <1>4, <1>5, <2>1, <2>2 DEF DetailsSupported, Known
<1>6. CASE ~checked
  <2>1. SupportDetails(checked, supported, module) = pids
    BY <1>6 DEF SupportDetails, pids
  <2>2. \A pid : SupportsPid(checked, supported, pid)
    BY <1>6 DEF SupportsPid
  <2>3. QED
    BY <1>1, <1>4, <1>6, <2>1, <2>2 DEF DetailsSupported, Known
<1> QED
    BY <1>5, <1>6

(* supports_api(), get_api_support_details() and the methods of a module   *)
(* agree on what is supported, before check_capabilities and after it, for *)
(* any lists of PIDs that the devices may give, also one with no PID of    *)
(* the program's in it, and an empty one.                                  *)
THEOREM SupportIsOneThing == Spec => []SupportIsConsistent
<1>1. Init => ListInv
      BY DEF Init, ListInv
<1>2. ASSUME ListInv, [Next]_vars PROVE ListInv'
  <2>1. CASE CheckCapabilities
    BY <2>1 DEF CheckCapabilities, external, ListInv
  <2>2. CASE UNCHANGED <<checked, supported, listed>>
    BY <1>2, <2>2 DEF ListInv
  <2>3. ASSUME NEW t \in Task, TaskStep(t) PROVE UNCHANGED <<checked, supported, listed>>
    BY <2>3 DEF TaskStep, CallMethod, CallRaw, CallRefresh, CallSweep, Start, Obey, Reply,
                Defer, Wait, Work, Collect, LoseAnswer, StopPolling, Retry, GiveUp, ReadDone,
                WriteDone, RawDone, SweepAnswered, SweepFails, SweepOn, Return, external,
                capabilities
  <2>4. QED
    BY <1>2, <2>1, <2>2, <2>3
    DEF Next, vars, external, capabilities, WorkLate, Expire, ReadDeviceInfo
<1>3. ASSUME NEW module \in Module
      PROVE  (\E pid \in MethodPids[module] : Known(pid))
             <=> \E m \in Methods : m.module = module /\ Known(m.pid)
      BY DEF MethodPids
<1>4. ListInv => SupportIsConsistent
      BY <1>3, SupportAgrees DEF SupportIsConsistent
<1> QED
    BY <1>1, <1>2, <1>4, PTL DEF Spec

-----------------------------------------------------------------------------
(* What a sweep returns.                                                   *)

KeptInOrder == definitions # None => InOrder(definitions)

LEMMA KeptStep == CallInv /\ KeptInOrder /\ [Next]_vars => KeptInOrder'
<1> SUFFICES ASSUME CallInv, KeptInOrder, [Next]_vars PROVE KeptInOrder'
    OBVIOUS
<1>1. CASE definitions' = definitions
      BY <1>1 DEF KeptInOrder, InOrder
<1>2. ASSUME NEW t \in Task, SweepAnswered(t) \/ SweepFails(t) PROVE KeptInOrder'
  <2>1. PICK l : SweepOn(t, Index(t), l)
    BY <1>2 DEF SweepAnswered, SweepFails
  <2>2. list'[t] = l
    BY <2>1 DEF SweepOn, CallInv, TasksInv, SweepTypes
  <2>3. InOrder(list'[t])
    BY <1>2, SweepMoves DEF CallInv
  <2>4. definitions' = l \/ definitions' = definitions
    BY <2>1 DEF SweepOn
  <2>5. QED
    BY <1>1, <2>2, <2>3, <2>4 DEF KeptInOrder, InOrder
<1>3. ASSUME NEW t \in Task, TaskStep(t), ~(SweepAnswered(t) \/ SweepFails(t))
      PROVE  definitions' = definitions
  BY <1>3 DEF TaskStep, CallMethod, CallRaw, CallRefresh, CallSweep, Start, Obey, Reply,
              Defer, Wait, Work, Collect, LoseAnswer, StopPolling, Retry, GiveUp, ReadDone,
              WriteDone, RawDone
<1> QED
    BY <1>1, <1>2, <1>3
    DEF Next, vars, WorkLate, Expire, ReadDeviceInfo, CheckCapabilities

(* A sweep asks for every index once and in order: what is not in its list *)
(* has failed, however the tasks interleave, for any number of indexes.    *)
THEOREM SweepsAreWhole == Spec => []SweepIsWhole
<1>1. Init => KeptInOrder
      BY DEF Init, KeptInOrder
<1>2. ASSUME CallInv, KeptInOrder PROVE SweepIsWhole
  <2>1. ASSUME NEW t \in Task
        PROVE  LET got == {list[t][i].index : i \in DOMAIN list[t]}
                   all == got \union failed[t] \union todo[t]
               IN  /\ InOrder(list[t])
                   /\ all = 1 .. Cardinality(all)
                   /\ \A i \in DOMAIN list[t] :
                         list[t][i].content = None <=> list[t][i].index \in failed[t]
                   /\ KeepsBlanks => \A i \in DOMAIN list[t] : list[t][i].index = i
    <3>1. PICK n \in 0 .. MaxCount : \E k \in 1 .. n + 1 :
              SweepAt(list[t], todo[t], failed[t], KeepsBlanks, k, n)
      BY <1>2 DEF CallInv, SweptInv, Swept
    <3>2. PICK k \in 1 .. n + 1 : SweepAt(list[t], todo[t], failed[t], KeepsBlanks, k, n)
      BY <3>1
    <3>3. n \in Nat
      BY ApisAssumption
    <3> DEFINE whole == {list[t][i].index : i \in DOMAIN list[t]} \union failed[t] \union todo[t]
    <3> HIDE DEF whole
    <3>4. whole = 1 .. Cardinality(whole)
      <4>1. /\ {list[t][i].index : i \in DOMAIN list[t]} \union failed[t] = 1 .. k - 1
            /\ todo[t] = k .. n
        BY <3>2 DEF SweepAt
      <4>2. whole = (1 .. k - 1) \union (k .. n)
        BY <4>1 DEF whole
      <4>3. whole = 1 .. n
        BY <3>3, <4>2
      <4>4. Cardinality(1 .. n) = n
        BY <3>3, FS_Interval
      <4>5. QED
        BY <4>3, <4>4
    <3>5. /\ InOrder(list[t])
          /\ \A i \in DOMAIN list[t] :
                list[t][i].content = None <=> list[t][i].index \in failed[t]
          /\ KeepsBlanks => \A i \in DOMAIN list[t] : list[t][i].index = i
      BY <3>2 DEF SweepAt
    <3>6. QED
      BY <3>4, <3>5 DEF whole
  <2>2. QED
    BY <1>2, <2>1 DEF SweepIsWhole, KeptInOrder
<1> QED
    BY <1>1, <1>2, CallAlways, KeptStep, PTL DEF Spec

-----------------------------------------------------------------------------
(* The cache.  Only an answer of a getter that keeps it is kept, and every *)
(* way for the device's value to change under it leaves a trace: the SET   *)
(* is still being answered, its answer was lost or given up, raw.set was   *)
(* called, or the answer that is kept is marked as old.                    *)
CacheInv ==
    /\ cache # None => focus \in CachedPids
    /\ TypedCacheIsFresh

(* A step that leaves the cache and the device alone, and takes no answer  *)
(* to a SET away.                                                          *)
LEMMA CacheKept ==
    ASSUME CacheInv, UNCHANGED <<focus, device, cache, doubt>>,
           \A u \in Task : Pending(u) =>
               \/ call[u].method.verb = "get"
               \/ Pending(u)' /\ call'[u] = call[u]
    PROVE  CacheInv'
  BY DEF CacheInv, TypedCacheIsFresh, CachedPids

(* The value changes under an entry only while its SET waits for an answer. *)
LEMMA ReplyCache ==
    ASSUME CallInv, CacheInv, NEW t \in Task, NEW stage \in {"answered", "worked"},
           pc[t] \in {"asking", "deferred"}, Reply(t, stage)
    PROVE  CacheInv'
  <1>1. /\ device' = Obeyed(call[t]) /\ pc' = [pc EXCEPT ![t] = stage]
        /\ UNCHANGED <<focus, cache, call, doubt>>
    BY DEF Reply, external
  <1>2. call[t].method.verb = "get" => device' = device
    BY <1>1 DEF Obeyed, Effect
  <1>3. \A u \in Task : pc'[u] = IF u = t THEN stage ELSE pc[u]
    BY <1>1 DEF CallInv, TasksInv, TaskTypes
  <1>4. Pending(t)' /\ \A u \in Task : Pending(u) => Pending(u)'
    BY <1>3 DEF Pending
  <1>5. CASE call[t].method.verb = "get"
    BY <1>1, <1>2, <1>4, <1>5, CacheKept
  <1>6. CASE call[t].method.verb # "get"
    BY <1>1, <1>4, <1>6 DEF CacheInv, TypedCacheIsFresh, CachedPids
  <1> QED
    BY <1>5, <1>6

LEMMA DoneCache ==
    ASSUME CallInv, CacheInv, NEW t \in Task, ReadDone(t) \/ WriteDone(t)
    PROVE  CacheInv'
  <1>1. /\ Pending(t) /\ call[t].kind = "method"
        /\ UNCHANGED <<focus, device>>
        /\ pc' = [pc EXCEPT ![t] = "idle"] /\ call' = [call EXCEPT ![t] = NoCall]
    BY DEF ReadDone, WriteDone, Return, external, Pending
  <1>2. /\ GoodCall(call[t], todo[t], focus)
        /\ ~answer[t].old => answer[t].value = device
    BY <1>1 DEF CallInv, TasksInv, AnswersInv
  <1>3. \A u \in Task \ {t} : pc'[u] = pc[u] /\ call'[u] = call[u]
    BY <1>1 DEF CallInv, TasksInv, TaskTypes
  <1>4. CASE ReadDone(t) /\ Accepted(t) /\ call[t].use_cache
    <2>1. /\ ~doubt' => cache' = device'
          /\ call[t].method.cached /\ call[t].method.pid = focus
      BY <1>1, <1>2, <1>4 DEF ReadDone, GoodCall
    <2>2. focus \in CachedPids
      BY <1>1, <1>2, <2>1, CachedPidsFacts DEF GoodCall
    <2>3. QED
      BY <1>1, <2>1, <2>2 DEF CacheInv, TypedCacheIsFresh, CachedPids
  <1>5. CASE ReadDone(t) /\ ~(Accepted(t) /\ call[t].use_cache)
    <2>1. cache' = cache /\ doubt' = doubt /\ call[t].method.verb = "get"
      BY <1>5 DEF ReadDone
    <2>2. \A u \in Task \ {t} : Pending(u) => Pending(u)'
      BY <1>3 DEF Pending
    <2>3. QED
      BY <1>1, <1>3, <2>1, <2>2, CacheKept
  <1>6. CASE WriteDone(t) /\ Clears(call[t].method, focus)
    <2>1. cache' = None
      BY <1>6 DEF WriteDone
    <2>2. QED
      BY <2>1 DEF CacheInv, TypedCacheIsFresh
  <1>7. CASE WriteDone(t) /\ ~Clears(call[t].method, focus)
    <2>1. cache' = cache /\ call[t].method.verb = "set"
      BY <1>7 DEF WriteDone
    <2>2. call[t].method \in Methods /\ call[t].method.pid = focus
      BY <1>1, <1>2, <1>7 DEF GoodCall, Clears
    <2>3. focus \in ActionPids
      BY <1>7, <2>1, <2>2, MethodsAreGood DEF GoodRow
    <2>4. cache = None
      BY <2>3, CachedPidsFacts DEF CacheInv
    <2>5. QED
      BY <2>1, <2>4 DEF CacheInv, TypedCacheIsFresh
  <1> QED
    BY <1>4, <1>5, <1>6, <1>7

(* A call that ends without having cleared the entry: if it was a SET, the *)
(* entry is in doubt.                                                      *)
LEMMA DoubtedCache ==
    ASSUME CallInv, CacheInv, NEW t \in Task,
           UNCHANGED <<focus, device, cache>>, doubt' = Doubted(t),
           \A u \in Task \ {t} : pc'[u] = pc[u] /\ call'[u] = call[u]
    PROVE  CacheInv'
  <1>1. \A u \in Task \ {t} : Pending(u) => Pending(u)'
    BY DEF Pending
  <1>2. CASE call[t].method.verb = "set"
    <2>1. ~doubt' => cache \in {None, device}
      BY <1>2 DEF Doubted
    <2>2. QED
      BY <2>1 DEF CacheInv, TypedCacheIsFresh, CachedPids
  <1>3. CASE call[t].method.verb # "set"
    <2>1. call[t].method.verb = "get"
      <3>1. call[t].method \in Methods \union {NoMethod, RawMethod("get"), RawMethod("set")}
        BY DEF CallInv, TasksInv, TaskTypes, Calls
      <3>2. \A m \in {NoMethod, RawMethod("get"), RawMethod("set")} : m.verb \in {"get", "set"}
        BY DEF NoMethod, RawMethod, Action, Setter, Method
      <3>3. \A m \in Methods : m.verb \in {"get", "set"}
        BY MethodsAreGood DEF GoodRow
      <3>4. QED
        BY <1>3, <3>1, <3>2, <3>3
    <2>2. doubt' <=> doubt
      BY <1>3 DEF Doubted
    <2>3. QED
      BY <1>1, <2>1, <2>2 DEF CacheInv, TypedCacheIsFresh, CachedPids
  <1> QED
    BY <1>2, <1>3

LEMMA CacheStep == CallInv /\ CacheInv /\ [Next]_vars => CacheInv'
<1> SUFFICES ASSUME CallInv, CacheInv, [Next]_vars PROVE CacheInv'
    OBVIOUS
<1>1. pc \in [Task -> Stages] /\ call \in [Task -> Calls]
      BY DEF CallInv, TasksInv, TaskTypes
<1>2. ASSUME NEW t \in Task, TaskStep(t) PROVE CacheInv'
  <2>1. CASE CallMethod(t) \/ CallRaw(t) \/ CallRefresh(t) \/ CallSweep(t)
    <3>1. pc[t] = "idle" /\ \E c : Start(t, c)
      BY <2>1 DEF CallMethod, CallRaw, CallRefresh, CallSweep
    <3>2. PICK c : Start(t, c)
      BY <3>1
    <3>3. /\ pc' = [pc EXCEPT ![t] = "asking"] /\ call' = [call EXCEPT ![t] = c]
          /\ UNCHANGED <<focus, device, cache, doubt>>
      BY <3>2 DEF Start, external
    <3>4. QED
      BY <1>1, <3>1, <3>3, CacheKept DEF Pending
  <2>2. CASE Obey(t) \/ Work(t)
    <3>1. \E stage \in {"answered", "worked"} :
              pc[t] \in {"asking", "deferred"} /\ Reply(t, stage)
      BY <2>2 DEF Obey, Work
    <3>2. QED
      BY <3>1, ReplyCache
  <2>3. CASE LoseAnswer(t) \/ RawDone(t) \/ (pc[t] = "worked" /\ StopPolling(t))
    <3>1. doubt' = Doubted(t) /\ UNCHANGED <<focus, device, cache>>
      BY <2>3 DEF LoseAnswer, StopPolling, Retry, RawDone, Return, external
    <3>2. /\ \E stage : pc' = [pc EXCEPT ![t] = stage]
          /\ call' = [call EXCEPT ![t] = NoCall] \/ call' = call
      BY <2>3 DEF LoseAnswer, StopPolling, Retry, RawDone, Return
    <3>3. \A u \in Task \ {t} : pc'[u] = pc[u] /\ call'[u] = call[u]
      BY <1>1, <3>2
    <3>4. QED
      BY <3>1, <3>3, DoubtedCache
  <2>4. CASE GiveUp(t) \/ (pc[t] = "deferred" /\ StopPolling(t))
    <3>1. /\ ~Pending(t)
          /\ UNCHANGED <<focus, device, cache, doubt>>
      BY <2>4 DEF GiveUp, StopPolling, Retry, Return, external, Pending
    <3>2. /\ \E stage : pc' = [pc EXCEPT ![t] = stage]
          /\ call' = [call EXCEPT ![t] = NoCall] \/ call' = call
      BY <2>4 DEF GiveUp, StopPolling, Retry, Return
    <3>3. \A u \in Task \ {t} : pc'[u] = pc[u] /\ call'[u] = call[u]
      BY <1>1, <3>2
    <3>4. \A u \in Task : Pending(u) => Pending(u)' /\ call'[u] = call[u]
      BY <3>1, <3>3 DEF Pending
    <3>5. QED
      BY <3>1, <3>4, CacheKept
  <2>5. CASE ReadDone(t) \/ WriteDone(t)
    BY <2>5, DoneCache
  <2>6. CASE SweepAnswered(t) \/ SweepFails(t)
    <3>1. call[t].kind = "sweep"
      BY <2>6 DEF SweepAnswered, SweepFails
    <3>2. call[t].method.verb = "get"
      BY <3>1 DEF CallInv, TasksInv, GoodCall
    <3>3. PICK l : SweepOn(t, Index(t), l)
      BY <2>6 DEF SweepAnswered, SweepFails
    <3>4. /\ UNCHANGED <<focus, device, cache, doubt>>
          /\ \E stage : pc' = [pc EXCEPT ![t] = stage]
          /\ call' = [call EXCEPT ![t] = NoCall] \/ call' = call
      BY <3>3 DEF SweepOn, Return, external
    <3>5. \A u \in Task \ {t} : pc'[u] = pc[u] /\ call'[u] = call[u]
      BY <1>1, <3>4
    <3>6. QED
      BY <3>2, <3>4, <3>5, CacheKept DEF Pending
  <2>7. CASE Defer(t) \/ Collect(t)
    <3>1. Wait(t, "asking", "deferred") \/ Wait(t, "worked", "answered")
      BY <2>7 DEF Defer, Collect
    <3>2. UNCHANGED <<focus, device, cache, call, doubt>>
      BY <3>1 DEF Wait, external
    <3>3. \A u \in Task : Pending(u) => Pending(u)'
      BY <1>1, <3>1 DEF Wait, Pending
    <3>4. QED
      BY <3>2, <3>3, CacheKept
  <2>8. pc[t] \in {"deferred", "worked"} \/ ~StopPolling(t)
    BY DEF StopPolling
  <2>9. QED
    BY <1>2, <2>1, <2>2, <2>3, <2>4, <2>5, <2>6, <2>7, <2>8 DEF TaskStep
<1>3. CASE Expire
  BY <1>3 DEF Expire, CacheInv, TypedCacheIsFresh
<1>4. CASE ReadDeviceInfo \/ CheckCapabilities \/ UNCHANGED vars
  <2>1. UNCHANGED <<focus, device, cache, doubt, pc, call>>
    BY <1>4 DEF ReadDeviceInfo, CheckCapabilities, vars, external
  <2>2. QED
    BY <2>1, CacheKept DEF Pending
<1>5. CASE WorkLate
  <2>1. /\ UNCHANGED <<focus, cache>> /\ (~doubt' => cache' \in {None, device'})
    BY <1>5 DEF WorkLate, external
  <2>2. QED
    BY <2>1 DEF CacheInv, TypedCacheIsFresh, CachedPids
<1> QED
    BY <1>2, <1>3, <1>4, <1>5 DEF Next

(* A typed getter answers from the cache only what the device has, after   *)
(* any history of the typed methods of its PID: their setters clear it, as *)
(* the rows of the table say, and no other SET changes its value.  The     *)
(* exceptions are those of TypedCacheIsFresh: raw.set, a SET whose answer  *)
(* is lost or given up, and an answer that was prepared before a SET.      *)
THEOREM TypedCache == Spec => []TypedCacheIsFresh
<1>1. Init => CacheInv
      BY DEF Init, CacheInv, TypedCacheIsFresh
<1>2. CacheInv => TypedCacheIsFresh
      BY DEF CacheInv
<1> QED
    BY <1>1, <1>2, CallAlways, CacheStep, PTL DEF Spec

=============================================================================
