---------------------------- MODULE DeviceCache ----------------------------
(***************************************************************************)
(* What the program knows about one device: the DeviceState of RdmDevice   *)
(* (services/rdm_device.py) and its cache of parameters, under concurrent  *)
(* requests of the device APIs.  Two parameters stand for all: the DMX     *)
(* start address and the personality, which DEVICE_INFO reports together   *)
(* and which the APIs set one at a time.                                   *)
(*                                                                         *)
(* A transaction is one or more exchanges, each of which holds the wire    *)
(* from the moment that the device obeys until the task has its answer.    *)
(* The device, the loss of answers and the answers that the device defers  *)
(* (ACK_TIMER) are external.  A device defers one request at a time.       *)
(***************************************************************************)

CONSTANTS
    Task,           \* tasks that use the device
    Address,        \* DMX start addresses
    Personality,
    Default,        \* the factory defaults of the device
    Faults,         \* "lost": answers get lost; "deferred": ACK_TIMER
    None

Param == {"address", "personality"}

Setting == [address : Address, personality : Personality]

\* raw: a SET of the same parameter through raw.set(), which knows nothing of
\* state and cache.  (raw.get() and a raw reset change nothing.)
Op ==
    [kind : {"get_device_info", "get_personality"}, arg : {None}, use_cache : BOOLEAN,
     raw : {FALSE}]
    \union [kind : {"set_start_address"}, arg : Address, use_cache : {FALSE}, raw : BOOLEAN]
    \union [kind : {"set_personality"}, arg : Personality, use_cache : {FALSE}, raw : BOOLEAN]
    \union [kind : {"factory_defaults"}, arg : {None}, use_cache : {FALSE}, raw : BOOLEAN]
    \union [kind : {"reset"}, arg : {None}, use_cache : {FALSE}, raw : {FALSE}]

NoOp == [kind |-> "none", arg |-> None, use_cache |-> FALSE, raw |-> FALSE]

ASSUME CacheAssumption ==
    /\ Default \in Setting
    /\ None \notin Personality \union Setting
    /\ Faults \subseteq {"lost", "deferred"}

VARIABLES
    device,     \* external: the settings of the device itself
    state,      \* DeviceState: dmx_start_address and dmx_personality
    info,       \* DEVICE_INFO is in _parameter_cache (its content is never read)
    cached,     \* DMX_PERSONALITY in _parameter_cache, or None
    pc,         \* idle, asking, answered, deferred, worked
    op,         \* what the task has asked for
    answer,     \* the settings as the device has answered, or None
    owed,       \* external: a deferred request that is not polled for any more
    known,      \* history: parameters read or set since factory_defaults()
    old,        \* history: what has changed since the answer was prepared
    doubt       \* history: what may be wrong because a SET was raw, or an answer
                \* was lost or old

vars == <<device, state, info, cached, pc, op, answer, owed, known, old, doubt>>

Init ==
    /\ device \in Setting
    /\ state \in Setting
    /\ info = FALSE
    /\ cached = None
    /\ pc = [t \in Task |-> "idle"]
    /\ op = [t \in Task |-> NoOp]
    /\ answer = [t \in Task |-> None]
    /\ owed = NoOp
    /\ known = {}
    /\ old = [t \in Task |-> {}]
    /\ doubt = {}

-----------------------------------------------------------------------------
(* The device.                                                             *)

\* The parameters that a request changes.
Sets(o) ==
    CASE o.kind = "set_start_address" -> {"address"}
      [] o.kind = "set_personality" -> {"personality"}
      [] o.kind = "factory_defaults" -> Param
      [] OTHER -> {}

Obeyed(o) ==
    CASE o.kind = "set_start_address" -> [device EXCEPT !.address = o.arg]
      [] o.kind = "set_personality" -> [device EXCEPT !.personality = o.arg]
      [] o.kind = "factory_defaults" -> Default
      [] OTHER -> device

WireFree == \A t \in Task : pc[t] # "answered"

\* An answer that has been prepared and not yet been taken grows old when the
\* device changes.
Aged(o) == [u \in Task |-> IF answer[u] # None THEN old[u] \union Sets(o) ELSE old[u]]

\* What is in doubt when the device has obeyed and the program takes no notice:
\* what it has set of the known parameters and, if there is an entry, the cache.
InDoubt(o) ==
    (Sets(o) \intersect known)
        \union (IF "personality" \in Sets(o) /\ cached # None THEN {"cache"} ELSE {})

Unnoticed(o) == IF o.raw THEN InDoubt(o) ELSE {}

\* The device obeys; from here on the wire is held for the answer.
Obey(t) ==
    /\ pc[t] = "asking"
    /\ WireFree
    /\ device' = Obeyed(op[t])
    /\ answer' = [answer EXCEPT ![t] = device']
    /\ pc' = [pc EXCEPT ![t] = "answered"]
    /\ old' = Aged(op[t])
    /\ doubt' = doubt \union Unnoticed(op[t])
    /\ UNCHANGED <<state, info, cached, op, owed, known>>

\* The answer is ACK_TIMER: the device will see to it.
Defer(t) ==
    /\ "deferred" \in Faults
    /\ pc[t] = "asking"
    /\ WireFree
    /\ \A u \in Task : pc[u] \notin {"deferred", "worked"}
    /\ owed = NoOp
    /\ pc' = [pc EXCEPT ![t] = "deferred"]
    /\ UNCHANGED <<device, state, info, cached, op, answer, owed, known, old, doubt>>

\* It does, whoever uses the wire, and keeps the answer.
Work(t) ==
    /\ pc[t] = "deferred"
    /\ device' = Obeyed(op[t])
    /\ answer' = [answer EXCEPT ![t] = device']
    /\ pc' = [pc EXCEPT ![t] = "worked"]
    /\ old' = Aged(op[t])
    /\ doubt' = doubt \union Unnoticed(op[t])
    /\ UNCHANGED <<state, info, cached, op, owed, known>>

\* QUEUED_MESSAGE fetches it.
Collect(t) ==
    /\ pc[t] = "worked"
    /\ WireFree
    /\ pc' = [pc EXCEPT ![t] = "answered"]
    /\ UNCHANGED <<device, state, info, cached, op, answer, owed, known, old, doubt>>

\* A time-out instead of the answer, and another attempt.
LoseAnswer(t) ==
    /\ "lost" \in Faults
    /\ pc[t] = "answered"
    /\ pc' = [pc EXCEPT ![t] = "asking"]
    /\ answer' = [answer EXCEPT ![t] = None]
    /\ old' = [old EXCEPT ![t] = {}]
    /\ doubt' = doubt \union InDoubt(op[t])
    /\ UNCHANGED <<device, state, info, cached, op, owed, known>>

\* The polls are used up, or one has timed out: another attempt, with the
\* deferred request done or still to be done.
StopPolling(t) ==
    /\ pc[t] \in {"deferred", "worked"}
    /\ pc' = [pc EXCEPT ![t] = "asking"]
    /\ answer' = [answer EXCEPT ![t] = None]
    /\ old' = [old EXCEPT ![t] = {}]
    /\ \/ /\ pc[t] = "deferred"
          /\ owed' = op[t]
          /\ UNCHANGED doubt
       \/ /\ pc[t] = "worked"
          /\ doubt' = doubt \union InDoubt(op[t])
          /\ UNCHANGED owed
    /\ UNCHANGED <<device, state, info, cached, op, known>>

\* It is done behind everybody's back.
WorkLate ==
    /\ owed # NoOp
    /\ device' = Obeyed(owed)
    /\ owed' = NoOp
    /\ old' = Aged(owed)
    /\ doubt' = doubt \union InDoubt(owed)
    /\ UNCHANGED <<state, info, cached, pc, op, answer, known>>

-----------------------------------------------------------------------------
(* The APIs.                                                               *)

\* The last attempt has failed, or the device has refused.
GiveUp(t) ==
    /\ pc[t] = "asking"
    /\ pc' = [pc EXCEPT ![t] = "idle"]
    /\ op' = [op EXCEPT ![t] = NoOp]
    /\ UNCHANGED <<device, state, info, cached, answer, owed, known, old, doubt>>

\* cache_get: an entry answers at once, and nothing changes.
Miss(o) ==
    \/ ~o.use_cache
    \/ o.kind = "get_device_info" /\ ~info
    \/ o.kind = "get_personality" /\ cached = None

Ask(t) ==
    /\ pc[t] = "idle"
    /\ \E o \in Op :
        /\ Miss(o)
        /\ op' = [op EXCEPT ![t] = o]
    /\ pc' = [pc EXCEPT ![t] = "asking"]
    /\ UNCHANGED <<device, state, info, cached, answer, owed, known, old, doubt>>

\* The answer is taken, and the call returns.
Take(t) ==
    /\ pc[t] = "answered"
    /\ pc' = [pc EXCEPT ![t] = "idle"]
    /\ op' = [op EXCEPT ![t] = NoOp]
    /\ answer' = [answer EXCEPT ![t] = None]
    /\ old' = [old EXCEPT ![t] = {}]
    /\ UNCHANGED <<device, owed>>

\* A typed accessor returns.
Return(t, kinds) ==
    /\ Take(t)
    /\ op[t].kind \in kinds
    /\ ~op[t].raw

\* What is in doubt when the places P have been filled from the answer of t.
Overtaken(t) == old[t] \union (IF "personality" \in old[t] THEN {"cache"} ELSE {})

Judged(t, P) == (doubt \ P) \union (Overtaken(t) \intersect P)

InfoRead(t) ==
    /\ Return(t, {"get_device_info"})
    /\ state' = answer[t]
    /\ info' = (info \/ op[t].use_cache)
    /\ known' = Param
    /\ doubt' = Judged(t, Param)
    /\ UNCHANGED cached

PersonalityRead(t) ==
    /\ Return(t, {"get_personality"})
    /\ state' = [state EXCEPT !.personality = answer[t].personality]
    /\ cached' = IF op[t].use_cache THEN answer[t].personality ELSE cached
    /\ known' = known \union {"personality"}
    /\ doubt' = Judged(t, {"personality"} \union (IF op[t].use_cache THEN {"cache"} ELSE {}))
    /\ UNCHANGED info

(* Mutant of AddressSet: the state keeps the old address.                  *)
AddressSetOnly(t) ==
    /\ Return(t, {"set_start_address"})
    /\ known' = known \union {"address"}
    /\ doubt' = Judged(t, {"address"})
    /\ UNCHANGED <<state, info, cached>>

\* The DEVICE_INFO entry stays: it says no more than that the state is filled.
AddressSet(t) ==
    /\ Return(t, {"set_start_address"})
    /\ state' = [state EXCEPT !.address = op[t].arg]
    /\ known' = known \union {"address"}
    /\ doubt' = Judged(t, {"address"})
    /\ UNCHANGED <<info, cached>>

(* Mutant of PersonalitySet: the entry of the personality is not cleared.  *)
PersonalitySetKeeps(t) ==
    /\ Return(t, {"set_personality"})
    /\ state' = [state EXCEPT !.personality = op[t].arg]
    /\ info' = FALSE
    /\ known' = known \union {"personality"}
    /\ doubt' = Judged(t, {"personality"})
    /\ UNCHANGED cached

PersonalitySet(t) ==
    /\ Return(t, {"set_personality"})
    /\ state' = [state EXCEPT !.personality = op[t].arg]
    /\ info' = FALSE
    /\ cached' = None
    /\ known' = known \union {"personality"}
    /\ doubt' = Judged(t, {"personality"}) \ {"cache"}

(* Mutant of Restored: the cache is kept.                                  *)
RestoredKeeps(t) ==
    /\ Return(t, {"reset", "factory_defaults"})
    /\ known' = known \ Sets(op[t])
    /\ doubt' = doubt \ (Sets(op[t]) \union {"cache"})
    /\ UNCHANGED <<state, info, cached>>

\* reset() and factory_defaults(): the cache is cleared, the state is not
\* touched, so that nothing is known of what the device has restored.
Restored(t) ==
    /\ Return(t, {"reset", "factory_defaults"})
    /\ info' = FALSE
    /\ cached' = None
    /\ known' = known \ Sets(op[t])
    /\ doubt' = doubt \ (Sets(op[t]) \union {"cache"})
    /\ UNCHANGED state

\* raw.set() is execute_set() and no more: state and cache keep what they say.
RawSet(t) ==
    /\ Take(t)
    /\ op[t].raw
    /\ UNCHANGED <<state, info, cached, known, doubt>>

\* After cache_max_age, or by clear_all_caches().
ExpireInfo ==
    /\ info
    /\ info' = FALSE
    /\ UNCHANGED <<device, state, cached, pc, op, answer, owed, known, old, doubt>>

ExpirePersonality ==
    /\ cached # None
    /\ cached' = None
    /\ doubt' = doubt \ {"cache"}
    /\ UNCHANGED <<device, state, info, pc, op, answer, owed, known, old>>

-----------------------------------------------------------------------------
DeviceStep(t) ==
    Obey(t) \/ Defer(t) \/ Work(t) \/ Collect(t) \/ LoseAnswer(t) \/ StopPolling(t)

ApiStep(t) ==
    \/ Ask(t) \/ GiveUp(t)
    \/ InfoRead(t) \/ PersonalityRead(t)
    \/ AddressSet(t) \/ PersonalitySet(t) \/ Restored(t) \/ RawSet(t)

Next ==
    \/ \E t \in Task : DeviceStep(t) \/ ApiStep(t)
    \/ WorkLate \/ ExpireInfo \/ ExpirePersonality

Spec == Init /\ [][Next]_vars

-----------------------------------------------------------------------------
(* Properties.                                                             *)

TypeOK ==
    /\ device \in Setting
    /\ state \in Setting
    /\ info \in BOOLEAN
    /\ cached \in Personality \union {None}
    /\ pc \in [Task -> {"idle", "asking", "answered", "deferred", "worked"}]
    /\ op \in [Task -> Op \union {NoOp}]
    /\ answer \in [Task -> Setting \union {None}]
    /\ owed \in Op \union {NoOp}
    /\ known \subseteq Param
    /\ old \in [Task -> SUBSET Param]
    /\ doubt \subseteq Param \union {"cache"}

\* No typed SET of p that the device has obeyed waits for its answer.
Settled(p) ==
    \A t \in Task :
        pc[t] \in {"answered", "worked"} /\ ~op[t].raw => p \notin Sets(op[t])

(* A parameter that has been read or set since the factory defaults is     *)
(* what the device has, however the requests of several tasks interleave,  *)
(* unless since it was last read or set it has been changed by raw.set(),  *)
(* or by a SET whose answer has been lost or given up, or the last answer  *)
(* about it was one that a later SET has overtaken.  (The comment of       *)
(* DeviceState, "kept in sync as those APIs perform SETs", leaves these    *)
(* out.)                                                                   *)
StateInSync ==
    \A p \in Param :
        Settled(p) /\ p \in known /\ p \notin doubt => state[p] = device[p]

(* A personality is taken from the cache only while the device has it: no  *)
(* GET that overlaps a SET leaves its value behind, with the same three    *)
(* exceptions, raw.set(), lost answers and overtaken ones, until the entry *)
(* is read again, cleared by another call or has expired.                  *)
CacheIsFresh ==
    Settled("personality") /\ "cache" \notin doubt => cached \in {None, device.personality}

(* While get_device_info answers "already populated from cache" the whole  *)
(* state has been filled, also after a reset or a change of personality.   *)
HitIsPopulated == info => known = Param

=============================================================================
