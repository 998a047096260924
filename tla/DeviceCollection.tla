-------------------------- MODULE DeviceCollection --------------------------
(***************************************************************************)
(* The collection of devices that the NetworkManager hands out             *)
(* (application/device_collection_manager.py) and how it fills and empties *)
(* while it is in use: discover_devices() puts into it what a discovery    *)
(* has found, stop() clears it.  The discovery creates its devices in the  *)
(* repository of its session (services/device_repository.py).              *)
(*                                                                         *)
(* The search of the whole network is module Discovery; here it is the     *)
(* list of UIDs that it leaves.                                            *)
(***************************************************************************)
EXTENDS SequencesExt

CONSTANTS
    Device,            \* UIDs
    MaxSessions,       \* bound: how often the manager is started
    MaxCalls           \* bound: how often devices are searched for

ASSUME CollectionAssumption ==
    IsFiniteSet(Device) /\ MaxSessions \in Nat /\ MaxCalls \in Nat

VARIABLES
    active,            \* _active of the manager
    session,           \* how often it has been started
    collection,        \* _devices of the collection, in the order of insertion
    repository,        \* per session: the UIDs in the repository
    search,            \* the call of discover_devices()
    calls              \* how many there have been

sessionVars == <<active, session, repository>>
searchVars == <<search, calls>>
collectionVars == <<sessionVars, searchVars, collection>>

\* A device object belongs to the protocol of its session.
Entry(uid, of) == [uid |-> uid, session |-> of]

NoSearch == [kind |-> "none", todo |-> <<>>, found |-> <<>>, session |-> 0]

\* Lists of UIDs that a caller asks for or that a search leaves.
UidList == {list \in SeqOf(Device, Cardinality(Device)) : IsInjective(list)}

Uids(entries) == {entries[i].uid : i \in DOMAIN entries}

(* add_device() of each in turn: a known UID keeps its place and gets the *)
(* new object, the others follow in the order in which they were found.    *)
Renewed(entries, uids, of) ==
    [i \in DOMAIN entries |->
        IF entries[i].uid \in uids THEN Entry(entries[i].uid, of) ELSE entries[i]]

Joining(entries, found) ==
    {new \in UidList :
        /\ Range(new) = Range(found) \ Uids(entries)
        /\ \A i, j \in DOMAIN new : i < j =>
               \E k, l \in DOMAIN found : k < l /\ found[k] = new[i] /\ found[l] = new[j]}

CollectionInit ==
    /\ active = FALSE
    /\ session = 0
    /\ collection = <<>>
    /\ repository = [s \in 1..MaxSessions |-> {}]
    /\ search = NoSearch
    /\ calls = 0

-----------------------------------------------------------------------------
(* start(): a repository and a discovery service of their own.             *)
StartManager ==
    /\ ~active
    /\ session < MaxSessions
    /\ active' = TRUE
    /\ session' = session + 1
    /\ UNCHANGED <<collection, repository, searchVars>>

(* stop(): a discovery that is under way is not told.                      *)
StopManager ==
    /\ active
    /\ active' = FALSE
    /\ collection' = <<>>
    /\ UNCHANGED <<session, repository, searchVars>>

(* discover_devices(): of known UIDs, each of which is asked first, or of  *)
(* those that a search has found.                                          *)
Discover(kind, list) ==
    /\ active
    /\ search = NoSearch
    /\ calls < MaxCalls
    /\ search' = [kind |-> kind, todo |-> list, found |-> <<>>, session |-> session]
    /\ calls' = calls + 1
    /\ UNCHANGED <<sessionVars, collection>>

(* The next device joins the repository and is initialized.  A failure of  *)
(* initialize() is ignored.                                                *)
Initialize ==
    /\ search.todo # <<>>
    /\ repository' = [repository EXCEPT ![search.session] = @ \union {Head(search.todo)}]
    /\ search' = [search EXCEPT !.todo = Tail(@), !.found = Append(@, Head(search.todo))]
    /\ UNCHANGED <<active, session, collection, calls>>

(* A known device does not answer, or cannot be asked.                     *)
Absent ==
    /\ search.kind = "known"
    /\ search.todo # <<>>
    /\ search' = [search EXCEPT !.todo = Tail(@)]
    /\ UNCHANGED <<sessionVars, collection, calls>>

(* What was found joins the collection, in one go.                         *)
Collect ==
    /\ search # NoSearch
    /\ search.todo = <<>>
    /\ \E new \in Joining(collection, search.found) :
           collection' = Renewed(collection, Range(search.found), search.session) \o
                             [i \in DOMAIN new |-> Entry(new[i], search.session)]
    /\ search' = NoSearch
    /\ UNCHANGED <<sessionVars, calls>>

CollectionNext ==
    \/ StartManager
    \/ StopManager
    \/ \E kind \in {"known", "full"}, list \in UidList : Discover(kind, list)
    \/ Initialize
    \/ Absent
    \/ Collect

-----------------------------------------------------------------------------
\* Every variable has a value of its type.
CollectionTypeOK ==
    /\ active \in BOOLEAN
    /\ session \in 0..MaxSessions
    /\ repository \in [1..MaxSessions -> SUBSET Device]
    /\ calls \in 0..MaxCalls
    /\ search \in [kind : {"none", "known", "full"}, todo : UidList, found : UidList,
                  session : 0..MaxSessions]
    /\ collection \in Seq([uid : Device, session : 0..MaxSessions])

=============================================================================
