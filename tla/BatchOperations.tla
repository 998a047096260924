--------------------------- MODULE BatchOperations ---------------------------
(***************************************************************************)
(* The operations on every device of the collection                        *)
(* (application/batch_operation_service.py).  set_all_dmx_addresses() goes *)
(* through the live dictionary, with an await for every device; the others *)
(* start a task for each device that is there and wait for all of them.    *)
(*                                                                         *)
(* The devices are external: a SET is obeyed or not, and the caller hears  *)
(* of it, hears nothing, or gets an exception.  Module AsyncTransaction    *)
(* has the exchange itself.                                                *)
(***************************************************************************)
EXTENDS DeviceCollection

CONSTANTS
    MaxAddress,        \* 512 in the code
    Starts,            \* the start_address of a caller
    Spacing            \* the spacing

ASSUME BatchAssumption == Spacing \in Nat \ {0} /\ MaxAddress \in Nat /\ Starts \subseteq Nat

VARIABLES
    doing,             \* idle, or what the call does, or how it has ended
    size,              \* addresses: the size of the dictionary at the start
    at,                \* the place in it
    address,           \* the next address
    tasks,             \* gather(): the devices, in the order of the tasks
    answers,           \* what the tasks have returned, by their places
    finished,          \* the places of those that have, in the order of time
    results,           \* the dictionary that is returned
    held,              \* external, per device: the address that the call gave it, or 0
    raised,            \* history: the devices whose SET ended with an exception
    asked,             \* history: the UIDs that the collection had at the start
    cleared            \* history: the collection was cleared during the call

loopVars == <<size, at, address>>
gatherVars == <<tasks, answers, finished>>
historyVars == <<raised, asked, cleared>>
batchVars == <<doing, loopVars, gatherVars, results, held, historyVars>>
allVars == <<collectionVars, batchVars>>

Failed == "failed"               \* a task that ended with an exception
NoAnswer == "none"

\* An answer is neither of them, and not the TRUE of a confirmed SET.
ASSUME AnswerAssumption == \A d \in Device : d # NoAnswer /\ d # TRUE

Queries == {"info", "labels", "personalities"}
Commands == {"identify", "reset"}
Waiting == {"idle", "returned", "raised"}

\* What task i finds out: the answer of its own device.
Outcome(i) == {Failed, tasks[i]}

BatchInit ==
    /\ CollectionInit
    /\ doing = "idle"
    /\ size = 0 /\ at = 0 /\ address = 0
    /\ tasks = <<>> /\ answers = <<>> /\ finished = <<>>
    /\ results = <<>>
    /\ held = [d \in Device |-> 0]
    /\ raised = {} /\ asked = {} /\ cleared = FALSE

Begin(what) ==
    /\ doing = "idle"
    /\ doing' = what
    /\ asked' = Uids(collection)
    /\ UNCHANGED <<collectionVars, results, held, raised, cleared>>

(* The call ends; its local variables are gone.                            *)
End(how) ==
    /\ doing' = how
    /\ size' = 0 /\ at' = 0 /\ address' = 0
    /\ tasks' = <<>> /\ answers' = <<>> /\ finished' = <<>>
    /\ UNCHANGED <<collectionVars, held, historyVars>>

(* The caller has what the call has returned, and may make another one.    *)
Taken ==
    /\ doing \in {"returned", "raised"}
    /\ doing' = "idle"
    /\ results' = <<>>
    /\ held' = [d \in Device |-> 0]
    /\ raised' = {} /\ asked' = {} /\ cleared' = FALSE
    /\ UNCHANGED <<collectionVars, loopVars, gatherVars>>

-----------------------------------------------------------------------------
(* set_all_dmx_addresses().                                                *)
BeginAddresses(start) ==
    /\ Begin("addresses")
    /\ size' = Len(collection)
    /\ at' = 1
    /\ address' = start
    /\ UNCHANGED gatherVars

(* The iterator notices that the dictionary has another size than at the   *)
(* start, and nothing else.                                                *)
SizeChanged == Len(collection) # size

\* The device that the loop has arrived at.
Current == collection[at].uid

\* results[uid] = value
Noted(value) == [u \in DOMAIN results \union {Current} |->
                    IF u = Current THEN value ELSE results[u]]

Turn ==
    /\ doing = "addresses"
    /\ ~SizeChanged
    /\ at <= size
    /\ at' = at + 1
    /\ UNCHANGED <<collectionVars, doing, size, gatherVars, asked, cleared>>

(* Mutant of NextAddress: an address that was not confirmed is given to    *)
(* the next device.                                                        *)
NextAddressIfConfirmed(success) == IF success THEN address + Spacing ELSE address

\* address += spacing, whether or not the device has confirmed
NextAddress(success) == address + Spacing

(* set_start_address() refuses the address; nothing is sent.               *)
Refuse ==
    /\ Turn
    /\ address \notin 1..MaxAddress
    /\ results' = Noted(FALSE)
    /\ address' = NextAddress(FALSE)
    /\ UNCHANGED <<held, raised>>

(* The SET is sent, up to three times, and the device may obey.            *)
Sent(obeys) ==
    /\ Turn
    /\ address \in 1..MaxAddress
    /\ held' = IF obeys THEN [held EXCEPT ![Current] = address] ELSE held

Confirm ==
    /\ Sent(TRUE)
    /\ results' = Noted(TRUE)
    /\ address' = NextAddress(TRUE)
    /\ UNCHANGED raised

(* No answer came, or a NACK.                                              *)
Unconfirmed(obeys) ==
    /\ Sent(obeys)
    /\ results' = Noted(FALSE)
    /\ address' = NextAddress(FALSE)
    /\ UNCHANGED raised

(* An attempt ends with an exception, which may follow one that the device *)
(* has obeyed; `address += spacing` is skipped.                            *)
Raise(obeys) ==
    /\ Sent(obeys)
    /\ results' = Noted(FALSE)
    /\ raised' = raised \union {Current}
    /\ UNCHANGED address

(* RuntimeError, out of the call; the results are lost.                    *)
IterationFails ==
    /\ doing = "addresses"
    /\ SizeChanged
    /\ End("raised")
    /\ results' = <<>>

EndAddresses ==
    /\ doing = "addresses"
    /\ ~SizeChanged
    /\ at > size
    /\ End("returned")
    /\ UNCHANGED results

-----------------------------------------------------------------------------
(* The operations that gather().                                           *)
BeginGather(what) ==
    /\ Begin(what)
    /\ tasks' = [i \in DOMAIN collection |-> collection[i].uid]
    /\ answers' = [i \in DOMAIN collection |-> NoAnswer]
    /\ finished' = <<>>
    /\ UNCHANGED loopVars

(* One of the tasks is done, with an exception or without.                 *)
TaskDone(i) ==
    /\ doing \in Queries \union Commands
    /\ answers[i] = NoAnswer
    /\ \E outcome \in Outcome(i) : answers' = [answers EXCEPT ![i] = outcome]
    /\ finished' = Append(finished, i)
    /\ UNCHANGED <<collectionVars, doing, loopVars, tasks, results, held, historyVars>>

(* Mutant of Gathered: the answers are taken in the order in which they    *)
(* came.                                                                   *)
GatheredAsTheyCame == [k \in DOMAIN finished |-> answers[finished[k]]]

\* gather() returns what the tasks did in the order of the tasks.
Gathered == answers

(* A query leaves out the devices that failed, a command reports FALSE.    *)
Reported == {k \in DOMAIN tasks : doing \in Commands \/ Gathered[k] # Failed}

Answered(uid) ==
    LET k == CHOOSE k \in Reported : tasks[k] = uid
    IN  IF Gathered[k] = Failed THEN FALSE ELSE Gathered[k]

EndGather ==
    /\ doing \in Queries \union Commands
    /\ Len(finished) = Len(tasks)
    /\ End("returned")
    /\ results' = [uid \in {tasks[k] : k \in Reported} |-> Answered(uid)]

-----------------------------------------------------------------------------
(* The collection goes its own way at every await.                         *)
Elsewhere ==
    /\ CollectionNext
    /\ cleared' = (doing # "idle" /\ (cleared \/ (active /\ ~active')))
    /\ UNCHANGED <<doing, loopVars, gatherVars, results, held, raised, asked>>

BatchNext ==
    \/ \E start \in Starts : BeginAddresses(start)
    \/ Refuse
    \/ Confirm
    \/ \E obeys \in BOOLEAN : Unconfirmed(obeys) \/ Raise(obeys)
    \/ IterationFails
    \/ EndAddresses
    \/ \E what \in Queries \union Commands : BeginGather(what)
    \/ \E i \in DOMAIN tasks : TaskDone(i)
    \/ EndGather
    \/ Taken
    \/ Elsewhere

BatchSpec == BatchInit /\ [][BatchNext]_allVars

-----------------------------------------------------------------------------
\* Every variable has a value of its type.
BatchTypeOK ==
    /\ CollectionTypeOK
    /\ doing \in Waiting \union Queries \union Commands \union {"addresses"}
    /\ size \in 0..Cardinality(Device) /\ at \in 0..Cardinality(Device) + 1
    /\ address \in Nat
    /\ tasks \in UidList
    /\ answers \in [DOMAIN tasks -> Device \union {Failed, NoAnswer}]
    /\ finished \in Seq(DOMAIN tasks)
    /\ DOMAIN results \subseteq Device
    /\ held \in [Device -> 0..MaxAddress]
    /\ raised \subseteq Device /\ asked \subseteq Device
    /\ cleared \in BOOLEAN

(* set_all_dmx_addresses() never leaves two devices with footprints that   *)
(* overlap, although a SET whose answer was lost counts as failed, and     *)
(* although the collection may be cleared and filled again on the way.     *)
(* The devices whose SET raised an exception are not meant: the next one   *)
(* gets the same address.                                                  *)
AddressesDoNotOverlap ==
    \A d, e \in Device \ raised :
        d # e /\ held[d] # 0 /\ held[e] # 0 =>
            held[d] >= held[e] + Spacing \/ held[e] >= held[d] + Spacing

(* A batch that returns has a result for the devices that it should have,  *)
(* and it is the device's own, whatever was discovered meanwhile and in    *)
(* whatever order the answers came.  set_all_dmx_addresses() has one for   *)
(* each device of the collection, as it was at the start and as it is now, *)
(* unless stop() has intervened; success means that the device obeyed.     *)
(* The others have one for each device of the start, except that a query   *)
(* may leave some out.                                                     *)
ResultsAreTheDevices ==
    /\ doing = "addresses" /\ at > size /\ ~SizeChanged /\ ~cleared =>
           DOMAIN results = Uids(collection) /\ DOMAIN results = asked
    /\ doing \in Commands /\ Len(finished) = Len(tasks) =>
           {tasks[k] : k \in Reported} = asked
    /\ \A d \in DOMAIN results : results[d] = TRUE => held[d] # 0
    /\ \A d \in DOMAIN results : results[d] \in {TRUE, FALSE} \/ results[d] = d

=============================================================================
