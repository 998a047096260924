------------------------------ MODULE Discovery ------------------------------
(***************************************************************************)
(* Full network discovery                                                  *)
(* (rdm_dmx_async/services/discovery_service.py and binary_search.py).     *)
(*                                                                         *)
(* The search sends DISC_UNIQUE_BRANCH for a range of addresses and splits *)
(* the range when several devices answer.  A device that answers alone is  *)
(* muted, and the search asks the whole range again until that collides.   *)
(* The devices and the wire are external; what may go wrong there is a     *)
(* parameter.  One action is one exchange on the wire, or what the search  *)
(* does between two exchanges.                                             *)
(***************************************************************************)
EXTENDS TxnAllocator, SequencesExt

CONSTANTS
    MaxAddress,        \* UPPER_BOUND_ADDRESS, 2^48 - 1 in the code
    Retries,           \* MAX_RETRIES, 3: silent exchanges before a range is empty
    MuteRetries,       \* MAX_MUTE_RETRIES, 5
    SkipLists,         \* the skip_uids a caller may pass
    Limits,            \* the max_devices a caller may pass; 0: no limit
    Faults             \* what may go wrong outside, see Fault

(* miss: a device does not hear, or is not heard, in one branch exchange;  *)
(* garble: a collision is decoded as some address (the checksum of the     *)
(* response is not looked at); late: a response comes after the time-out;  *)
(* deaf: a mute request or the unmute broadcast does not get through;      *)
(* ack: the answer to a mute request is lost; reset: a device restarts     *)
(* and is not muted any more.                                              *)
Fault == {"miss", "garble", "late", "deaf", "ack", "reset"}

Address == 0 .. MaxAddress

(* No device has address 0, and full_discovery() cannot find one: a UID of *)
(* 0 is no UID where it tests the response, and counts as a collision.     *)
Device == Address \ {0}

ASSUME DiscoveryAssumption ==
    /\ MaxAddress \in Nat
    /\ Retries \in Nat \ {0}
    /\ MuteRetries \in Nat \ {0}
    /\ SkipLists \subseteq Seq(Address)
    /\ Limits \subseteq Nat
    /\ Faults \subseteq Fault

VARIABLES
    devices,           \* the devices on the wire
    muted,             \* those that do not answer DISC_UNIQUE_BRANCH now
    responses,         \* _discovery_queue: each response is the set of
                       \* addresses that can be read from it
    discovered,        \* _discovered_uids
    skipped,           \* skip_uids of the search
    pc,                \* where the search is
    toMute,            \* devices still to be muted before the search
    split,             \* the nodes of the tree that have children
    complete,          \* the nodes that are marked complete
    current,           \* current_node
    saved,             \* saved_node
    attempt,           \* of the branch exchange
    tries,             \* of the mute exchange
    candidate,         \* the address that was read from a response
    remaining          \* remaining_searches; 0: no limit

networkVars == <<devices, muted>>
treeVars == <<split, complete>>
roundVars == <<attempt, tries, candidate>>
callVars == <<skipped, toMute>>
vars == <<allocatorVars, networkVars, responses, discovered, callVars, pc, treeVars, current,
          saved, roundVars, remaining>>

-----------------------------------------------------------------------------
(* The tree.  A node is known by its range <<low, high>>.                  *)

Node == {n \in Address \X Address : n[1] <= n[2]}

None == <<>>                     \* no node

Root == <<0, MaxAddress>>

Midpoint(n) == ((n[2] - n[1]) \div 2) + n[1]

LowHalf(n) == <<n[1], Midpoint(n)>>
HighHalf(n) == <<Midpoint(n) + 1, n[2]>>
Children(n) == {LowHalf(n), HighHalf(n)}

InRange(n) == n[1] .. n[2]

(* Who answers a branch exchange about n.                                  *)
Responders(n) == (devices \ muted) \intersect InRange(n)

-----------------------------------------------------------------------------
(* Exchanges.                                                              *)

(* Numbers are allocated and never given back.                             *)
TakeNumber == \E n \in Numbers : Allocate(n)

(* What reaches the interface in a branch exchange about n: nothing, one   *)
(* address, or several that collide.                                       *)
Answers(n) ==
    LET heard == IF "miss" \in Faults THEN SUBSET Responders(n) ELSE {Responders(n)}
        Collided(h) == \E a, b \in h : a # b
    IN  heard \union {{a} : a \in IF "garble" \in Faults /\ \E h \in heard : Collided(h)
                                  THEN Address ELSE {}}

(* The search gets result, the first response in the queue; the answer to  *)
(* this very exchange stays in the queue if it is not needed or late.      *)
Take(answer, result) ==
    LET arrived == IF answer = {} THEN <<>> ELSE <<answer>>
    IN  \/ /\ responses = <<>>
           /\ result = answer
           /\ UNCHANGED responses
        \/ /\ responses = <<>> /\ "late" \in Faults
           /\ result = {}
           /\ responses' = arrived
        \/ /\ responses # <<>>
           /\ result = Head(responses)
           /\ responses' = Tail(responses) \o arrived

(* mute_device(a), with its return value; without a number it returns      *)
(* False like every other failure.                                         *)
MuteExchange(a, acknowledged) ==
    \/ /\ Exhausted
       /\ ~acknowledged
       /\ UNCHANGED <<allocatorVars, muted>>
    \/ /\ TakeNumber
       /\ a \notin devices \/ "deaf" \in Faults
       /\ ~acknowledged
       /\ UNCHANGED muted
    \/ /\ TakeNumber
       /\ a \in devices
       /\ muted' = muted \union {a}
       /\ acknowledged \/ "ack" \in Faults

(* unmute_all().                                                           *)
UnmuteAll ==
    \/ /\ Exhausted
       /\ UNCHANGED <<allocatorVars, muted>>
    \/ /\ TakeNumber
       /\ muted' \in IF "deaf" \in Faults THEN SUBSET muted ELSE {{}}

-----------------------------------------------------------------------------
Init ==
    /\ AllocatorInit(1)
    /\ devices \in SUBSET Device
    /\ muted = {}
    /\ responses = <<>>
    /\ discovered = <<>>
    /\ skipped = <<>>
    /\ pc = "idle"
    /\ toMute = <<>>
    /\ split = {}
    /\ complete = {}
    /\ current = None
    /\ saved = None
    /\ attempt = 1
    /\ tries = 1
    /\ candidate = 0
    /\ remaining = 0

(* full_discovery() up to the loop that mutes what need not be found.      *)
Begin(onlyNew, skipUids, limit) ==
    /\ pc \in {"idle", "done", "limit"}
    /\ UnmuteAll
    /\ discovered' = IF onlyNew THEN discovered ELSE <<>>
    /\ toMute' = (IF onlyNew THEN discovered ELSE <<>>) \o skipUids
    /\ skipped' = skipUids
    /\ split' = {}
    /\ complete' = {}
    /\ current' = Root
    /\ saved' = None
    /\ attempt' = 1
    /\ tries' = 1
    /\ candidate' = 0
    /\ remaining' = limit
    /\ pc' = "prepare"
    /\ UNCHANGED <<devices, responses>>

(* One of the devices of only_new and skip_uids is muted, or not.          *)
Prepare ==
    /\ pc = "prepare"
    /\ toMute # <<>>
    /\ \E acknowledged \in BOOLEAN : MuteExchange(Head(toMute), acknowledged)
    /\ toMute' = Tail(toMute)
    /\ UNCHANGED <<devices, responses, discovered, skipped, pc, treeVars, current, saved,
                   roundVars, remaining>>

Search ==
    /\ pc = "prepare"
    /\ toMute = <<>>
    /\ pc' = "branch"
    /\ UNCHANGED <<allocatorVars, networkVars, responses, discovered, callVars, treeVars, current,
                   saved, roundVars, remaining>>

-----------------------------------------------------------------------------
(* The three results of discover_unique_branch().                          *)

(* Mutant of NoResponse: the range is not marked.                          *)
NoResponseUnmarked ==
    /\ attempt' = 1
    /\ pc' = "finished"
    /\ UNCHANGED <<split, complete, current, saved, tries, candidate>>

(* NO_RESPONSE: after the last attempt the range is complete.              *)
NoResponse ==
    /\ \/ /\ attempt < Retries
          /\ attempt' = attempt + 1
          /\ UNCHANGED <<complete, pc>>
       \/ /\ attempt = Retries
          /\ attempt' = 1
          /\ complete' = complete \union {current}
          /\ pc' = "finished"
    /\ UNCHANGED <<split, current, saved, tries, candidate>>

(* COLLISION: the node is split, or the saved one is taken up again.       *)
Collision ==
    /\ \/ /\ saved = None
          /\ split' = IF current[1] # current[2] THEN split \union {current} ELSE split
          /\ UNCHANGED <<current, saved>>
       \/ /\ saved # None
          /\ current' = saved
          /\ saved' = None
          /\ UNCHANGED split
    /\ attempt' = 1
    /\ tries' = 1
    /\ candidate' = 0
    /\ pc' = "choose"
    /\ UNCHANGED complete

(* Every round counts against the limit, whatever its result.              *)
EndRound(next) ==
    /\ pc' = IF remaining = 1 THEN "limit" ELSE next
    /\ remaining' = IF remaining > 0 THEN remaining - 1 ELSE 0

(* ADDRESS_FOUND: the node is saved and the whole range is asked again.    *)
Found ==
    /\ \/ /\ saved = None
          /\ saved' = current
          /\ current' = Root
       \/ /\ saved # None
          /\ UNCHANGED <<saved, current>>
    /\ attempt' = 1
    /\ tries' = 1
    /\ candidate' = 0
    /\ EndRound("branch")
    /\ UNCHANGED treeVars

(* DISC_UNIQUE_BRANCH for the current node.                                *)
Branch ==
    /\ pc = "branch"
    /\ \/ /\ Exhausted
          /\ NoResponse
          /\ UNCHANGED <<allocatorVars, responses>>
       \/ /\ TakeNumber
          /\ \E answer \in Answers(current) :
              \E result \in {{}, answer} \union {responses[i] : i \in DOMAIN responses} :
                 /\ Take(answer, result)
                 /\ \/ /\ result = {}
                       /\ NoResponse
                    \/ /\ \E a \in result \ {0} : result = {a} /\ candidate' = a
                       /\ pc' = "mute"
                       /\ UNCHANGED <<treeVars, current, saved, attempt, tries>>
                    \/ /\ result = {0} \/ \E a, b \in result : a # b
                       /\ Collision
    /\ UNCHANGED <<networkVars, discovered, callVars, remaining>>

(* Mutant of Muted: the address counts as found without an answer.         *)
MutedUnheard(acknowledged) ==
    /\ discovered' = IF Contains(discovered, candidate) THEN discovered
                     ELSE Append(discovered, candidate)
    /\ Found

(* The device that was read is asked to be silent.  After the last try     *)
(* without an answer the response counts as a collision.                   *)
Muted(acknowledged) ==
    \/ /\ acknowledged
       /\ discovered' = IF Contains(discovered, candidate) THEN discovered
                        ELSE Append(discovered, candidate)
       /\ Found
    \/ /\ ~acknowledged
       /\ tries < MuteRetries
       /\ tries' = tries + 1
       /\ UNCHANGED <<discovered, pc, treeVars, current, saved, attempt, candidate, remaining>>
    \/ /\ ~acknowledged
       /\ tries = MuteRetries
       /\ Collision
       /\ UNCHANGED <<discovered, remaining>>

Mute ==
    /\ pc = "mute"
    /\ \E acknowledged \in BOOLEAN : MuteExchange(candidate, acknowledged) /\ Muted(acknowledged)
    /\ UNCHANGED <<devices, responses, callVars>>

-----------------------------------------------------------------------------
(* The next node.                                                          *)

(* Mutant of Closed: one half is enough.                                   *)
ClosedByHalf(parent) == Children(parent) \intersect complete # {}

(* Both halves are complete.                                               *)
Closed(parent) == Children(parent) \subseteq complete

(* One turn of the loop in get_next_root(): up to the first ancestor that  *)
(* has work left, marking the others.  It is called after a range is       *)
(* complete ("finished"), and when no child is left to ask ("retreat").    *)
(* Above the root the search is over.                                      *)
Climb ==
    /\ pc \in {"finished", "retreat"}
    /\ \/ /\ current = Root
          /\ current' = None
          /\ pc' = "done"
          /\ UNCHANGED complete
       \/ /\ current # Root
          /\ \E parent \in split :
              /\ current \in Children(parent)
              /\ current' = parent
              /\ \/ /\ Closed(parent)
                    /\ complete' = complete \union {parent}
                    /\ UNCHANGED pc
                 \/ /\ ~Closed(parent)
                    /\ pc' = IF pc = "finished" THEN "choose" ELSE "branch"
                    /\ UNCHANGED complete
    /\ UNCHANGED <<allocatorVars, networkVars, responses, discovered, callVars, split, saved,
                   roundVars, remaining>>

(* Down to a child that is not complete, the lower one first.              *)
Open(n) == current \in split /\ n \in Children(current) \ complete

Choose ==
    /\ pc = "choose"
    /\ \/ /\ Open(LowHalf(current))
          /\ current' = LowHalf(current)
          /\ EndRound("branch")
       \/ /\ ~Open(LowHalf(current)) /\ Open(HighHalf(current))
          /\ current' = HighHalf(current)
          /\ EndRound("branch")
       \/ /\ ~Open(LowHalf(current)) /\ ~Open(HighHalf(current))
          /\ EndRound("retreat")
          /\ UNCHANGED current
    /\ UNCHANGED <<allocatorVars, networkVars, responses, discovered, callVars, treeVars, saved,
                   roundVars>>

(* A muted device restarts.                                                *)
Reset(d) ==
    /\ "reset" \in Faults
    /\ d \in muted
    /\ muted' = muted \ {d}
    /\ UNCHANGED <<allocatorVars, devices, responses, discovered, callVars, pc, treeVars, current,
                   saved, roundVars, remaining>>

SearchStep == Prepare \/ Search \/ Branch \/ Mute \/ Climb \/ Choose

Next ==
    \/ \E onlyNew \in BOOLEAN, skipUids \in SkipLists, limit \in Limits :
          Begin(onlyNew, skipUids, limit)
    \/ SearchStep
    \/ \E d \in Address : Reset(d)

Spec == Init /\ [][Next]_vars

(* The search runs on: every exchange has a time-out.                      *)
FairSpec == Spec /\ WF_vars(SearchStep)

-----------------------------------------------------------------------------
(* Properties.                                                             *)

TypeOK ==
    /\ AllocatorTypeOK
    /\ devices \subseteq Device
    /\ muted \subseteq devices
    /\ responses \in Seq((SUBSET Address) \ {{}})
    /\ discovered \in Seq(Address)
    /\ skipped \in Seq(Address)
    /\ pc \in {"idle", "prepare", "branch", "mute", "finished", "choose", "retreat", "done",
               "limit"}
    /\ toMute \in Seq(Address)
    /\ split \subseteq Node
    /\ complete \subseteq Node
    /\ current \in Node \union {None}
    /\ saved \in Node \union {None}
    /\ attempt \in 1 .. Retries
    /\ tries \in 1 .. MuteRetries
    /\ candidate \in Address
    /\ remaining \in Nat

(* The tree hangs together: what is split, marked, searched or saved has   *)
(* been reached from the root, and only a node that a child can come from  *)
(* has children.  Climb finds a parent for every node but the root.        *)
Tree == {Root} \union UNION {Children(n) : n \in split}

TreeIsSound ==
    /\ split \union complete \subseteq Tree
    /\ \A n \in split : n[1] < n[2]
    /\ pc \notin {"idle", "done"} => current \in Tree
    /\ saved # None => saved \in Tree /\ (current = Root \/ pc = "done")

(* Whatever the wire does, the list holds devices only, each one once: no  *)
(* address that was read from a collision gets into it.                    *)
FoundAreDevices ==
    /\ ToSet(discovered) \subseteq devices
    /\ \A i, j \in DOMAIN discovered : discovered[i] = discovered[j] => i = j

(* On a wire without faults a node is marked complete only when no device  *)
(* in its range is left to be found, as long as there are numbers.         *)
CompleteIsSilent ==
    Faults = {} /\ ~Exhausted => \A n \in complete : Responders(n) = {}

(* On a wire without faults a search that ends by itself has found every   *)
(* device it was not told to skip, as long as there are numbers.           *)
FindsAll ==
    Faults = {} /\ ~Exhausted /\ pc = "done" =>
        devices \subseteq ToSet(discovered) \union ToSet(skipped)

(* Every search ends, whatever the wire does.                              *)
EverySearchEnds == pc = "prepare" ~> pc \in {"done", "limit"}
==============================================================================
