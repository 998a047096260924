--------------------------- MODULE ManagerProofs ---------------------------
(***************************************************************************)
(* Theorems about the manager of the network: the life of its stack        *)
(* (Network), for any number of managers and of requests, and below the    *)
(* operations on all devices of its collection (BatchOperations), for any  *)
(* number of devices, sessions and searches.                               *)
(***************************************************************************)
EXTENDS Network, BatchOperations, FiniteSetTheorems, SequenceTheorems, TLAPS

(* What runs of a manager is decided by what its request awaits.           *)
Quiet(m) == receive[m] = "none" /\ cleaner[m] = "none" /\ port[m] = "closed"

StageInv ==
    \A m \in Manager :
        /\ pc[m] # "up" => loop[m] # "alive"
        /\ pc[m] \in {"gone", "querying"} => Quiet(m)
        /\ pc[m] \in {"up", "scheduler"} =>
               receive[m] = "alive" /\ cleaner[m] = "alive" /\ port[m] = "connected"
        /\ pc[m] = "receive" =>
               receive[m] = "dying" /\ cleaner[m] = "alive" /\ port[m] = "connected"
        /\ pc[m] = "cleaner" =>
               receive[m] = "none" /\ cleaner[m] = "dying" /\ port[m] = "connected"
        /\ pc[m] = "port" =>
               receive[m] = "none" /\ cleaner[m] = "none" /\ port[m] = "closing"

(* Without overlap, whoever is up or on its way down is the manager of the *)
(* application, and whoever is on its way up is alone.                     *)
AloneInv ==
    overlapped \/
        /\ \A m \in Manager : pc[m] \in {"up"} \cup Stopping => current = m
        /\ \A m, n \in Manager : pc[m] = "querying" /\ pc[n] # "gone" => m = n

NetworkInv ==
    /\ None \notin Manager
    /\ TypeOK
    /\ StageInv
    /\ AloneInv

-----------------------------------------------------------------------------
(* The initial states satisfy the invariant.                               *)
LEMMA InitInv == Init => NetworkInv
<1> SUFFICES ASSUME Init PROVE NetworkInv
    OBVIOUS
<1>1. TypeOK
      BY DEF Init, TypeOK, Task
<1>2. StageInv
      BY DEF Init, StageInv, Quiet
<1>3. AloneInv
      BY DEF Init, AloneInv, Stopping
<1> QED
    BY <1>1, <1>2, <1>3, NetworkAssumption DEF NetworkInv

(* Every action keeps the types.                                           *)
LEMMA TypeStep == NetworkInv /\ [Next]_vars => TypeOK'
<1> SUFFICES ASSUME NetworkInv, [Next]_vars PROVE TypeOK'
    OBVIOUS
<1> USE DEF NetworkInv, TypeOK, Task, Stopping
<1>1. ASSUME NEW m \in Manager, ConnectAtOnce(m) PROVE TypeOK'
      BY <1>1 DEF ConnectAtOnce, RequestBegins, Assemble
<1>2. ASSUME NEW m \in Manager, ConnectBegins(m) PROVE TypeOK'
      BY <1>2 DEF ConnectBegins, RequestBegins, life
<1>3. ASSUME NEW m \in Manager, ConnectEnds(m) PROVE TypeOK'
      BY <1>3 DEF ConnectEnds, Assemble
<1>4. ASSUME NEW m \in Manager, ConnectFails(m) PROVE TypeOK'
      BY <1>4 DEF ConnectFails, life
<1>5. ASSUME NEW m \in Manager, Disconnect(m) PROVE TypeOK'
      BY <1>5 DEF Disconnect, RequestBegins, BeginCleanup, StopReceive
<1>6. ASSUME NEW m \in Manager, SchedulerStopped(m) PROVE TypeOK'
      BY <1>6 DEF SchedulerStopped, StopReceive
<1>7. ASSUME NEW m \in Manager, ReceiveStopped(m) PROVE TypeOK'
      BY <1>7 DEF ReceiveStopped
<1>8. ASSUME NEW m \in Manager, CleanerStopped(m) PROVE TypeOK'
      BY <1>8 DEF CleanerStopped
<1>9. ASSUME NEW m \in Manager, PortClosed(m) PROVE TypeOK'
      BY <1>9 DEF PortClosed
<1>10. ASSUME NEW m \in Manager, LoopDies(m) PROVE TypeOK'
      BY <1>10 DEF LoopDies
<1>11. ASSUME NEW u \in User, UserStep(u) PROVE TypeOK'
      BY <1>11 DEF UserStep, Resolve, SendRepeated, SendOnce, Refused, life
<1>12. ASSUME Shutdown PROVE TypeOK'
      BY <1>12, ZenonT(60) DEF Shutdown, BeginCleanup, StopReceive, life
<1>13. CASE UNCHANGED vars
      BY <1>13 DEF vars, life
<1> QED
    BY <1>1, <1>2, <1>3, <1>4, <1>5, <1>6, <1>7, <1>8, <1>9, <1>10, <1>11, <1>12, <1>13
       DEF Next, ManagerStep, StopStep

(* Every action leaves each manager in the stage that its request awaits;  *)
(* requests that use a manager need the check of is_active for that.       *)
LEMMA StageStep == NetworkInv /\ [Next]_vars => StageInv'
<1> SUFFICES ASSUME NetworkInv, [Next]_vars PROVE StageInv'
    OBVIOUS
<1> USE DEF NetworkInv, TypeOK, Task, Stopping, StageInv, Quiet
<1>1. ASSUME NEW m \in Manager, ConnectAtOnce(m) PROVE StageInv'
      BY <1>1 DEF ConnectAtOnce, Fresh, Assemble
<1>2. ASSUME NEW m \in Manager, ConnectBegins(m) PROVE StageInv'
      BY <1>2 DEF ConnectBegins, Fresh, life
<1>3. ASSUME NEW m \in Manager, ConnectEnds(m) PROVE StageInv'
      BY <1>3 DEF ConnectEnds, Assemble
<1>4. ASSUME NEW m \in Manager, ConnectFails(m) PROVE StageInv'
      BY <1>4 DEF ConnectFails, life
<1>5. ASSUME NEW m \in Manager, Active(m), BeginCleanup(m) PROVE StageInv'
      BY <1>5 DEF Active, BeginCleanup, StopReceive
<1>6. ASSUME NEW m \in Manager, SchedulerStopped(m) PROVE StageInv'
      BY <1>6 DEF SchedulerStopped, StopReceive
<1>7. ASSUME NEW m \in Manager, ReceiveStopped(m) PROVE StageInv'
      BY <1>7 DEF ReceiveStopped
<1>8. ASSUME NEW m \in Manager, CleanerStopped(m) PROVE StageInv'
      BY <1>8 DEF CleanerStopped
<1>9. ASSUME NEW m \in Manager, PortClosed(m) PROVE StageInv'
      BY <1>9 DEF PortClosed
<1>10. ASSUME NEW m \in Manager, LoopDies(m) PROVE StageInv'
      BY <1>10 DEF LoopDies
<1>11. ASSUME NEW u \in User, UserStep(u) PROVE StageInv'
      BY <1>11 DEF UserStep, Resolve, SendRepeated, SendOnce, Refused, Usable, Active, life
<1>12. CASE UNCHANGED <<pc, life>>
      BY <1>12 DEF life
<1> QED
    BY <1>1, <1>2, <1>3, <1>4, <1>5, <1>6, <1>7, <1>8, <1>9, <1>10, <1>11, <1>12
       DEF Next, ManagerStep, StopStep, Disconnect, Shutdown, vars

(* A connect that is admitted without overlap finds every manager gone.    *)
LEMMA AdmittedAlone ==
    ASSUME NetworkInv, Admitted, RequestBegins, ~overlapped'
    PROVE  ~overlapped /\ \A n \in Manager : pc[n] = "gone"
<1>1. ~overlapped /\ \A n \in Manager : ~Busy(n)
      BY DEF RequestBegins
<1>2. \A n \in Manager : pc[n] # "up"
      BY <1>1 DEF NetworkInv, AloneInv, Admitted, Active
<1> QED
    BY <1>1, <1>2 DEF NetworkInv, TypeOK, Busy

(* Every action keeps the manager of the application alone, or marks that  *)
(* requests have overlapped.                                               *)
LEMMA AloneStep == NetworkInv /\ [Next]_vars => AloneInv'
<1> SUFFICES ASSUME NetworkInv, [Next]_vars, ~overlapped' PROVE AloneInv'
    BY DEF AloneInv
<1> USE DEF NetworkInv, TypeOK, Stopping, AloneInv
<1>1. ASSUME NEW m \in Manager, ConnectAtOnce(m) PROVE AloneInv'
      BY <1>1, AdmittedAlone DEF ConnectAtOnce, Assemble
<1>2. ASSUME NEW m \in Manager, ConnectBegins(m) PROVE AloneInv'
      BY <1>2, AdmittedAlone DEF ConnectBegins
<1>3. ASSUME NEW m \in Manager, ConnectEnds(m) PROVE AloneInv'
      BY <1>3 DEF ConnectEnds, Assemble
<1>4. ASSUME NEW m \in Manager, ConnectFails(m) PROVE AloneInv'
      BY <1>4 DEF ConnectFails
<1>5. ASSUME NEW m \in Manager, Active(m), BeginCleanup(m), current' = current,
             overlapped \/ \A n \in Manager : pc[n] # "querying"
      PROVE  ~overlapped => AloneInv'
      BY <1>5 DEF Active, BeginCleanup, StopReceive
<1>6. ASSUME NEW m \in Manager, Disconnect(m) PROVE AloneInv'
      BY <1>5, <1>6 DEF Disconnect, RequestBegins, Busy
<1>7. ASSUME NEW m \in Manager, SchedulerStopped(m) PROVE AloneInv'
      BY <1>7 DEF SchedulerStopped, StopReceive
<1>8. ASSUME NEW m \in Manager, ReceiveStopped(m) PROVE AloneInv'
      BY <1>8 DEF ReceiveStopped
<1>9. ASSUME NEW m \in Manager, CleanerStopped(m) PROVE AloneInv'
      BY <1>9 DEF CleanerStopped
<1>10. ASSUME NEW m \in Manager, PortClosed(m) PROVE AloneInv'
      BY <1>10 DEF PortClosed
<1>11. ASSUME Shutdown PROVE AloneInv'
      BY <1>5, <1>11 DEF Shutdown, Busy
<1>12. CASE UNCHANGED <<pc, current, overlapped>>
      BY <1>12
<1> QED
    BY <1>1, <1>2, <1>3, <1>4, <1>6, <1>7, <1>8, <1>9, <1>10, <1>11, <1>12
       DEF Next, ManagerStep, StopStep, UserStep, LoopDies, Resolve, SendRepeated,
           SendOnce, Refused, vars

-----------------------------------------------------------------------------
(* The invariant holds in every reachable state.                           *)
THEOREM NetworkIsInvariant == Spec => []NetworkInv
<1>1. NetworkInv /\ [Next]_vars => NetworkInv'
      BY TypeStep, StageStep, AloneStep DEF NetworkInv
<1> QED
    BY InitInv, <1>1, PTL DEF Spec

(* Every variable keeps its type.                                          *)
THEOREM NetworkTypes == Spec => []TypeOK
<1>1. NetworkInv => TypeOK
      BY DEF NetworkInv
<1> QED
    BY NetworkIsInvariant, <1>1, PTL

(* The receive loop of a protocol that runs has a connected transport, in  *)
(* every order of connects, disconnects and failures.                      *)
THEOREM ReceiversHavePorts == Spec => []ReceiverHasPort
<1>1. NetworkInv => ReceiverHasPort
      BY DEF NetworkInv, TypeOK, StageInv, Quiet, ReceiverHasPort, Stopping
<1> QED
    BY NetworkIsInvariant, <1>1, PTL

(* A manager that is active is whole.                                      *)
THEOREM ActiveManagersAreWhole == Spec => []ActiveIsWhole
<1>1. NetworkInv => ActiveIsWhole
      BY DEF NetworkInv, StageInv, ActiveIsWhole, Active
<1> QED
    BY NetworkIsInvariant, <1>1, PTL

(* Nothing is left of a manager whose connect has failed or whose          *)
(* disconnect has returned.                                                *)
THEOREM GoneManagersAreQuiet == Spec => []GoneIsQuiet
<1>1. NetworkInv => GoneIsQuiet
      BY DEF NetworkInv, StageInv, Quiet, GoneIsQuiet
<1> QED
    BY NetworkIsInvariant, <1>1, PTL

(* Without overlapping requests the application has one manager.           *)
THEOREM ManagerIsAppWide == Spec => []AppWide
<1>1. NetworkInv => AppWide
  <2> SUFFICES ASSUME NetworkInv, ~overlapped PROVE AppWide
      BY DEF AppWide
  <2>1. \A m \in Manager : Active(m) => current = m
        BY DEF NetworkInv, AloneInv, Active
  <2>2. \A m \in Manager : port[m] # "closed" => pc[m] \in {"up"} \cup Stopping
        BY DEF NetworkInv, TypeOK, StageInv, Quiet
  <2> QED
      BY <2>1, <2>2 DEF NetworkInv, AloneInv, AppWide
<1> QED
    BY NetworkIsInvariant, <1>1, PTL

-----------------------------------------------------------------------------
(* Lists of UIDs without repetition.                                       *)

(* A list without repetition is no longer than the number of devices.      *)
LEMMA ListOfUids ==
    ASSUME NEW s \in Seq(Device), IsInjective(s)
    PROVE  s \in UidList
  <1>1. s \in [1..Len(s) -> Device] /\ Len(s) \in Nat /\ DOMAIN s = 1..Len(s)
    BY LenProperties
  <1>2. s \in Injection(1..Len(s), Device)
    BY <1>1 DEF Injection
  <1>3. Cardinality(1..Len(s)) <= Cardinality(Device)
    BY <1>2, FS_Injection, CollectionAssumption
  <1>4. Cardinality(1..Len(s)) = Len(s)
    <2>1. 1 \in Int /\ Len(s) \in Int
      BY <1>1
    <2>2. Cardinality(1..Len(s)) = IF 1 > Len(s) THEN 0 ELSE Len(s) - 1 + 1
      BY ONLY <2>1, FS_Interval
    <2>3. QED
      BY <1>1, <2>2
  <1>5. Cardinality(Device) \in Nat
    BY FS_CardinalityType, CollectionAssumption
  <1>6. Len(s) \in 0..Cardinality(Device)
    BY <1>1, <1>3, <1>4, <1>5
  <1>7. s \in SeqOf(Device, Cardinality(Device))
    BY <1>1, <1>6 DEF SeqOf
  <1> QED
    BY <1>7 DEF UidList

(* What the members of UidList are.                                        *)
LEMMA UidLists ==
    ASSUME NEW s \in UidList
    PROVE  /\ s \in Seq(Device)
           /\ DOMAIN s = 1..Len(s)
           /\ Len(s) \in 0..Cardinality(Device)
           /\ \A i, j \in 1..Len(s) : s[i] = s[j] => i = j
  <1>1. PICK m \in 0..Cardinality(Device) : s \in [1..m -> Device]
    BY DEF UidList, SeqOf
  <1>2. Cardinality(Device) \in Nat
    BY FS_CardinalityType, CollectionAssumption
  <1>3. m \in Nat
    BY <1>1, <1>2
  <1>4. s \in Seq(Device) /\ Len(s) = m
    BY <1>1, <1>3
  <1>5. IsInjective(s)
    BY DEF UidList
  <1> QED
    BY <1>1, <1>4, <1>5 DEF IsInjective

(* The empty list is one of them.                                          *)
LEMMA EmptyUidList == <<>> \in UidList
  <1>1. <<>> \in Seq(Device) /\ Len(<<>>) = 0
    BY EmptySeq
  <1>2. IsInjective(<<>>)
    BY <1>1 DEF IsInjective
  <1> QED
    BY <1>1, <1>2, ListOfUids

-----------------------------------------------------------------------------
(* The collection of devices.                                              *)

CollectionInv ==
    /\ CollectionTypeOK
    /\ \A i, j \in DOMAIN collection : collection[i].uid = collection[j].uid => i = j
    /\ Range(search.todo) \cap Range(search.found) = {}

(* A device keeps its place in the collection until stop() clears it.      *)
Kept ==
    /\ Len(collection') >= Len(collection)
    /\ \A i \in 1..Len(collection) : collection'[i].uid = collection[i].uid

LEMMA CollectionInitInv == CollectionInit => CollectionInv
<1> SUFFICES ASSUME CollectionInit PROVE CollectionInv
    OBVIOUS
<1>1. collection \in Seq([uid : Device, session : 0..MaxSessions]) /\ DOMAIN collection = {}
      BY EmptySeq DEF CollectionInit
<1>2. search \in [kind : {"none", "known", "full"}, todo : UidList, found : UidList,
                  session : 0..MaxSessions]
      BY EmptyUidList, CollectionAssumption DEF CollectionInit, NoSearch
<1>3. Range(search.todo) = {}
      BY DEF CollectionInit, NoSearch, Range
<1>4. CollectionTypeOK
    <2>1. /\ active \in BOOLEAN
          /\ session \in 0..MaxSessions
          /\ repository \in [1..MaxSessions -> SUBSET Device]
          /\ calls \in 0..MaxCalls
      <3>1. 0 \in 0..MaxSessions
        BY CollectionAssumption
      <3>2. 0 \in 0..MaxCalls
        BY CollectionAssumption
      <3>3. [s \in 1..MaxSessions |-> {}] \in [1..MaxSessions -> SUBSET Device]
        OBVIOUS
      <3>4. active \in BOOLEAN
        BY DEF CollectionInit
      <3>5. session \in 0..MaxSessions
        BY <3>1 DEF CollectionInit
      <3>6. repository \in [1..MaxSessions -> SUBSET Device]
        BY <3>3 DEF CollectionInit
      <3>7. calls \in 0..MaxCalls
        BY <3>2 DEF CollectionInit
      <3>8. QED
        BY <3>4, <3>5, <3>6, <3>7
    <2>2. QED
      BY <1>1, <1>2, <2>1, Zenon DEF CollectionTypeOK
<1> QED
    BY <1>1, <1>3, <1>4 DEF CollectionInv

(* The UIDs that a search has found join the list of those of the          *)
(* collection, which stays free of repetitions.                            *)
LEMMA Joined ==
    ASSUME CollectionInv, Collect
    PROVE  CollectionInv' /\ Kept
  <1> DEFINE Devices == [uid : Device, session : 0..MaxSessions]
             renewed == Renewed(collection, Range(search.found), search.session)
  <1>1. collection \in Seq(Devices) /\ search.session \in 0..MaxSessions
    BY DEF CollectionInv, CollectionTypeOK
  <1>2. PICK new \in UidList :
            /\ Range(new) = Range(search.found) \ Uids(collection)
            /\ collection' = renewed \o [i \in DOMAIN new |-> Entry(new[i], search.session)]
    BY DEF Collect, Joining
  <1> DEFINE joining == [i \in DOMAIN new |-> Entry(new[i], search.session)]
             n == Len(collection)
             m == Len(new)
  <1>3. new \in Seq(Device) /\ DOMAIN new = 1..m /\ m \in Nat
        /\ \A i, j \in 1..m : new[i] = new[j] => i = j
    BY UidLists
  <1>4. n \in Nat /\ DOMAIN collection = 1..n /\ \A i \in 1..n : collection[i] \in Devices
    <2> HIDE DEF Devices
    <2> QED
      BY <1>1, LenProperties, ElementOfSeq
  <1>5. /\ renewed \in Seq(Devices)
        /\ Len(renewed) = n
        /\ \A i \in 1..n : renewed[i].uid = collection[i].uid
    <2>1. renewed = [i \in 1..n |-> IF collection[i].uid \in Range(search.found)
                                     THEN Entry(collection[i].uid, search.session)
                                     ELSE collection[i]]
      BY <1>4 DEF Renewed
    <2>2. ASSUME NEW u \in Device
          PROVE  Entry(u, search.session) \in Devices /\ Entry(u, search.session).uid = u
      BY <1>1 DEF Entry
    <2>3. \A i \in 1..n : renewed[i] \in Devices /\ renewed[i].uid = collection[i].uid
      BY <2>1, <2>2, <1>4
    <2>4. renewed \in [1..n -> Devices]
      BY <2>1, <2>3
    <2> HIDE DEF renewed, Devices
    <2>5. QED
      BY ONLY <2>3, <2>4, <1>4
  <1>6. /\ joining \in Seq(Devices)
        /\ Len(joining) = m
        /\ \A i \in 1..m : joining[i].uid = new[i]
    <2>1. \A i \in 1..m : Entry(new[i], search.session) \in Devices
                           /\ Entry(new[i], search.session).uid = new[i]
      BY <1>1, <1>3 DEF Entry
    <2>2. joining \in [1..m -> Devices]
      BY <1>3, <2>1
    <2>3. QED
      BY <1>3, <2>1, <2>2
  <1>7. collection' = renewed \o joining
    BY <1>2
  <1> HIDE DEF renewed, joining, Devices
  <1>8. /\ collection' \in Seq(Devices)
        /\ Len(collection') = n + m
        /\ \A i \in 1..n + m : collection'[i] = IF i <= n THEN renewed[i] ELSE joining[i - n]
    <2> DEFINE both == renewed \o joining
    <2>0. renewed \in Seq(Devices) /\ joining \in Seq(Devices)
      BY <1>5, <1>6
    <2>1. /\ both \in Seq(Devices)
          /\ Len(both) = Len(renewed) + Len(joining)
          /\ \A i \in 1..Len(renewed) + Len(joining) :
                both[i] = IF i <= Len(renewed) THEN renewed[i] ELSE joining[i - Len(renewed)]
      BY ONLY <2>0, ConcatProperties
    <2>2. Len(renewed) = n /\ Len(joining) = m /\ collection' = both
      BY <1>5, <1>6, <1>7
    <2> HIDE DEF n, m, both
    <2>3. QED
      BY ONLY <2>1, <2>2
  <1>9. \A i \in 1..n + m : collection'[i].uid = IF i <= n THEN collection[i].uid ELSE new[i - n]
    <2>1. ASSUME NEW i \in 1..n + m, i <= n
          PROVE  collection'[i].uid = collection[i].uid
      BY <2>1, <1>8, <1>5, <1>4
    <2>2. ASSUME NEW i \in 1..n + m, ~(i <= n)
          PROVE  collection'[i].uid = new[i - n]
      <3>1. i - n \in 1..m
        BY <2>2, <1>3, <1>4
      <3>2. QED
        BY <2>2, <3>1, <1>8, <1>6
    <2>3. QED
      BY <2>1, <2>2
  <1>10. \A i \in 1..n, j \in 1..m : collection[i].uid # new[j]
    <2>1. ASSUME NEW i \in 1..n, NEW j \in 1..m, collection[i].uid = new[j]
          PROVE  FALSE
      <3>1. collection[i].uid \in Uids(collection)
        BY <1>4 DEF Uids
      <3>2. new[j] \in Range(new)
        BY <1>3 DEF Range
      <3>3. QED
        BY <1>2, <2>1, <3>1, <3>2
    <2>2. QED
      BY <2>1
  <1>11. ASSUME NEW i \in 1..n + m, NEW j \in 1..n + m, collection'[i].uid = collection'[j].uid
         PROVE  i = j
    <2>1. CASE i <= n /\ j <= n
      <3>1. i \in 1..n /\ j \in 1..n /\ collection[i].uid = collection[j].uid
        BY <2>1, <1>4, <1>9, <1>11
      <3>2. QED
        BY <3>1, <1>4 DEF CollectionInv
    <2>2. CASE i <= n /\ ~(j <= n)
      <3>1. i \in 1..n /\ j - n \in 1..m /\ collection[i].uid = new[j - n]
        BY <2>2, <1>3, <1>4, <1>9, <1>11
      <3>2. QED
        BY <3>1, <1>10
    <2>3. CASE ~(i <= n) /\ j <= n
      <3>1. j \in 1..n /\ i - n \in 1..m /\ collection[j].uid = new[i - n]
        BY <2>3, <1>3, <1>4, <1>9, <1>11
      <3>2. QED
        BY <3>1, <1>10
    <2>4. CASE ~(i <= n) /\ ~(j <= n)
      <3>1. i - n \in 1..m /\ j - n \in 1..m /\ new[i - n] = new[j - n]
        BY <2>4, <1>3, <1>4, <1>9, <1>11
      <3>2. i - n = j - n
        BY <3>1, <1>3
      <3>3. QED
        BY <3>2, <1>4
    <2>5. QED
      BY <2>1, <2>2, <2>3, <2>4
  <1>12. DOMAIN collection' = 1..n + m
    BY <1>8
  <1>13. search' \in [kind : {"none", "known", "full"}, todo : UidList, found : UidList,
                       session : 0..MaxSessions]
         /\ Range(search'.todo) = {}
    BY EmptyUidList, CollectionAssumption DEF Collect, NoSearch, Range
  <1>14. UNCHANGED <<active, session, repository, calls>>
    BY DEF Collect, sessionVars
  <1>15. CollectionInv'
    BY <1>8, <1>11, <1>12, <1>13, <1>14 DEF CollectionInv, CollectionTypeOK, Devices
  <1>16. Kept
    BY <1>3, <1>4, <1>8, <1>9 DEF Kept
  <1> QED
    BY <1>15, <1>16

(* The head of one list may be put at the end of another one.              *)
LEMMA HeadMoves ==
    ASSUME NEW todo \in UidList, NEW found \in UidList, todo # <<>>,
           Range(todo) \cap Range(found) = {}
    PROVE  /\ Head(todo) \in Device
           /\ Tail(todo) \in UidList
           /\ Append(found, Head(todo)) \in UidList
           /\ Range(Tail(todo)) \cap Range(found) = {}
           /\ Range(Tail(todo)) \cap Range(Append(found, Head(todo))) = {}
  <1> DEFINE n == Len(todo)
             m == Len(found)
             grown == Append(found, Head(todo))
  <1>1. /\ todo \in Seq(Device) /\ DOMAIN todo = 1..n
        /\ \A i, j \in 1..n : todo[i] = todo[j] => i = j
    BY UidLists
  <1>2. /\ found \in Seq(Device) /\ DOMAIN found = 1..m
        /\ \A i, j \in 1..m : found[i] = found[j] => i = j
    BY UidLists
  <1>3. /\ n \in Nat /\ n > 0
        /\ Head(todo) = todo[1]
        /\ todo[1] \in Device
        /\ Tail(todo) \in Seq(Device) /\ Len(Tail(todo)) = n - 1
        /\ \A i \in 1..n - 1 : Tail(todo)[i] = todo[i + 1]
    BY <1>1
  <1>4. DOMAIN Tail(todo) = 1..n - 1
    BY <1>3, LenProperties
  <1>5. m \in Nat
    BY <1>2
  <1>6. /\ grown \in Seq(Device) /\ Len(grown) = m + 1 /\ DOMAIN grown = 1..m + 1
        /\ \A i \in 1..m : grown[i] = found[i]
        /\ grown[m + 1] = todo[1]
    BY <1>2, <1>3, AppendProperties, LenProperties
  <1> HIDE DEF grown
  <1>7. \A i \in 1..n, j \in 1..m : todo[i] # found[j]
    BY <1>1, <1>2 DEF Range
  <1>8. IsInjective(Tail(todo))
    <2>1. ASSUME NEW i \in 1..n - 1, NEW j \in 1..n - 1, Tail(todo)[i] = Tail(todo)[j]
          PROVE  i = j
      <3>1. i + 1 \in 1..n /\ j + 1 \in 1..n /\ todo[i + 1] = todo[j + 1]
        BY <1>3, <2>1
      <3>2. i + 1 = j + 1
        BY <1>1, <3>1
      <3>3. QED
        BY <3>2, <1>3
    <2>2. QED
      BY <2>1, <1>4 DEF IsInjective
  <1>9. IsInjective(grown)
    <2>1. 1 \in 1..n
      BY <1>3
    <2>2. ASSUME NEW i \in 1..m + 1, NEW j \in 1..m + 1, grown[i] = grown[j]
          PROVE  i = j
      <3>1. CASE i \in 1..m /\ j \in 1..m
        BY <3>1, <2>2, <1>2, <1>6
      <3>2. CASE i \in 1..m /\ j = m + 1
        BY <3>2, <2>1, <2>2, <1>6, <1>7
      <3>3. CASE i = m + 1 /\ j \in 1..m
        BY <3>3, <2>1, <2>2, <1>6, <1>7
      <3>4. QED
        BY <3>1, <3>2, <3>3, <1>5
    <2>3. QED
      BY <2>2, <1>6 DEF IsInjective
  <1>10. \A i \in 1..n - 1 : \A j \in 1..m : Tail(todo)[i] # found[j]
    BY <1>3, <1>7
  <1>11. \A i \in 1..n - 1 : Tail(todo)[i] # todo[1]
    <2>1. ASSUME NEW i \in 1..n - 1, Tail(todo)[i] = todo[1] PROVE FALSE
      <3>1. i + 1 \in 1..n /\ 1 \in 1..n /\ todo[i + 1] = todo[1]
        BY <2>1, <1>3
      <3>2. i + 1 = 1
        BY <3>1, <1>1
      <3>3. QED
        BY <3>2, <1>3
    <2>2. QED
      BY <2>1
  <1>12. Range(Tail(todo)) \cap Range(found) = {}
    BY <1>2, <1>4, <1>10 DEF Range
  <1>13. Range(Tail(todo)) \cap Range(grown) = {}
    <2>1. ASSUME NEW i \in 1..n - 1, NEW j \in 1..m + 1 PROVE Tail(todo)[i] # grown[j]
      <3>1. CASE j \in 1..m
        BY <3>1, <1>6, <1>10
      <3>2. CASE j = m + 1
        BY <3>2, <1>6, <1>11
      <3>3. QED
        BY <3>1, <3>2, <1>5
    <2>2. QED
      BY <2>1, <1>4, <1>6 DEF Range
  <1>14. Tail(todo) \in UidList /\ grown \in UidList
    BY <1>3, <1>6, <1>8, <1>9, ListOfUids
  <1> QED
    BY <1>3, <1>12, <1>13, <1>14 DEF grown

(* A step of the collection, or none, keeps the invariant, and unless it   *)
(* is stop() it keeps the devices.                                         *)
LEMMA CollectionStep ==
    ASSUME CollectionInv, CollectionNext \/ UNCHANGED collectionVars
    PROVE  /\ CollectionInv'
           /\ Kept \/ (active /\ ~active')
  <1> USE DEF sessionVars, searchVars
  <1> DEFINE Searches == [kind : {"none", "known", "full"}, todo : UidList, found : UidList,
                          session : 0..MaxSessions]
             Unmoved == UNCHANGED collection
  <1>1. /\ active \in BOOLEAN
        /\ session \in 0..MaxSessions
        /\ repository \in [1..MaxSessions -> SUBSET Device]
        /\ calls \in 0..MaxCalls
        /\ search \in Searches
        /\ collection \in Seq([uid : Device, session : 0..MaxSessions])
        /\ Len(collection) \in Nat
    BY LenProperties DEF CollectionInv, CollectionTypeOK
  <1>2. MaxSessions \in Nat /\ MaxCalls \in Nat
    BY CollectionAssumption
  <1>3. Range(search.todo) \cap Range(search.found) = {}
    BY DEF CollectionInv
  <1>4. Unmoved => Kept
    BY <1>1 DEF Kept
  <1>5. ASSUME Unmoved, active' \in BOOLEAN, session' \in 0..MaxSessions,
               repository' \in [1..MaxSessions -> SUBSET Device], calls' \in 0..MaxCalls,
               search' \in Searches, Range(search'.todo) \cap Range(search'.found) = {}
        PROVE  CollectionInv' /\ Kept
    <2>1. CollectionTypeOK'
      BY <1>5, <1>1, Zenon DEF CollectionTypeOK
    <2>2. QED
      BY <2>1, <1>4, <1>5 DEF CollectionInv
  <1>6. CASE StartManager
    <2>1. session' \in 0..MaxSessions
      BY <1>6, <1>1, <1>2 DEF StartManager
    <2>2. UNCHANGED <<collection, repository, search, calls>> /\ active' = TRUE
      BY <1>6 DEF StartManager
    <2>3. QED
      BY <2>1, <2>2, <1>1, <1>3, <1>5
  <1>7. CASE StopManager
    <2>1. /\ UNCHANGED <<session, repository, search, calls>>
          /\ active = TRUE /\ active' = FALSE
          /\ collection' = <<>>
      BY <1>7 DEF StopManager
    <2>2. collection' \in Seq([uid : Device, session : 0..MaxSessions]) /\ DOMAIN collection' = {}
      BY <2>1, EmptySeq
    <2>3. CollectionTypeOK'
      BY <2>1, <2>2, <1>1, Zenon DEF CollectionTypeOK
    <2>4. QED
      BY <2>1, <2>2, <2>3, <1>3 DEF CollectionInv
  <1>8. ASSUME NEW kind \in {"known", "full"}, NEW list \in UidList, Discover(kind, list)
        PROVE  CollectionInv' /\ Kept
    <2>1. /\ UNCHANGED <<active, session, repository, collection>>
          /\ search' = [kind |-> kind, todo |-> list, found |-> <<>>, session |-> session]
          /\ calls' \in 0..MaxCalls
      BY <1>8, <1>1, <1>2 DEF Discover
    <2>2. search' \in Searches /\ search'.found = <<>>
      BY <2>1, <1>1, <1>8, EmptyUidList
    <2>3. Range(search'.found) = {}
      BY <2>2, EmptySeq DEF Range
    <2>4. QED
      BY <2>1, <2>2, <2>3, <1>1, <1>5
  <1>9. CASE Initialize \/ Absent
    <2>1. search.todo # <<>> /\ search.todo \in UidList /\ search.found \in UidList
      BY <1>1, <1>9 DEF Initialize, Absent
    <2>2. /\ Head(search.todo) \in Device
          /\ Tail(search.todo) \in UidList
          /\ Append(search.found, Head(search.todo)) \in UidList
          /\ Range(Tail(search.todo)) \cap Range(search.found) = {}
          /\ Range(Tail(search.todo)) \cap
                 Range(Append(search.found, Head(search.todo))) = {}
      BY ONLY <2>1, <1>3, HeadMoves
    <2>3. CASE Initialize
      <3>1. /\ UNCHANGED <<active, session, collection, calls>>
            /\ repository' = [repository EXCEPT ![search.session] =
                                  @ \union {Head(search.todo)}]
            /\ search' = [search EXCEPT !.todo = Tail(@),
                                        !.found = Append(@, Head(search.todo))]
        BY <2>3 DEF Initialize
      <3>2. repository' \in [1..MaxSessions -> SUBSET Device]
        BY <3>1, <1>1, <2>2
      <3>3. /\ search' \in Searches
            /\ search'.todo = Tail(search.todo)
            /\ search'.found = Append(search.found, Head(search.todo))
        BY <3>1, <1>1, <2>2
      <3>4. QED
        BY <3>1, <3>2, <3>3, <2>2, <1>1, <1>5
    <2>4. CASE Absent
      <3>1. /\ UNCHANGED <<active, session, collection, repository, calls>>
            /\ search' = [search EXCEPT !.todo = Tail(@)]
        BY <2>4 DEF Absent
      <3>2. /\ search' \in Searches
            /\ search'.todo = Tail(search.todo)
            /\ search'.found = search.found
        BY <3>1, <1>1, <2>2
      <3>3. QED
        BY <3>1, <3>2, <2>2, <1>1, <1>5
    <2>5. QED
      BY <1>9, <2>3, <2>4
  <1>10. CASE Collect
    BY <1>10, Joined
  <1>11. CASE UNCHANGED collectionVars
    <2>1. UNCHANGED <<active, session, collection, repository, search, calls>>
      BY <1>11 DEF collectionVars
    <2>2. QED
      BY <2>1, <1>1, <1>3, <1>5
  <1> QED
    BY <1>6, <1>7, <1>8, <1>9, <1>10, <1>11 DEF CollectionNext

(* The UIDs of the collection are a list without repetition.               *)
LEMMA CollectionLists ==
    ASSUME CollectionInv
    PROVE  /\ DOMAIN collection = 1..Len(collection)
           /\ Len(collection) \in 0..Cardinality(Device)
           /\ \A i \in 1..Len(collection) : collection[i].uid \in Device
           /\ [i \in DOMAIN collection |-> collection[i].uid] \in UidList
           /\ Uids(collection) \subseteq Device
           /\ Uids(collection) = {collection[i].uid : i \in 1..Len(collection)}
  <1> DEFINE n == Len(collection)
             list == [i \in DOMAIN collection |-> collection[i].uid]
             Devices == [uid : Device, session : 0..MaxSessions]
  <1>1. collection \in Seq(Devices)
    BY DEF CollectionInv, CollectionTypeOK
  <1>2. n \in Nat /\ DOMAIN collection = 1..n /\ \A i \in 1..n : collection[i] \in Devices
    <2> HIDE DEF Devices
    <2> QED
      BY <1>1, LenProperties, ElementOfSeq
  <1>3. \A i \in 1..n : collection[i].uid \in Device
    BY <1>2
  <1>4. list \in Seq(Device) /\ Len(list) = n /\ DOMAIN list = 1..n
    BY <1>2, <1>3
  <1>5. IsInjective(list)
    BY <1>2 DEF CollectionInv, IsInjective
  <1>6. list \in UidList
    BY <1>4, <1>5, ListOfUids
  <1>7. Len(list) \in 0..Cardinality(Device)
    BY <1>6, UidLists
  <1> HIDE DEF list
  <1>8. Uids(collection) = {collection[i].uid : i \in 1..n}
    BY <1>2 DEF Uids
  <1> QED
    BY <1>2, <1>3, <1>4, <1>6, <1>7, <1>8 DEF list

-----------------------------------------------------------------------------
(* The operations on all devices.                                          *)

(* The types, and where the loop over the collection may be.               *)
BatchTypeInv ==
    /\ CollectionInv
    /\ BatchTypeOK
    /\ doing = "addresses" => at \in 1..size + 1

LEMMA BatchInitTypes == BatchInit => BatchTypeInv
<1> SUFFICES ASSUME BatchInit PROVE BatchTypeInv
    OBVIOUS
<1>1. CollectionInv
      BY CollectionInitInv DEF BatchInit
<1>2. Cardinality(Device) \in Nat
      BY FS_CardinalityType, CollectionAssumption
<1>3. /\ doing = "idle" /\ doing \in Waiting /\ doing # "addresses"
      /\ address \in Nat
      /\ size \in 0..Cardinality(Device) /\ at \in 0..Cardinality(Device) + 1
      /\ raised \subseteq Device /\ asked \subseteq Device
      /\ cleared \in BOOLEAN
  <2>1. /\ doing = "idle" /\ address = 0 /\ size = 0 /\ at = 0
        /\ raised = {} /\ asked = {} /\ cleared = FALSE
    BY DEF BatchInit
  <2>2. cleared \in BOOLEAN
    BY <2>1, Zenon
  <2>3. QED
    BY <1>2, <2>1, <2>2 DEF Waiting
<1>4. held \in [Device -> 0..MaxAddress]
      BY BatchAssumption DEF BatchInit
<1>5. tasks = <<>> /\ answers = <<>> /\ finished = <<>> /\ results = <<>>
      BY DEF BatchInit
<1>6. DOMAIN tasks = {} /\ DOMAIN results = {} /\ finished \in Seq(DOMAIN tasks)
      BY <1>5, EmptySeq
<1>7. tasks \in UidList
      BY <1>5, EmptyUidList
<1>8. answers \in [DOMAIN tasks -> Device \union {Failed, NoAnswer}]
      BY <1>5, <1>6
<1>9. BatchTypeOK
      BY <1>1, <1>3, <1>4, <1>6, <1>7, <1>8 DEF BatchTypeOK, CollectionInv
<1> QED
    BY <1>1, <1>3, <1>9 DEF BatchTypeInv

(* What a turn of the loop relies on.                                      *)
LEMMA TurnFacts ==
    ASSUME BatchTypeInv, Turn
    PROVE  /\ doing = "addresses" /\ size = Len(collection)
           /\ at \in 1..Len(collection) /\ size \in Nat
           /\ Current \in Device
           /\ Current = collection[at].uid
           /\ at' = at + 1 /\ at' \in 1..size + 1
           /\ at' \in 0..Cardinality(Device) + 1
           /\ UNCHANGED <<active, session, repository, search, calls, collection,
                          doing, size, tasks, answers, finished, asked, cleared>>
  <1>1. /\ doing = "addresses" /\ size = Len(collection) /\ at <= size
        /\ at' = at + 1
        /\ UNCHANGED <<active, session, repository, search, calls, collection,
                       doing, size, tasks, answers, finished, asked, cleared>>
    BY DEF Turn, SizeChanged, collectionVars, sessionVars, searchVars, gatherVars
  <1>2. at \in 1..size + 1 /\ size \in 0..Cardinality(Device)
    BY <1>1 DEF BatchTypeInv, BatchTypeOK
  <1>3. Cardinality(Device) \in Nat
    BY FS_CardinalityType, CollectionAssumption
  <1>4. at \in 1..Len(collection)
    BY <1>1, <1>2, <1>3
  <1>5. collection[at].uid \in Device
    BY <1>4, CollectionLists DEF BatchTypeInv
  <1> QED
    BY <1>1, <1>2, <1>3, <1>4, <1>5 DEF Current

(* An address that is given, or not given, in a turn.                      *)
LEMMA TurnTypes ==
    ASSUME BatchTypeInv, Turn, NEW value \in BOOLEAN,
           results' = Noted(value),
           held' = held \/ held' = [held EXCEPT ![Current] = address],
           held' # held => address \in 1..MaxAddress,
           raised' = raised \/ raised' = raised \union {Current},
           address' = address \/ address' = address + Spacing
    PROVE  BatchTypeInv'
  <1>1. /\ doing = "addresses" /\ size \in Nat /\ Current \in Device
        /\ at' \in 1..size + 1
        /\ at' \in 0..Cardinality(Device) + 1
        /\ UNCHANGED <<active, session, repository, search, calls, collection,
                       doing, size, tasks, answers, finished, asked, cleared>>
    BY TurnFacts
  <1>2. CollectionInv'
    BY <1>1, CollectionStep DEF BatchTypeInv, collectionVars, sessionVars, searchVars
  <1>3. DOMAIN results' \subseteq Device
    BY <1>1 DEF Noted, BatchTypeInv, BatchTypeOK
  <1>4. held' \in [Device -> 0..MaxAddress]
    BY <1>1, BatchAssumption DEF BatchTypeInv, BatchTypeOK
  <1>5. address' \in Nat
    BY BatchAssumption DEF BatchTypeInv, BatchTypeOK
  <1>6. raised' \subseteq Device
    BY <1>1 DEF BatchTypeInv, BatchTypeOK
  <1>7. BatchTypeOK'
    BY <1>1, <1>2, <1>3, <1>4, <1>5, <1>6, Zenon
    DEF BatchTypeInv, BatchTypeOK, CollectionInv
  <1> QED
    BY <1>1, <1>2, <1>7 DEF BatchTypeInv

(* The end of a call, whatever its results.                                *)
LEMMA EndTypes ==
    ASSUME BatchTypeInv, NEW how \in {"returned", "raised"}, End(how),
           DOMAIN results' \subseteq Device
    PROVE  BatchTypeInv'
  <1>1. /\ doing' = how /\ size' = 0 /\ at' = 0 /\ address' = 0
        /\ tasks' = <<>> /\ answers' = <<>> /\ finished' = <<>>
        /\ UNCHANGED <<active, session, repository, search, calls, collection,
                       held, raised, asked, cleared>>
    BY DEF End, collectionVars, sessionVars, searchVars, historyVars
  <1>2. CollectionInv'
    BY <1>1, CollectionStep DEF BatchTypeInv, collectionVars, sessionVars, searchVars
  <1>3. Cardinality(Device) \in Nat
    BY FS_CardinalityType, CollectionAssumption
  <1>4. DOMAIN tasks' = {} /\ finished' \in Seq(DOMAIN tasks')
    BY <1>1, EmptySeq
  <1>5. tasks' \in UidList
    BY <1>1, EmptyUidList
  <1>6. answers' \in [DOMAIN tasks' -> Device \union {Failed, NoAnswer}]
    BY <1>1, <1>4
  <1>7. /\ doing' \in Waiting /\ doing' # "addresses" /\ address' \in Nat
        /\ size' \in 0..Cardinality(Device) /\ at' \in 0..Cardinality(Device) + 1
    BY <1>1, <1>3 DEF Waiting
  <1>8. BatchTypeOK'
    BY <1>1, <1>2, <1>4, <1>5, <1>6, <1>7, Zenon
    DEF BatchTypeInv, BatchTypeOK, CollectionInv
  <1> QED
    BY <1>2, <1>7, <1>8 DEF BatchTypeInv

(* Every action keeps the types.                                           *)
LEMMA BatchTypeStep == BatchTypeInv /\ [BatchNext]_allVars => BatchTypeInv'
<1> SUFFICES ASSUME BatchTypeInv, [BatchNext]_allVars PROVE BatchTypeInv'
    OBVIOUS
<1> DEFINE Same == UNCHANGED <<active, session, repository, search, calls, collection>>
<1>1. Same => CollectionInv'
    BY CollectionStep DEF BatchTypeInv, collectionVars, sessionVars, searchVars
<1>2. collectionVars' = collectionVars => Same
    BY DEF collectionVars, sessionVars, searchVars
<1>3. Cardinality(Device) \in Nat
    BY FS_CardinalityType, CollectionAssumption
<1>4. CollectionInv' => CollectionTypeOK'
    BY DEF CollectionInv
<1>5. ASSUME NEW start \in Starts, BeginAddresses(start)
      PROVE  BatchTypeInv'
  <2>1. /\ Same /\ doing' = "addresses" /\ asked' = Uids(collection)
        /\ size' = Len(collection) /\ at' = 1 /\ address' = start
        /\ UNCHANGED <<results, held, raised, cleared, tasks, answers, finished>>
    BY <1>2, <1>5 DEF BeginAddresses, Begin, gatherVars
  <2>2. size' \in 0..Cardinality(Device) /\ asked' \subseteq Device
    BY <2>1, CollectionLists DEF BatchTypeInv
  <2>3. at' \in 1..size' + 1 /\ at' \in 0..Cardinality(Device) + 1 /\ address' \in Nat
    BY <2>1, <2>2, <1>3, <1>5, BatchAssumption
  <2>4. BatchTypeOK'
    BY <2>1, <2>2, <2>3, <1>1, <1>4, Zenon DEF BatchTypeInv, BatchTypeOK
  <2>5. QED
    BY <2>1, <2>3, <2>4, <1>1 DEF BatchTypeInv
<1>6. CASE Refuse
  <2>1. Turn /\ results' = Noted(FALSE) /\ held' = held /\ raised' = raised
        /\ address' = address + Spacing
    BY <1>6 DEF Refuse, NextAddress
  <2>2. QED
    BY <2>1, TurnTypes
<1>7. ASSUME NEW obeys \in BOOLEAN, Sent(obeys), NEW value \in BOOLEAN,
             results' = Noted(value),
             raised' = raised \/ raised' = raised \union {Current},
             address' = address \/ address' = address + Spacing
      PROVE  BatchTypeInv'
  <2>1. Turn /\ address \in 1..MaxAddress
        /\ (held' = held \/ held' = [held EXCEPT ![Current] = address])
    BY <1>7 DEF Sent
  <2>2. QED
    BY <2>1, <1>7, TurnTypes
<1>8. CASE Confirm
  <2>1. Sent(TRUE) /\ results' = Noted(TRUE) /\ raised' = raised
        /\ address' = address + Spacing
    BY <1>8 DEF Confirm, NextAddress
  <2>2. QED
    BY <2>1, <1>7
<1>9. ASSUME NEW obeys \in BOOLEAN, Unconfirmed(obeys) \/ Raise(obeys)
      PROVE  BatchTypeInv'
  <2>1. /\ Sent(obeys) /\ results' = Noted(FALSE)
        /\ raised' = raised \/ raised' = raised \union {Current}
        /\ address' = address \/ address' = address + Spacing
    BY <1>9 DEF Unconfirmed, Raise, NextAddress
  <2>2. QED
    BY <2>1, <1>7
<1>10. CASE IterationFails
  <2>1. End("raised") /\ results' = <<>>
    BY <1>10 DEF IterationFails
  <2>2. DOMAIN results' \subseteq Device
    BY <2>1, EmptySeq
  <2>3. QED
    BY <2>1, <2>2, EndTypes
<1>11. CASE EndAddresses
  <2>1. End("returned") /\ results' = results
    BY <1>11 DEF EndAddresses
  <2>2. DOMAIN results' \subseteq Device
    BY <2>1 DEF BatchTypeInv, BatchTypeOK
  <2>3. QED
    BY <2>1, <2>2, EndTypes
<1>12. ASSUME NEW what \in Queries \union Commands, BeginGather(what)
       PROVE  BatchTypeInv'
  <2>1. /\ Same /\ doing' = what /\ asked' = Uids(collection)
        /\ tasks' = [i \in DOMAIN collection |-> collection[i].uid]
        /\ answers' = [i \in DOMAIN collection |-> NoAnswer]
        /\ finished' = <<>>
        /\ UNCHANGED <<results, held, raised, cleared, size, at, address>>
    BY <1>2, <1>12 DEF BeginGather, Begin, loopVars
  <2>2. tasks' \in UidList /\ asked' \subseteq Device
    BY <2>1, CollectionLists DEF BatchTypeInv
  <2>3. DOMAIN tasks' = DOMAIN collection /\ finished' \in Seq(DOMAIN tasks')
    BY <2>1, EmptySeq
  <2>4. answers' \in [DOMAIN tasks' -> Device \union {Failed, NoAnswer}]
    BY <2>1, <2>3
  <2>5. doing' # "addresses" /\ doing' \in Queries \union Commands
    BY <2>1, <1>12 DEF Queries, Commands
  <2>6. BatchTypeOK'
    BY <2>1, <2>2, <2>3, <2>4, <2>5, <1>1, <1>4, Zenon DEF BatchTypeInv, BatchTypeOK
  <2>7. QED
    BY <2>1, <2>5, <2>6, <1>1 DEF BatchTypeInv
<1>13. ASSUME NEW i \in DOMAIN tasks, TaskDone(i)
       PROVE  BatchTypeInv'
  <2>1. /\ Same /\ doing \in Queries \union Commands
        /\ finished' = Append(finished, i)
        /\ UNCHANGED <<doing, size, at, address, tasks, results, held, raised, asked, cleared>>
    BY <1>2, <1>13 DEF TaskDone, loopVars, historyVars
  <2>2. tasks[i] \in Device
    BY <1>13, UidLists DEF BatchTypeInv, BatchTypeOK
  <2>3. answers' \in [DOMAIN tasks' -> Device \union {Failed, NoAnswer}]
    <3>1. answers \in [DOMAIN tasks -> Device \union {Failed, NoAnswer}]
      BY DEF BatchTypeInv, BatchTypeOK
    <3>2. PICK outcome \in Outcome(i) : answers' = [answers EXCEPT ![i] = outcome]
      BY <1>13 DEF TaskDone
    <3>3. outcome \in Device \union {Failed, NoAnswer}
      BY <3>2, <2>2 DEF Outcome
    <3>4. QED
      BY <3>1, <3>2, <3>3, <2>1, <1>13
  <2>4. finished' \in Seq(DOMAIN tasks')
    <3>1. finished \in Seq(DOMAIN tasks)
      BY DEF BatchTypeInv, BatchTypeOK
    <3>2. QED
      BY <3>1, <2>1, <1>13, AppendProperties
  <2>5. BatchTypeOK'
    BY <2>1, <2>3, <2>4, <1>1, <1>4, Zenon DEF BatchTypeInv, BatchTypeOK
  <2>6. QED
    BY <2>1, <2>5, <1>1 DEF BatchTypeInv
<1>14. CASE EndGather
  <2>1. End("returned")
        /\ results' = [uid \in {tasks[k] : k \in Reported} |-> Answered(uid)]
    BY <1>14 DEF EndGather
  <2>2. \A k \in DOMAIN tasks : tasks[k] \in Device
    BY UidLists DEF BatchTypeInv, BatchTypeOK
  <2>3. DOMAIN results' \subseteq Device
    BY <2>1, <2>2 DEF Reported
  <2>4. QED
    BY <2>1, <2>3, EndTypes
<1>15. CASE Taken
  <2>1. /\ Same /\ doing' = "idle" /\ results' = <<>>
        /\ held' = [d \in Device |-> 0]
        /\ raised' = {} /\ asked' = {} /\ cleared' = FALSE
        /\ UNCHANGED <<size, at, address, tasks, answers, finished>>
    BY <1>2, <1>15 DEF Taken, loopVars, gatherVars
  <2>2. /\ doing' \in Waiting /\ doing' # "addresses"
        /\ raised' \subseteq Device /\ asked' \subseteq Device
        /\ held' \in [Device -> 0..MaxAddress]
    BY <2>1, BatchAssumption DEF Waiting
  <2>3. DOMAIN results' \subseteq Device
    BY <2>1, EmptySeq
  <2>4. cleared' \in BOOLEAN
    BY <2>1, Zenon
  <2>5. BatchTypeOK'
    BY <2>1, <2>2, <2>3, <2>4, <1>1, <1>4, Zenon DEF BatchTypeInv, BatchTypeOK
  <2>6. QED
    BY <2>1, <2>2, <2>5, <1>1 DEF BatchTypeInv
<1>16. CASE Elsewhere
  <2>1. CollectionNext
        /\ UNCHANGED <<doing, size, at, address, tasks, answers, finished,
                       results, held, raised, asked>>
    BY <1>16 DEF Elsewhere, loopVars, gatherVars
  <2>2. cleared' \in BOOLEAN
    BY <1>16 DEF Elsewhere
  <2>3. CollectionInv'
    BY <2>1, CollectionStep DEF BatchTypeInv
  <2>4. BatchTypeOK'
    BY <2>1, <2>2, <2>3, <1>4, Zenon DEF BatchTypeInv, BatchTypeOK
  <2>5. QED
    BY <2>1, <2>3, <2>4 DEF BatchTypeInv
<1>17. CASE UNCHANGED allVars
  <2>1. Same /\ UNCHANGED <<doing, size, at, address, tasks, answers, finished,
                            results, held, raised, asked, cleared>>
    BY <1>17 DEF allVars, batchVars, collectionVars, sessionVars, searchVars, loopVars,
                 gatherVars, historyVars
  <2>2. BatchTypeOK'
    BY <2>1, <1>1, <1>4, Zenon DEF BatchTypeInv, BatchTypeOK
  <2>3. QED
    BY <2>1, <2>2, <1>1 DEF BatchTypeInv
<1> QED
    BY <1>5, <1>6, <1>8, <1>9, <1>10, <1>11, <1>12, <1>13, <1>14, <1>15, <1>16, <1>17
    DEF BatchNext

(* The values of the variables are of their types in every reachable       *)
(* state.                                                                  *)
THEOREM BatchTypes == BatchSpec => []BatchTypeOK
<1>1. BatchTypeInv => BatchTypeOK
      BY DEF BatchTypeInv
<1>2. QED
      BY <1>1, BatchInitTypes, BatchTypeStep, PTL DEF BatchSpec

-----------------------------------------------------------------------------
(* The addresses that a call gives lie below the next one, and nothing is  *)
(* given before set_all_dmx_addresses().                                   *)
NothingGiven == raised = {} /\ \A d \in Device : held[d] = 0

GivenBelow ==
    \A d \in Device \ raised : held[d] # 0 => held[d] + Spacing <= address

AddressInv ==
    /\ doing \in {"idle"} \union Queries \union Commands => NothingGiven
    /\ doing = "addresses" => GivenBelow
    /\ AddressesDoNotOverlap

LEMMA BatchInitAddresses == BatchInit => AddressInv
<1> SUFFICES ASSUME BatchInit PROVE AddressInv
    OBVIOUS
<1>1. doing = "idle" /\ NothingGiven
      BY DEF BatchInit, NothingGiven
<1> QED
    BY <1>1 DEF AddressInv, NothingGiven, AddressesDoNotOverlap

(* A turn of the loop gives its device the next address, or leaves it with *)
(* the one it has.                                                         *)
LEMMA TurnAddresses ==
    ASSUME BatchTypeInv, AddressInv, Turn,
           \/ held' = held
           \/ held' = [held EXCEPT ![Current] = address],
           \/ raised' = raised /\ address' = address + Spacing
           \/ raised' = raised \union {Current} /\ address' = address
    PROVE  AddressInv'
  <1>1. doing = "addresses" /\ doing' = "addresses" /\ Current \in Device
    BY TurnFacts
  <1>2. /\ address \in Nat /\ Spacing \in Nat
        /\ held \in [Device -> 0..MaxAddress] /\ raised \subseteq Device
        /\ MaxAddress \in Nat
    BY BatchAssumption DEF BatchTypeInv, BatchTypeOK
  <1>3. held' \in [Device -> Nat] /\ held \in [Device -> Nat]
    BY <1>1, <1>2
  <1>4. GivenBelow /\ AddressesDoNotOverlap
    BY <1>1 DEF AddressInv
  <1>5. ASSUME NEW d \in Device \ raised', held'[d] # 0
        PROVE  /\ d \notin raised
               /\ held'[d] + Spacing <= address'
               /\ \/ held'[d] = held[d]
                  \/ d = Current /\ held'[d] = address
    BY <1>1, <1>2, <1>3, <1>4, <1>5 DEF GivenBelow
  <1>6. GivenBelow'
    BY <1>5 DEF GivenBelow
  <1>7. AddressesDoNotOverlap'
    <2> SUFFICES ASSUME NEW d \in Device \ raised', NEW e \in Device \ raised',
                        d # e, held'[d] # 0, held'[e] # 0
                 PROVE  held'[d] >= held'[e] + Spacing \/ held'[e] >= held'[d] + Spacing
      BY DEF AddressesDoNotOverlap
    <2>1. d \notin raised /\ (held'[d] = held[d] \/ (d = Current /\ held'[d] = address))
      BY <1>5
    <2>2. e \notin raised /\ (held'[e] = held[e] \/ (e = Current /\ held'[e] = address))
      BY <1>5
    <2>3. CASE held'[d] = held[d] /\ held'[e] = held[e]
      BY <2>1, <2>2, <2>3, <1>4 DEF AddressesDoNotOverlap
    <2>4. CASE d = Current /\ held'[d] = address /\ held'[e] = held[e]
      <3>1. held[e] + Spacing <= address
        BY <2>2, <2>4, <1>4 DEF GivenBelow
      <3>2. QED
        BY <2>4, <3>1, <1>2, <1>3
    <2>5. CASE e = Current /\ held'[e] = address /\ held'[d] = held[d]
      <3>1. held[d] + Spacing <= address
        BY <2>1, <2>5, <1>4 DEF GivenBelow
      <3>2. QED
        BY <2>5, <3>1, <1>2, <1>3
    <2>6. QED
      BY <2>1, <2>2, <2>3, <2>4, <2>5
  <1> QED
    BY <1>1, <1>6, <1>7 DEF AddressInv, Queries, Commands

LEMMA AddressStep ==
    BatchTypeInv /\ AddressInv /\ [BatchNext]_allVars => AddressInv'
<1> SUFFICES ASSUME BatchTypeInv, AddressInv, [BatchNext]_allVars PROVE AddressInv'
    OBVIOUS
<1>1. UNCHANGED <<held, raised>> =>
          /\ NothingGiven => NothingGiven'
          /\ AddressesDoNotOverlap => AddressesDoNotOverlap'
      BY DEF NothingGiven, AddressesDoNotOverlap
<1>2. NothingGiven => AddressesDoNotOverlap /\ GivenBelow
      BY DEF NothingGiven, AddressesDoNotOverlap, GivenBelow
<1>3. ASSUME UNCHANGED <<held, raised, doing>>, UNCHANGED address \/ doing # "addresses"
      PROVE  AddressInv'
      BY <1>1, <1>3 DEF AddressInv, GivenBelow
<1>4. ASSUME NEW start \in Starts, BeginAddresses(start) PROVE AddressInv'
  <2>1. doing = "idle" /\ doing' = "addresses" /\ UNCHANGED <<held, raised>>
    BY <1>4 DEF BeginAddresses, Begin
  <2>2. NothingGiven'
    BY <2>1, <1>1 DEF AddressInv
  <2>3. AddressesDoNotOverlap' /\ GivenBelow'
    BY <2>2 DEF NothingGiven, AddressesDoNotOverlap, GivenBelow
  <2>4. QED
    BY <2>1, <2>3 DEF AddressInv, Queries, Commands
<1>5. CASE Refuse
      BY <1>5, TurnAddresses DEF Refuse, NextAddress
<1>6. CASE Confirm
      BY <1>6, TurnAddresses DEF Confirm, Sent, NextAddress
<1>7. ASSUME NEW obeys \in BOOLEAN, Unconfirmed(obeys) \/ Raise(obeys) PROVE AddressInv'
      BY <1>7, TurnAddresses DEF Unconfirmed, Raise, Sent, NextAddress
<1>8. ASSUME NEW how \in {"returned", "raised"}, End(how) PROVE AddressInv'
      BY <1>8, <1>1 DEF End, AddressInv, historyVars, Queries, Commands
<1>9. CASE IterationFails \/ EndAddresses \/ EndGather
      BY <1>8, <1>9 DEF IterationFails, EndAddresses, EndGather
<1>10. ASSUME NEW what \in Queries \union Commands, BeginGather(what) PROVE AddressInv'
  <2>1. doing = "idle" /\ doing' = what /\ UNCHANGED <<held, raised>>
    BY <1>10 DEF BeginGather, Begin
  <2>2. NothingGiven' /\ AddressesDoNotOverlap'
    BY <2>1, <1>1 DEF AddressInv
  <2>3. QED
    BY <2>1, <2>2, <1>10 DEF AddressInv, Queries, Commands
<1>11. ASSUME NEW i \in DOMAIN tasks, TaskDone(i) PROVE AddressInv'
      BY <1>3, <1>11 DEF TaskDone, loopVars, historyVars
<1>12. CASE Taken
  <2>1. doing' = "idle" /\ NothingGiven'
    BY <1>12 DEF Taken, NothingGiven
  <2>2. AddressesDoNotOverlap'
    BY <2>1 DEF NothingGiven, AddressesDoNotOverlap
  <2>3. QED
    BY <2>1, <2>2 DEF AddressInv
<1>13. CASE Elsewhere \/ UNCHANGED allVars
      BY <1>3, <1>13 DEF Elsewhere, allVars, batchVars, loopVars, historyVars
<1> QED
    BY <1>4, <1>5, <1>6, <1>7, <1>9, <1>10, <1>11, <1>12, <1>13 DEF BatchNext

(* No call of set_all_dmx_addresses(), whatever is answered, lost or       *)
(* raised and whatever happens to the collection meanwhile, leaves two     *)
(* devices with footprints that overlap.                                   *)
THEOREM AddressesStayApart == BatchSpec => []AddressesDoNotOverlap
<1>1. AddressInv => AddressesDoNotOverlap
      BY DEF AddressInv
<1>2. QED
      BY <1>1, BatchInitTypes, BatchTypeStep, BatchInitAddresses, AddressStep, PTL
      DEF BatchSpec

-----------------------------------------------------------------------------
(* What a call has noted so far.  The loop has a result for each device    *)
(* that it has passed, provided that the collection was not cleared: its   *)
(* first places are then still those of the start.  The tasks that are     *)
(* done are those with an answer, each of its own device.                  *)
LoopInv ==
    doing = "addresses" /\ ~cleared =>
        /\ Len(collection) >= size
        /\ asked = {collection[i].uid : i \in 1..size}
        /\ DOMAIN results = {collection[i].uid : i \in 1..at - 1}

GatherInv ==
    /\ doing \in Queries \union Commands => Range(tasks) = asked
    /\ IsInjective(finished)
    /\ \A k \in DOMAIN tasks :
          /\ answers[k] \in {NoAnswer, Failed, tasks[k]}
          /\ answers[k] # NoAnswer <=> k \in Range(finished)

IdleInv ==
    /\ doing \in {"idle"} \union Queries \union Commands => DOMAIN results = {}
    /\ doing = "idle" => ~cleared

OwnResults ==
    \A d \in DOMAIN results :
        /\ results[d] = TRUE => held[d] # 0
        /\ results[d] \in {TRUE, FALSE} \/ results[d] = d

ResultInv == LoopInv /\ GatherInv /\ IdleInv /\ OwnResults

LEMMA BatchInitResults == BatchInit => ResultInv
<1> SUFFICES ASSUME BatchInit PROVE ResultInv
    OBVIOUS
<1>1. /\ doing = "idle" /\ ~cleared
      /\ results = <<>> /\ tasks = <<>> /\ finished = <<>>
      BY DEF BatchInit
<1>2. DOMAIN results = {} /\ DOMAIN tasks = {} /\ DOMAIN finished = {}
      BY <1>1
<1>3. LoopInv /\ IdleInv /\ OwnResults
      BY <1>1, <1>2 DEF LoopInv, IdleInv, OwnResults
<1>4. GatherInv
      BY <1>1, <1>2 DEF GatherInv, IsInjective, Queries, Commands
<1> QED
    BY <1>3, <1>4 DEF ResultInv

(* A turn of the loop notes the result of the device at its place; success *)
(* means that the device has the address.                                  *)
LEMMA TurnResults ==
    ASSUME BatchTypeInv, ResultInv, Turn, NEW value \in {TRUE, FALSE},
           results' = Noted(value),
           held' = held \/ (held' = [held EXCEPT ![Current] = address] /\ address # 0),
           value = TRUE => held'[Current] # 0
    PROVE  ResultInv'
  <1>1. /\ doing = "addresses" /\ size = Len(collection)
        /\ at \in 1..Len(collection) /\ size \in Nat
        /\ Current \in Device
        /\ Current = collection[at].uid
        /\ at' = at + 1
        /\ UNCHANGED <<collection, doing, size, tasks, answers, finished, asked, cleared>>
    BY TurnFacts
  <1>2. DOMAIN results' = DOMAIN results \union {Current}
    BY DEF Noted
  <1>3. LoopInv'
    <2> SUFFICES ASSUME ~cleared PROVE LoopInv'
      BY <1>1 DEF LoopInv
    <2>1. /\ asked = {collection[i].uid : i \in 1..size}
          /\ DOMAIN results = {collection[i].uid : i \in 1..at - 1}
      BY <1>1 DEF ResultInv, LoopInv
    <2>2. 1..at' - 1 = (1..at - 1) \union {at}
      BY <1>1
    <2>3. DOMAIN results' = {collection[i].uid : i \in 1..at' - 1}
      BY <1>1, <1>2, <2>1, <2>2
    <2>4. QED
      BY <1>1, <2>1, <2>3 DEF LoopInv
  <1>4. GatherInv' /\ IdleInv'
    BY <1>1 DEF ResultInv, GatherInv, IdleInv, Queries, Commands
  <1>5. OwnResults'
    <2>1. \A d \in Device : held[d] # 0 => held'[d] # 0
      BY <1>1 DEF BatchTypeInv, BatchTypeOK
    <2>2. results'[Current] = value
      BY DEF Noted
    <2>3. ASSUME NEW d \in DOMAIN results', d # Current
          PROVE  d \in DOMAIN results /\ d \in Device /\ results'[d] = results[d]
      BY <2>3, <1>2 DEF Noted, BatchTypeInv, BatchTypeOK
    <2>4. ASSUME NEW d \in DOMAIN results'
          PROVE  /\ results'[d] = TRUE => held'[d] # 0
                 /\ results'[d] \in {TRUE, FALSE} \/ results'[d] = d
      <3>1. CASE d = Current
        BY <3>1, <2>2, Zenon
      <3>2. CASE d # Current
        BY <3>2, <2>1, <2>3, Zenon DEF ResultInv, OwnResults
      <3>3. QED
        BY <3>1, <3>2
    <2>5. QED
      BY <2>4, Zenon DEF OwnResults
  <1> QED
    BY <1>3, <1>4, <1>5 DEF ResultInv

(* When as many tasks are done as there are, all of them are.              *)
LEMMA AllAnswered ==
    ASSUME BatchTypeInv, ResultInv, Len(finished) = Len(tasks)
    PROVE  \A k \in DOMAIN tasks : answers[k] \in {Failed, tasks[k]}
  <1> DEFINE n == Len(tasks)
  <1>1. tasks \in UidList /\ finished \in Seq(DOMAIN tasks)
    BY DEF BatchTypeInv, BatchTypeOK
  <1>2. DOMAIN tasks = 1..n /\ n \in Nat
    <2>1. tasks \in Seq(Device)
      BY <1>1, UidLists
    <2>2. QED
      BY <2>1, LenProperties
  <1>3. finished \in [1..n -> DOMAIN tasks] /\ DOMAIN finished = 1..n
    BY <1>1, LenProperties
  <1>4. finished \in Injection(1..n, 1..n)
    BY <1>2, <1>3 DEF ResultInv, GatherInv, Injection
  <1>5. IsFiniteSet(1..n)
    BY <1>2, FS_Interval
  <1>6. finished \in Surjection(1..n, 1..n)
    BY <1>4, <1>5, FS_Injection
  <1>7. \A k \in 1..n : k \in Range(finished)
    BY <1>3, <1>6 DEF Surjection, Range
  <1> QED
    BY <1>2, <1>7 DEF ResultInv, GatherInv

(* The results that gather() returns are those of the devices themselves.  *)
LEMMA GatheredAreOwn ==
    ASSUME BatchTypeInv, ResultInv, EndGather,
           NEW uid \in {tasks[k] : k \in Reported}
    PROVE  Answered(uid) = FALSE \/ (Answered(uid) = uid /\ uid # TRUE)
  <1> DEFINE place == CHOOSE k \in Reported : tasks[k] = uid
  <1>1. place \in Reported /\ tasks[place] = uid
    BY Zenon
  <1> HIDE DEF place
  <1>2. place \in DOMAIN tasks
    BY <1>1 DEF Reported
  <1>3. answers[place] \in {Failed, uid}
    BY <1>1, <1>2, AllAnswered DEF EndGather
  <1>4. uid \in Device
    <2>1. tasks \in Seq(Device) /\ DOMAIN tasks = 1..Len(tasks)
      BY UidLists DEF BatchTypeInv, BatchTypeOK
    <2>2. QED
      BY <1>1, <1>2, <2>1, ElementOfSeq
  <1>5. Answered(uid) = IF answers[place] = Failed THEN FALSE ELSE answers[place]
    BY Zenon DEF Answered, Gathered, place
  <1> QED
    BY <1>3, <1>4, <1>5, AnswerAssumption, Zenon

LEMMA ResultStep ==
    BatchTypeInv /\ ResultInv /\ [BatchNext]_allVars => ResultInv'
<1> SUFFICES ASSUME BatchTypeInv, ResultInv, [BatchNext]_allVars PROVE ResultInv'
    OBVIOUS
<1>1. DOMAIN collection = 1..Len(collection) /\ Len(collection) \in Nat
  <2>1. Cardinality(Device) \in Nat
    BY FS_CardinalityType, CollectionAssumption
  <2>2. QED
    BY <2>1, CollectionLists DEF BatchTypeInv
<1>2. ASSUME NEW start \in Starts, BeginAddresses(start) PROVE ResultInv'
  <2>1. /\ UNCHANGED <<collection, results, held, cleared, tasks, answers, finished>>
        /\ doing = "idle" /\ doing' = "addresses" /\ asked' = Uids(collection)
        /\ size' = Len(collection) /\ at' = 1
    BY <1>2 DEF BeginAddresses, Begin, gatherVars, collectionVars
  <2>2. DOMAIN results = {}
    BY <2>1 DEF ResultInv, IdleInv
  <2>3. LoopInv'
    <3>1. asked' = {collection[i].uid : i \in 1..size'}
      BY <2>1, CollectionLists DEF BatchTypeInv
    <3>2. 1..at' - 1 = {}
      BY <2>1
    <3>3. QED
      BY <1>1, <2>1, <2>2, <3>1, <3>2 DEF LoopInv
  <2>4. GatherInv' /\ IdleInv' /\ OwnResults'
    BY <2>1 DEF ResultInv, GatherInv, IdleInv, OwnResults, Queries, Commands
  <2>5. QED
    BY <2>3, <2>4 DEF ResultInv
<1>3. CASE Refuse
  <2>1. Turn /\ results' = Noted(FALSE) /\ held' = held
    BY <1>3 DEF Refuse
  <2>2. QED
    BY <2>1, TurnResults
<1>4. ASSUME NEW obeys \in BOOLEAN, Sent(obeys) PROVE
          /\ Turn
          /\ held' = held \/ (held' = [held EXCEPT ![Current] = address] /\ address # 0)
          /\ obeys => held'[Current] # 0
  <2>1. Turn /\ address \in 1..MaxAddress /\ address # 0
    BY <1>4, BatchAssumption DEF Sent
  <2>2. Current \in Device /\ held \in [Device -> 0..MaxAddress]
    BY <2>1, TurnFacts DEF BatchTypeInv, BatchTypeOK
  <2>3. CASE obeys
    <3>1. held' = [held EXCEPT ![Current] = address]
      BY <1>4, <2>3 DEF Sent
    <3>2. held'[Current] = address
      BY <2>2, <3>1
    <3>3. QED
      BY <2>1, <3>1, <3>2
  <2>4. CASE ~obeys
    BY <1>4, <2>1, <2>4 DEF Sent
  <2>5. QED
    BY <2>3, <2>4
<1>5. CASE Confirm
  <2>1. Sent(TRUE) /\ results' = Noted(TRUE)
    BY <1>5 DEF Confirm
  <2>2. /\ Turn
        /\ held' = held \/ (held' = [held EXCEPT ![Current] = address] /\ address # 0)
        /\ held'[Current] # 0
    BY <1>4, <2>1
  <2>3. QED
    BY <2>1, <2>2, TurnResults
<1>6. ASSUME NEW obeys \in BOOLEAN, Unconfirmed(obeys) \/ Raise(obeys) PROVE ResultInv'
  <2>1. Sent(obeys) /\ results' = Noted(FALSE)
    BY <1>6 DEF Unconfirmed, Raise
  <2>2. QED
    BY <1>4, <2>1, TurnResults
<1>7. ASSUME NEW how \in {"returned", "raised"}, End(how), OwnResults' PROVE ResultInv'
  <2>1. doing' = how /\ tasks' = <<>> /\ finished' = <<>>
    BY <1>7 DEF End
  <2>2. DOMAIN tasks' = {} /\ DOMAIN finished' = {}
    BY <2>1
  <2>3. LoopInv' /\ IdleInv'
    BY <2>1, <1>7 DEF LoopInv, IdleInv, Queries, Commands
  <2>4. GatherInv'
    BY <2>1, <2>2, <1>7 DEF GatherInv, IsInjective, Queries, Commands
  <2>5. QED
    BY <2>3, <2>4, <1>7 DEF ResultInv
<1>8. CASE IterationFails
  <2>1. End("raised") /\ results' = <<>>
    BY <1>8 DEF IterationFails
  <2>2. DOMAIN results' = {}
    BY <2>1
  <2>3. OwnResults'
    BY <2>2 DEF OwnResults
  <2>4. QED
    BY <1>7, <2>1, <2>3
<1>9. CASE EndAddresses
  <2>1. End("returned") /\ results' = results
    BY <1>9 DEF EndAddresses
  <2>2. OwnResults'
    BY <2>1 DEF End, ResultInv, OwnResults
  <2>3. QED
    BY <1>7, <2>1, <2>2
<1>10. ASSUME NEW what \in Queries \union Commands, BeginGather(what) PROVE ResultInv'
  <2>1. /\ UNCHANGED <<results, held, cleared>>
        /\ doing = "idle" /\ doing' = what /\ asked' = Uids(collection)
        /\ tasks' = [i \in DOMAIN collection |-> collection[i].uid]
        /\ answers' = [i \in DOMAIN collection |-> NoAnswer]
        /\ finished' = <<>>
    BY <1>10 DEF BeginGather, Begin
  <2>2. DOMAIN results' = {}
    BY <2>1 DEF ResultInv, IdleInv
  <2>3. doing' \notin {"idle", "addresses"}
    BY <2>1, <1>10 DEF Queries, Commands
  <2>4. LoopInv' /\ IdleInv' /\ OwnResults'
    BY <2>2, <2>3 DEF LoopInv, IdleInv, OwnResults
  <2>5. DOMAIN finished' = {} /\ Range(finished') = {}
    BY <2>1 DEF Range
  <2>6. IsInjective(finished')
    BY <2>5 DEF IsInjective
  <2>7. Range(tasks') = asked'
    BY <2>1 DEF Uids, Range
  <2>8. \A k \in DOMAIN tasks' : answers'[k] = NoAnswer
    BY <2>1
  <2>9. GatherInv'
    BY <2>5, <2>6, <2>7, <2>8 DEF GatherInv
  <2>10. QED
    BY <2>4, <2>9 DEF ResultInv
<1>11. ASSUME NEW i \in DOMAIN tasks, TaskDone(i) PROVE ResultInv'
  <2>1. /\ UNCHANGED <<collection, doing, size, at, address, tasks, results, held, asked, cleared>>
        /\ answers[i] = NoAnswer
        /\ finished' = Append(finished, i)
    BY <1>11 DEF TaskDone, collectionVars, loopVars, historyVars
  <2>2. PICK outcome \in Outcome(i) : answers' = [answers EXCEPT ![i] = outcome]
    BY <1>11 DEF TaskDone
  <2>3. /\ finished \in Seq(DOMAIN tasks)
        /\ answers \in [DOMAIN tasks -> Device \union {Failed, NoAnswer}]
        /\ tasks \in UidList
    BY DEF BatchTypeInv, BatchTypeOK
  <2>4. tasks[i] \in Device
    BY <2>3, UidLists, <1>11
  <2>5. outcome # NoAnswer /\ outcome \in {Failed, tasks[i]}
    BY <2>2, <2>4, AnswerAssumption DEF Outcome, Failed, NoAnswer
  <2> DEFINE n == Len(finished)
  <2>6. /\ n \in Nat /\ DOMAIN finished = 1..n /\ DOMAIN finished' = 1..n + 1
        /\ \A k \in 1..n : finished'[k] = finished[k]
        /\ finished'[n + 1] = i
    BY <2>1, <2>3, <1>11, AppendProperties, LenProperties
  <2>7. Range(finished') = Range(finished) \union {i}
    BY <2>6 DEF Range
  <2>8. i \notin Range(finished)
    BY <2>1, <1>11 DEF ResultInv, GatherInv
  <2>9. IsInjective(finished')
    <3>1. \A k \in 1..n : finished[k] # i
      BY <2>6, <2>8 DEF Range
    <3>2. ASSUME NEW k \in 1..n + 1, NEW l \in 1..n + 1, finished'[k] = finished'[l]
          PROVE  k = l
      <4>1. CASE k \in 1..n /\ l \in 1..n
        BY <2>6, <3>2, <4>1 DEF ResultInv, GatherInv, IsInjective
      <4>2. CASE k = n + 1 /\ l \in 1..n
        BY <2>6, <3>1, <3>2, <4>2
      <4>3. CASE k \in 1..n /\ l = n + 1
        BY <2>6, <3>1, <3>2, <4>3
      <4>4. QED
        BY <2>6, <4>1, <4>2, <4>3
    <3>3. QED
      BY <2>6, <3>2 DEF IsInjective
  <2>10. ASSUME NEW k \in DOMAIN tasks'
         PROVE  /\ answers'[k] \in {NoAnswer, Failed, tasks'[k]}
                /\ answers'[k] # NoAnswer <=> k \in Range(finished')
    <3>1. CASE k = i
      BY <3>1, <2>1, <2>2, <2>3, <2>5, <2>7
    <3>2. CASE k # i
      <4>1. answers'[k] = answers[k] /\ (k \in Range(finished') <=> k \in Range(finished))
        BY <3>2, <2>1, <2>2, <2>3, <2>7
      <4>2. QED
        BY <4>1, <2>1 DEF ResultInv, GatherInv
    <3>3. QED
      BY <3>1, <3>2
  <2>11. GatherInv'
    BY <2>1, <2>9, <2>10 DEF ResultInv, GatherInv
  <2>12. LoopInv' /\ IdleInv' /\ OwnResults'
    BY <2>1 DEF ResultInv, LoopInv, IdleInv, OwnResults
  <2>13. QED
    BY <2>11, <2>12 DEF ResultInv
<1>12. CASE EndGather
  <2>1. End("returned")
        /\ results' = [uid \in {tasks[k] : k \in Reported} |-> Answered(uid)]
    BY <1>12 DEF EndGather
  <2>2. ASSUME NEW uid \in DOMAIN results'
        PROVE  results'[uid] = FALSE \/ (results'[uid] = uid /\ uid # TRUE)
    <3>1. uid \in {tasks[k] : k \in Reported} /\ results'[uid] = Answered(uid)
      BY <2>1
    <3>2. QED
      BY <3>1, <1>12, GatheredAreOwn, Zenon
  <2>3. OwnResults'
    BY <2>2, Zenon DEF OwnResults
  <2>4. QED
    BY <1>7, <2>1, <2>3
<1>13. CASE Taken
  <2>1. /\ doing' = "idle" /\ results' = <<>> /\ ~cleared'
        /\ UNCHANGED <<tasks, answers, finished>>
    BY <1>13 DEF Taken, gatherVars
  <2>2. DOMAIN results' = {}
    BY <2>1
  <2>3. LoopInv' /\ IdleInv' /\ OwnResults'
    BY <2>1, <2>2 DEF LoopInv, IdleInv, OwnResults
  <2>4. GatherInv'
    BY <2>1 DEF ResultInv, GatherInv, Queries, Commands
  <2>5. QED
    BY <2>3, <2>4 DEF ResultInv
<1>14. CASE Elsewhere
  <2>1. /\ CollectionNext
        /\ UNCHANGED <<doing, size, at, address, tasks, answers, finished,
                       results, held, raised, asked>>
        /\ cleared' = (doing # "idle" /\ (cleared \/ (active /\ ~active')))
    BY <1>14 DEF Elsewhere, loopVars, gatherVars
  <2>2. GatherInv' /\ OwnResults'
    BY <2>1 DEF ResultInv, GatherInv, OwnResults
  <2>3. IdleInv'
    BY <2>1 DEF ResultInv, IdleInv
  <2>4. LoopInv'
    <3> SUFFICES ASSUME doing = "addresses", ~cleared'
                 PROVE  LoopInv'
      BY <2>1 DEF LoopInv
    <3>1. ~cleared /\ ~(active /\ ~active')
      BY <2>1
    <3>2. Kept
      BY <2>1, <3>1, CollectionStep DEF BatchTypeInv
    <3>3. /\ Len(collection) >= size
          /\ asked = {collection[i].uid : i \in 1..size}
          /\ DOMAIN results = {collection[i].uid : i \in 1..at - 1}
      BY <3>1 DEF ResultInv, LoopInv
    <3>4. at \in 1..size + 1 /\ size \in Nat
      <4>1. Cardinality(Device) \in Nat
        BY FS_CardinalityType, CollectionAssumption
      <4>2. QED
        BY <4>1 DEF BatchTypeInv, BatchTypeOK
    <3>5. \A i \in 1..size : collection'[i].uid = collection[i].uid
      BY <3>2, <3>3, <3>4, <1>1 DEF Kept
    <3>6. {collection'[i].uid : i \in 1..size} = {collection[i].uid : i \in 1..size}
      BY <3>5
    <3>7. {collection'[i].uid : i \in 1..at - 1} = {collection[i].uid : i \in 1..at - 1}
      <4>1. \A i \in 1..at - 1 : collection'[i].uid = collection[i].uid
        BY <3>4, <3>5
      <4>2. QED
        BY <4>1
    <3>8. Len(collection') >= size
      <4>1. CollectionInv'
        BY <2>1, CollectionStep DEF BatchTypeInv
      <4>2. Len(collection') \in Nat
        BY <4>1, LenProperties DEF CollectionInv, CollectionTypeOK
      <4>3. QED
        BY <3>2, <3>3, <3>4, <4>2, <1>1 DEF Kept
    <3>9. QED
      BY <2>1, <3>3, <3>6, <3>7, <3>8 DEF LoopInv
  <2>5. QED
    BY <2>2, <2>3, <2>4 DEF ResultInv
<1>15. CASE UNCHANGED allVars
      BY <1>15 DEF allVars, batchVars, collectionVars, sessionVars, searchVars, loopVars,
                   gatherVars, historyVars, ResultInv, LoopInv, GatherInv, IdleInv, OwnResults
<1> QED
    BY <1>2, <1>3, <1>5, <1>6, <1>8, <1>9, <1>10, <1>11, <1>12, <1>13, <1>14, <1>15
    DEF BatchNext

(* What a batch reports, and at the end of the loop over the collection    *)
(* for each of its devices, are the results of the devices themselves.     *)
THEOREM ResultsBelongToDevices == BatchSpec => []ResultsAreTheDevices
<1>1. BatchTypeInv /\ ResultInv => ResultsAreTheDevices
  <2> SUFFICES ASSUME BatchTypeInv, ResultInv PROVE ResultsAreTheDevices
    OBVIOUS
  <2>1. ASSUME doing = "addresses", at > size, ~SizeChanged, ~cleared
        PROVE  DOMAIN results = Uids(collection) /\ DOMAIN results = asked
    <3>1. Cardinality(Device) \in Nat
      BY FS_CardinalityType, CollectionAssumption
    <3>2. at - 1 = size /\ size = Len(collection)
      BY <2>1, <3>1 DEF BatchTypeInv, BatchTypeOK, SizeChanged
    <3>3. Uids(collection) = {collection[i].uid : i \in 1..size}
      BY <3>2, CollectionLists DEF BatchTypeInv
    <3>4. QED
      BY <2>1, <3>2, <3>3 DEF ResultInv, LoopInv
  <2>2. ASSUME doing \in Commands
        PROVE  {tasks[k] : k \in Reported} = asked
    BY <2>2 DEF Reported, Range, ResultInv, GatherInv
  <2>3. QED
    BY <2>1, <2>2, Zenon DEF ResultsAreTheDevices, ResultInv, OwnResults
<1>2. QED
      BY <1>1, BatchInitTypes, BatchTypeStep, BatchInitResults, ResultStep, PTL DEF BatchSpec

=============================================================================
