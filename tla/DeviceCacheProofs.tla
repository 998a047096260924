------------------------- MODULE DeviceCacheProofs -------------------------
(***************************************************************************)
(* The safety properties of DeviceCache, for any number of tasks and any   *)
(* settings, with lost and with deferred answers.                          *)
(***************************************************************************)
EXTENDS DeviceCache, TLAPS

Pending(t) == pc[t] \in {"answered", "worked"}

(* Which variables of a task fit together.                                 *)
ShapeInv ==
    /\ \A t \in Task : pc[t] # "idle" => op[t] \in Op
    /\ \A t \in Task : Pending(t) => answer[t] \in Setting

(* An answer says what the device has, unless it has grown old; a SET is   *)
(* answered with what it has set.                                          *)
AnswerInv ==
    \A t \in Task : Pending(t) =>
        /\ \A p \in Param \ old[t] : answer[t][p] = device[p]
        /\ op[t].kind = "set_start_address" => answer[t].address = op[t].arg
        /\ op[t].kind = "set_personality" => answer[t].personality = op[t].arg

CacheInv ==
    /\ Default \in Setting /\ None \notin Personality \union Setting
    /\ TypeOK
    /\ ShapeInv
    /\ AnswerInv
    /\ StateInSync
    /\ CacheIsFresh
    /\ HitIsPopulated

-----------------------------------------------------------------------------
(* A request changes the parameters that Sets names, and no other.         *)
LEMMA ObeyedChanges ==
    ASSUME NEW o \in Op, device \in Setting, Default \in Setting
    PROVE  /\ Obeyed(o) \in Setting
           /\ \A p \in Param \ Sets(o) : Obeyed(o)[p] = device[p]
           /\ o.kind = "set_start_address" => Obeyed(o).address = o.arg
           /\ o.kind = "set_personality" => Obeyed(o).personality = o.arg
<1>1. CASE o.kind = "set_start_address"
      BY <1>1 DEF Op, Obeyed, Sets, Setting, Param
<1>2. CASE o.kind = "set_personality"
      BY <1>2 DEF Op, Obeyed, Sets, Setting, Param
<1>3. CASE o.kind = "factory_defaults"
      BY <1>3 DEF Op, Obeyed, Sets, Setting, Param
<1>4. CASE o.kind \notin {"set_start_address", "set_personality", "factory_defaults"}
      BY <1>4 DEF Op, Obeyed, Sets, Setting, Param
<1> QED
    BY <1>1, <1>2, <1>3, <1>4

LEMMA SetsTypes == \A o : Sets(o) \subseteq Param
BY DEF Sets, Param

(* The initial states satisfy the invariant.                               *)
LEMMA InitInv == Init => CacheInv
<1> SUFFICES ASSUME Init PROVE CacheInv
    OBVIOUS
<1>1. TypeOK
      BY DEF Init, TypeOK, NoOp
<1>2. ShapeInv /\ AnswerInv
      BY DEF Init, ShapeInv, AnswerInv, Pending
<1>3. StateInSync /\ CacheIsFresh /\ HitIsPopulated
      BY DEF Init, StateInSync, CacheIsFresh, HitIsPopulated
<1> QED
    BY <1>1, <1>2, <1>3, CacheAssumption DEF CacheInv
(* Every action keeps the types.                                           *)
LEMMA TypeStep == CacheInv /\ [Next]_vars => TypeOK'
<1> SUFFICES ASSUME CacheInv, [Next]_vars PROVE TypeOK'
    OBVIOUS
<1> USE DEF CacheInv, ShapeInv, Pending, TypeOK
<1>1. ASSUME NEW t \in Task, Obey(t) PROVE TypeOK'
      BY <1>1, ObeyedChanges, SetsTypes DEF Obey, Aged, Unnoticed, InDoubt
<1>2. ASSUME NEW t \in Task, Defer(t) PROVE TypeOK'
      BY <1>2 DEF Defer
<1>3. ASSUME NEW t \in Task, Work(t) PROVE TypeOK'
      BY <1>3, ObeyedChanges, SetsTypes DEF Work, Aged, Unnoticed, InDoubt
<1>4. ASSUME NEW t \in Task, Collect(t) PROVE TypeOK'
      BY <1>4 DEF Collect
<1>5. ASSUME NEW t \in Task, LoseAnswer(t) PROVE TypeOK'
      BY <1>5, SetsTypes DEF LoseAnswer, InDoubt
<1>6. ASSUME NEW t \in Task, Ask(t) PROVE TypeOK'
      BY <1>6 DEF Ask
<1>7. ASSUME NEW t \in Task, GiveUp(t) PROVE TypeOK'
      BY <1>7 DEF GiveUp
<1>8. ASSUME NEW t \in Task, InfoRead(t) PROVE TypeOK'
      BY <1>8 DEF InfoRead, Return, Take, Judged, Overtaken, Param
<1>9. ASSUME NEW t \in Task, PersonalityRead(t) PROVE TypeOK'
      BY <1>9 DEF PersonalityRead, Return, Take, Judged, Overtaken, Param, Setting
<1>10. ASSUME NEW t \in Task, AddressSet(t) PROVE TypeOK'
      BY <1>10 DEF AddressSet, Return, Take, Judged, Overtaken, Param, Setting, Op
<1>11. ASSUME NEW t \in Task, PersonalitySet(t) PROVE TypeOK'
      BY <1>11 DEF PersonalitySet, Return, Take, Judged, Overtaken, Param, Setting, Op
<1>12. ASSUME NEW t \in Task, Restored(t) PROVE TypeOK'
      BY <1>12 DEF Restored, Return, Take
<1>13. ASSUME ExpireInfo \/ ExpirePersonality PROVE TypeOK'
      BY <1>13 DEF ExpireInfo, ExpirePersonality
<1>14. CASE UNCHANGED vars
      BY <1>14 DEF vars
<1>15. ASSUME NEW t \in Task, StopPolling(t) PROVE TypeOK'
      BY <1>15, SetsTypes DEF StopPolling, InDoubt
<1>16. ASSUME WorkLate PROVE TypeOK'
      BY <1>16, ObeyedChanges, SetsTypes DEF WorkLate, Aged, InDoubt
<1>17. ASSUME NEW t \in Task, RawSet(t) PROVE TypeOK'
      BY <1>17 DEF RawSet, Take
<1> QED
    BY <1>1, <1>2, <1>3, <1>4, <1>5, <1>6, <1>7, <1>8, <1>9, <1>10, <1>11, <1>12, <1>13, <1>14,
       <1>15, <1>16, <1>17
       DEF Next, DeviceStep, ApiStep

(* Every action keeps the variables of a task together.                    *)
LEMMA ShapeStep == CacheInv /\ [Next]_vars => ShapeInv'
<1> SUFFICES ASSUME CacheInv, [Next]_vars PROVE ShapeInv'
    OBVIOUS
<1> USE DEF CacheInv, ShapeInv, Pending, TypeOK
<1>1. ASSUME NEW t \in Task, Obey(t) PROVE ShapeInv'
      BY <1>1, ObeyedChanges DEF Obey, Aged, Unnoticed, InDoubt, WireFree
<1>2. ASSUME NEW t \in Task, Defer(t) PROVE ShapeInv'
      BY <1>2 DEF Defer
<1>3. ASSUME NEW t \in Task, Work(t) PROVE ShapeInv'
      BY <1>3, ObeyedChanges DEF Work, Aged, Unnoticed, InDoubt
<1>4. ASSUME NEW t \in Task, Collect(t) PROVE ShapeInv'
      BY <1>4 DEF Collect, WireFree
<1>5. ASSUME NEW t \in Task, LoseAnswer(t) PROVE ShapeInv'
      BY <1>5 DEF LoseAnswer, InDoubt
<1>6. ASSUME NEW t \in Task, Ask(t) PROVE ShapeInv'
      BY <1>6 DEF Ask
<1>7. ASSUME NEW t \in Task, GiveUp(t) PROVE ShapeInv'
      BY <1>7 DEF GiveUp
<1>8. ASSUME NEW t \in Task, InfoRead(t) PROVE ShapeInv'
      BY <1>8 DEF InfoRead, Return, Take
<1>9. ASSUME NEW t \in Task, PersonalityRead(t) PROVE ShapeInv'
      BY <1>9 DEF PersonalityRead, Return, Take
<1>10. ASSUME NEW t \in Task, AddressSet(t) PROVE ShapeInv'
      BY <1>10 DEF AddressSet, Return, Take
<1>11. ASSUME NEW t \in Task, PersonalitySet(t) PROVE ShapeInv'
      BY <1>11 DEF PersonalitySet, Return, Take
<1>12. ASSUME NEW t \in Task, Restored(t) PROVE ShapeInv'
      BY <1>12 DEF Restored, Return, Take
<1>13. ASSUME ExpireInfo \/ ExpirePersonality PROVE ShapeInv'
      BY <1>13 DEF ExpireInfo, ExpirePersonality
<1>14. CASE UNCHANGED vars
      BY <1>14 DEF vars
<1>15. ASSUME NEW t \in Task, StopPolling(t) PROVE ShapeInv'
      BY <1>15 DEF StopPolling
<1>16. ASSUME WorkLate PROVE ShapeInv'
      BY <1>16, ObeyedChanges DEF WorkLate, Aged
<1>17. ASSUME NEW t \in Task, RawSet(t) PROVE ShapeInv'
      BY <1>17 DEF RawSet, Take
<1> QED
    BY <1>1, <1>2, <1>3, <1>4, <1>5, <1>6, <1>7, <1>8, <1>9, <1>10, <1>11, <1>12, <1>13, <1>14,
       <1>15, <1>16, <1>17
       DEF Next, DeviceStep, ApiStep

(* Every action keeps the answers true: the device changes behind an answer *)
(* only by marking it old.                                                 *)
LEMMA AnswerStep == CacheInv /\ [Next]_vars => AnswerInv'
<1> SUFFICES ASSUME CacheInv, [Next]_vars PROVE AnswerInv'
    OBVIOUS
<1> USE DEF CacheInv, ShapeInv, AnswerInv, Pending, TypeOK
<1>1. ASSUME NEW t \in Task, Obey(t) PROVE AnswerInv'
      BY <1>1, ObeyedChanges DEF Obey, Aged, Unnoticed, InDoubt, WireFree
<1>2. ASSUME NEW t \in Task, Defer(t) PROVE AnswerInv'
      BY <1>2 DEF Defer
<1>3. ASSUME NEW t \in Task, Work(t) PROVE AnswerInv'
      BY <1>3, ObeyedChanges DEF Work, Aged, Unnoticed, InDoubt
<1>4. ASSUME NEW t \in Task, Collect(t) PROVE AnswerInv'
      BY <1>4 DEF Collect, WireFree
<1>5. ASSUME NEW t \in Task, LoseAnswer(t) PROVE AnswerInv'
      BY <1>5 DEF LoseAnswer, InDoubt
<1>6. ASSUME NEW t \in Task, Ask(t) PROVE AnswerInv'
      BY <1>6 DEF Ask
<1>7. ASSUME NEW t \in Task, GiveUp(t) PROVE AnswerInv'
      BY <1>7 DEF GiveUp
<1>8. ASSUME NEW t \in Task, InfoRead(t) PROVE AnswerInv'
      BY <1>8 DEF InfoRead, Return, Take
<1>9. ASSUME NEW t \in Task, PersonalityRead(t) PROVE AnswerInv'
      BY <1>9 DEF PersonalityRead, Return, Take
<1>10. ASSUME NEW t \in Task, AddressSet(t) PROVE AnswerInv'
      BY <1>10 DEF AddressSet, Return, Take
<1>11. ASSUME NEW t \in Task, PersonalitySet(t) PROVE AnswerInv'
      BY <1>11 DEF PersonalitySet, Return, Take
<1>12. ASSUME NEW t \in Task, Restored(t) PROVE AnswerInv'
      BY <1>12 DEF Restored, Return, Take
<1>13. ASSUME ExpireInfo \/ ExpirePersonality PROVE AnswerInv'
      BY <1>13 DEF ExpireInfo, ExpirePersonality
<1>14. CASE UNCHANGED vars
      BY <1>14 DEF vars
<1>15. ASSUME NEW t \in Task, StopPolling(t) PROVE AnswerInv'
      BY <1>15 DEF StopPolling
<1>16. ASSUME WorkLate PROVE AnswerInv'
      BY <1>16, ObeyedChanges DEF WorkLate, Aged
<1>17. ASSUME NEW t \in Task, RawSet(t) PROVE AnswerInv'
      BY <1>17 DEF RawSet, Take
<1> QED
    BY <1>1, <1>2, <1>3, <1>4, <1>5, <1>6, <1>7, <1>8, <1>9, <1>10, <1>11, <1>12, <1>13, <1>14,
       <1>15, <1>16, <1>17
       DEF Next, DeviceStep, ApiStep

(* Every action keeps the state in sync: what is taken from an answer is   *)
(* true or old.                                                            *)
LEMMA SyncStep == CacheInv /\ [Next]_vars => StateInSync'
<1> SUFFICES ASSUME CacheInv, [Next]_vars PROVE StateInSync'
    OBVIOUS
<1> USE DEF CacheInv, ShapeInv, AnswerInv, Pending, TypeOK, Settled, StateInSync
<1>1. ASSUME NEW t \in Task, Obey(t) PROVE StateInSync'
      BY <1>1, ObeyedChanges DEF Obey, Aged, Unnoticed, InDoubt, WireFree
<1>2. ASSUME NEW t \in Task, Defer(t) PROVE StateInSync'
      BY <1>2 DEF Defer
<1>3. ASSUME NEW t \in Task, Work(t) PROVE StateInSync'
      BY <1>3, ObeyedChanges DEF Work, Aged, Unnoticed, InDoubt
<1>4. ASSUME NEW t \in Task, Collect(t) PROVE StateInSync'
      BY <1>4 DEF Collect, WireFree
<1>5. ASSUME NEW t \in Task, LoseAnswer(t) PROVE StateInSync'
      BY <1>5 DEF LoseAnswer, InDoubt
<1>6. ASSUME NEW t \in Task, Ask(t) PROVE StateInSync'
      BY <1>6 DEF Ask
<1>7. ASSUME NEW t \in Task, GiveUp(t) PROVE StateInSync'
      BY <1>7 DEF GiveUp
<1>8. ASSUME NEW t \in Task, InfoRead(t) PROVE StateInSync'
      BY <1>8 DEF InfoRead, Return, Take, Judged, Overtaken, Param, Setting, Op, Sets
<1>9. ASSUME NEW t \in Task, PersonalityRead(t) PROVE StateInSync'
      BY <1>9 DEF PersonalityRead, Return, Take, Judged, Overtaken, Param, Setting, Op, Sets
<1>10. ASSUME NEW t \in Task, AddressSet(t) PROVE StateInSync'
      BY <1>10 DEF AddressSet, Return, Take, Judged, Overtaken, Param, Setting, Op, Sets
<1>11. ASSUME NEW t \in Task, PersonalitySet(t) PROVE StateInSync'
      BY <1>11 DEF PersonalitySet, Return, Take, Judged, Overtaken, Param, Setting, Op, Sets
<1>12. ASSUME NEW t \in Task, Restored(t) PROVE StateInSync'
      BY <1>12 DEF Restored, Return, Take, Judged, Overtaken, Param, Setting, Op, Sets
<1>13. ASSUME ExpireInfo \/ ExpirePersonality PROVE StateInSync'
      BY <1>13 DEF ExpireInfo, ExpirePersonality, Param
<1>14. CASE UNCHANGED vars
      BY <1>14 DEF vars
<1>15. ASSUME NEW t \in Task, StopPolling(t) PROVE StateInSync'
      BY <1>15 DEF StopPolling, InDoubt
<1>16. ASSUME WorkLate PROVE StateInSync'
      BY <1>16, ObeyedChanges DEF WorkLate, Aged, InDoubt
<1>17. ASSUME NEW t \in Task, RawSet(t) PROVE StateInSync'
      BY <1>17 DEF RawSet, Take, Judged, Overtaken, Param, Setting, Op, Sets
<1> QED
    BY <1>1, <1>2, <1>3, <1>4, <1>5, <1>6, <1>7, <1>8, <1>9, <1>10, <1>11, <1>12, <1>13, <1>14,
       <1>15, <1>16, <1>17
       DEF Next, DeviceStep, ApiStep

(* Every action keeps the entry of the personality fresh.                  *)
LEMMA FreshStep == CacheInv /\ [Next]_vars => CacheIsFresh'
<1> SUFFICES ASSUME CacheInv, [Next]_vars PROVE CacheIsFresh'
    OBVIOUS
<1> USE DEF CacheInv, ShapeInv, AnswerInv, Pending, TypeOK, Settled, CacheIsFresh
<1>1. ASSUME NEW t \in Task, Obey(t) PROVE CacheIsFresh'
      BY <1>1, ObeyedChanges DEF Obey, Aged, Unnoticed, InDoubt, WireFree, Param
<1>2. ASSUME NEW t \in Task, Defer(t) PROVE CacheIsFresh'
      BY <1>2 DEF Defer
<1>3. ASSUME NEW t \in Task, Work(t) PROVE CacheIsFresh'
      BY <1>3, ObeyedChanges DEF Work, Aged, Unnoticed, InDoubt, Param
<1>4. ASSUME NEW t \in Task, Collect(t) PROVE CacheIsFresh'
      BY <1>4 DEF Collect, WireFree
<1>5. ASSUME NEW t \in Task, LoseAnswer(t) PROVE CacheIsFresh'
      BY <1>5 DEF LoseAnswer, InDoubt
<1>6. ASSUME NEW t \in Task, Ask(t) PROVE CacheIsFresh'
      BY <1>6 DEF Ask
<1>7. ASSUME NEW t \in Task, GiveUp(t) PROVE CacheIsFresh'
      BY <1>7 DEF GiveUp
<1>8. ASSUME NEW t \in Task, InfoRead(t) PROVE CacheIsFresh'
      BY <1>8 DEF InfoRead, Return, Take, Judged, Overtaken, Param, Setting, Op, Sets
<1>9. ASSUME NEW t \in Task, PersonalityRead(t) PROVE CacheIsFresh'
      BY <1>9 DEF PersonalityRead, Return, Take, Judged, Overtaken, Param, Setting, Op, Sets
<1>10. ASSUME NEW t \in Task, AddressSet(t) PROVE CacheIsFresh'
      BY <1>10 DEF AddressSet, Return, Take, Judged, Overtaken, Param, Setting, Op, Sets
<1>11. ASSUME NEW t \in Task, PersonalitySet(t) PROVE CacheIsFresh'
      BY <1>11 DEF PersonalitySet, Return, Take, Judged, Overtaken, Param, Setting, Op, Sets
<1>12. ASSUME NEW t \in Task, Restored(t) PROVE CacheIsFresh'
      BY <1>12 DEF Restored, Return, Take, Judged, Overtaken, Param, Setting, Op, Sets
<1>13. ASSUME ExpireInfo \/ ExpirePersonality PROVE CacheIsFresh'
      BY <1>13 DEF ExpireInfo, ExpirePersonality
<1>14. CASE UNCHANGED vars
      BY <1>14 DEF vars
<1>15. ASSUME NEW t \in Task, StopPolling(t) PROVE CacheIsFresh'
      BY <1>15 DEF StopPolling, InDoubt
<1>16. ASSUME WorkLate PROVE CacheIsFresh'
      BY <1>16, ObeyedChanges DEF WorkLate, Aged, InDoubt, Param
<1>17. ASSUME NEW t \in Task, RawSet(t) PROVE CacheIsFresh'
      BY <1>17 DEF RawSet, Take, Judged, Overtaken, Param, Setting, Op, Sets
<1> QED
    BY <1>1, <1>2, <1>3, <1>4, <1>5, <1>6, <1>7, <1>8, <1>9, <1>10, <1>11, <1>12, <1>13, <1>14,
       <1>15, <1>16, <1>17
       DEF Next, DeviceStep, ApiStep

(* Every action that forgets a parameter clears the entry of DEVICE_INFO.  *)
LEMMA HitStep == CacheInv /\ [Next]_vars => HitIsPopulated'
<1> SUFFICES ASSUME CacheInv, [Next]_vars PROVE HitIsPopulated'
    OBVIOUS
<1> USE DEF CacheInv, TypeOK, HitIsPopulated
<1>1. ASSUME NEW t \in Task, Obey(t) PROVE HitIsPopulated'
      BY <1>1 DEF Obey, Aged, Unnoticed, InDoubt
<1>2. ASSUME NEW t \in Task, Defer(t) PROVE HitIsPopulated'
      BY <1>2 DEF Defer
<1>3. ASSUME NEW t \in Task, Work(t) PROVE HitIsPopulated'
      BY <1>3 DEF Work, Aged, Unnoticed, InDoubt
<1>4. ASSUME NEW t \in Task, Collect(t) PROVE HitIsPopulated'
      BY <1>4 DEF Collect
<1>5. ASSUME NEW t \in Task, LoseAnswer(t) PROVE HitIsPopulated'
      BY <1>5 DEF LoseAnswer, InDoubt
<1>6. ASSUME NEW t \in Task, Ask(t) PROVE HitIsPopulated'
      BY <1>6 DEF Ask
<1>7. ASSUME NEW t \in Task, GiveUp(t) PROVE HitIsPopulated'
      BY <1>7 DEF GiveUp
<1>8. ASSUME NEW t \in Task, InfoRead(t) PROVE HitIsPopulated'
      BY <1>8 DEF InfoRead, Return, Take, Param
<1>9. ASSUME NEW t \in Task, PersonalityRead(t) PROVE HitIsPopulated'
      BY <1>9 DEF PersonalityRead, Return, Take, Param
<1>10. ASSUME NEW t \in Task, AddressSet(t) PROVE HitIsPopulated'
      BY <1>10 DEF AddressSet, Return, Take, Param
<1>11. ASSUME NEW t \in Task, PersonalitySet(t) PROVE HitIsPopulated'
      BY <1>11 DEF PersonalitySet, Return, Take, Param
<1>12. ASSUME NEW t \in Task, Restored(t) PROVE HitIsPopulated'
      BY <1>12 DEF Restored, Return, Take, Param
<1>13. ASSUME ExpireInfo \/ ExpirePersonality PROVE HitIsPopulated'
      BY <1>13 DEF ExpireInfo, ExpirePersonality
<1>14. CASE UNCHANGED vars
      BY <1>14 DEF vars
<1>15. ASSUME NEW t \in Task, StopPolling(t) PROVE HitIsPopulated'
      BY <1>15 DEF StopPolling
<1>16. ASSUME WorkLate PROVE HitIsPopulated'
      BY <1>16 DEF WorkLate
<1>17. ASSUME NEW t \in Task, RawSet(t) PROVE HitIsPopulated'
      BY <1>17 DEF RawSet, Take, Param
<1> QED
    BY <1>1, <1>2, <1>3, <1>4, <1>5, <1>6, <1>7, <1>8, <1>9, <1>10, <1>11, <1>12, <1>13, <1>14,
       <1>15, <1>16, <1>17
       DEF Next, DeviceStep, ApiStep

-----------------------------------------------------------------------------
(* The invariant holds in every reachable state.                           *)
THEOREM CacheIsInvariant == Spec => []CacheInv
<1>1. CacheInv /\ [Next]_vars => CacheInv'
      BY TypeStep, ShapeStep, AnswerStep, SyncStep, FreshStep, HitStep DEF CacheInv
<1> QED
    BY InitInv, <1>1, PTL DEF Spec

(* Every variable keeps its type.                                          *)
THEOREM CacheTypes == Spec => []TypeOK
<1>1. CacheInv => TypeOK
      BY DEF CacheInv
<1> QED
    BY CacheIsInvariant, <1>1, PTL

(* What the program holds to be the state of the device is its state, for  *)
(* any number of tasks, but for raw SETs and lost or overtaken answers.    *)
THEOREM StateStaysInSync == Spec => []StateInSync
<1>1. CacheInv => StateInSync
      BY DEF CacheInv
<1> QED
    BY CacheIsInvariant, <1>1, PTL

(* The cache never answers with a personality that a SET has replaced,     *)
(* with the same exceptions.                                               *)
THEOREM CacheStaysFresh == Spec => []CacheIsFresh
<1>1. CacheInv => CacheIsFresh
      BY DEF CacheInv
<1> QED
    BY CacheIsInvariant, <1>1, PTL

(* A hit of DEVICE_INFO means that the state has been filled.              *)
THEOREM HitsArePopulated == Spec => []HitIsPopulated
<1>1. CacheInv => HitIsPopulated
      BY DEF CacheInv
<1> QED
    BY CacheIsInvariant, <1>1, PTL
=============================================================================
