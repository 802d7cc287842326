----------------------------- MODULE FilesProofs -----------------------------
(***************************************************************************)
(* Proofs about what lies on disk: the managed directories, for any number *)
(* of processes, calls, identities and slots; the calls on one file, for   *)
(* any number of calls, threads and changes from outside; and patches, for *)
(* any contents and hunks.                                                 *)
(***************************************************************************)
EXTENDS Files, FiniteSetTheorems, SequenceTheorems, WellFoundedInduction, NaturalsInduction,
        TLAPS

(* The managed directories *)

(* Who may be doing what to a directory.  An identity has one creator at most; *)
(* until it has written the record nothing else can have begun on it, and a    *)
(* release that got past the record's check never meets the creator.  Of all   *)
(* the releases of a directory one alone unlinks the record and frees its slot. *)
TaskInv ==
  /\ \A t, u \in Tasks :
       pc[t] \in Creating /\ pc[u] \in Creating /\ job[t] = job[u] => t = u
  /\ \A t, u \in Tasks :
       pc[t] \in Creating /\ pc[u] \in Releasing \ {"read"} => job[t] # job[u]
  /\ \A t, u \in Tasks :
       pc[t] \in {"rematch", "free"} /\ pc[u] \in {"rematch", "free"} /\ job[t] = job[u] => t = u
  /\ \A t \in Tasks : pc[t] # "idle" => job[t] \in spent

DiskInv ==
  /\ \A t \in Tasks : pc[t] \in {"slot", "record", "rematch", "free"} => record[job[t]] = "none"
  /\ \A t \in Tasks : pc[t] \in {"mkdir", "update", "rename"} => record[job[t]] = "allocating"
  /\ \A t \in Tasks : pc[t] = "unlink" => job[t] \notin payload
  /\ \A t \in Tasks : pc[t] \in {"record", "free"} => slot[place[job[t]]] = job[t]
  /\ \A id \in Ids : record[id] # "none" => id \in spent /\ slot[place[id]] = id
  /\ \A id \in payload : record[id] # "none"

SlotInv ==
  /\ \A k \in Slots : slot[k] # None => slot[k] \in spent /\ place[slot[k]] = k
  /\ \A t \in Tasks : pc[t] = "slot" => \A k \in Slots : slot[k] # job[t]
  /\ \A t \in Tasks : pc[t] \in {"record", "rematch", "free"} => place[job[t]] \in Slots
  /\ \A id \in Ids : record[id] # "none" => place[id] \in Slots

Claims == TaskInv /\ DiskInv /\ SlotInv

LEMMA TasksInductive == DiskOK /\ TasksOK /\ [Next]_vars => TasksOK'
<1> SUFFICES ASSUME DiskOK, TasksOK, [Next]_vars PROVE TasksOK'
  OBVIOUS
<1> USE TempDirsAssumption
<1>1. ASSUME NEW t \in Tasks, pc[t] # "idle",
             Ends(t) \/ \E step \in Creating \cup Releasing : Goto(t, step),
             alive' = alive, abandoned' \in {abandoned, abandoned \cup {job[t]}}
      PROVE  TasksOK'
  <2>1. CASE Ends(t)
    BY <1>1, <2>1 DEF TasksOK, Ends
  <2>2. ASSUME NEW step \in Creating \cup Releasing, Goto(t, step) PROVE TasksOK'
    BY <1>1, <2>2 DEF TasksOK, Goto, Creating, Releasing
  <2>3. QED
    BY <1>1, <2>1, <2>2
<1>2. ASSUME NEW t \in Tasks, NEW id \in Ids, NEW type \in {"scratch", "retained"},
             Create(t, id, type)
      PROVE  TasksOK'
  BY <1>2 DEF Create, At, TasksOK, Creating
<1>3. ASSUME NEW t \in Tasks, NEW id \in Ids, NEW auto \in BOOLEAN, Release(t, id, auto)
      PROVE  TasksOK'
  BY <1>3 DEF Release, At, TasksOK, Releasing
<1>4. ASSUME NEW t \in Tasks, TakeSlot(t) PROVE TasksOK'
  <2>1. CASE UNCHANGED taskVars
    BY <1>4, <2>1 DEF TakeSlot, taskVars, TasksOK
  <2>2. CASE Goto(t, "record") \/ Ends(t)
    BY <1>1, <1>4, <2>2 DEF TakeSlot, At, Creating
  <2>3. QED
    BY <1>4, <2>1, <2>2 DEF TakeSlot
<1>5. ASSUME NEW t \in Tasks,
             WriteRecord(t) \/ MakeDirectory(t) \/ WriteUpdate(t) \/ RenameUpdate(t) \/ Fails(t)
      PROVE  TasksOK'
  BY <1>1, <1>5 DEF WriteRecord, MakeDirectory, WriteUpdate, RenameUpdate, Fails, At, Creating
<1>6. ASSUME NEW t \in Tasks,
             \/ ReadRecord(t) \/ MatchSlot(t) \/ RemovalFails(t) \/ Recheck(t)
             \/ RematchSlot(t) \/ Removed(t) \/ UnlinkRecord(t) \/ UnlinkSlot(t)
      PROVE  TasksOK'
  BY <1>1, <1>6 DEF ReadRecord, MatchSlot, RemovalFails, Recheck, RematchSlot, Removed,
     UnlinkRecord, UnlinkSlot, At, Releasing
<1>7. ASSUME NEW h \in Hosts, Dies(h) PROVE TasksOK'
  <2> DEFINE lost == {t \in Tasks : HostOf[t] = h}
  <2>1. {job[t] : t \in lost} \ {None} \subseteq Ids
    BY DEF TasksOK
  <2>2. abandoned' \in SUBSET Ids /\ alive' \in SUBSET Hosts
    BY <1>7, <2>1 DEF Dies, TasksOK
  <2>3. /\ pc' = [t \in Tasks |-> IF t \in lost THEN "idle" ELSE pc[t]]
        /\ job' = [t \in Tasks |-> IF t \in lost THEN None ELSE job[t]]
        /\ automatic' = [t \in Tasks |-> IF t \in lost THEN FALSE ELSE automatic[t]]
    BY <1>7 DEF Dies
  <2> HIDE DEF lost
  <2>4. QED
    BY <2>2, <2>3 DEF TasksOK
<1>8. ASSUME NEW id \in Ids, RemovedOutside(id) PROVE TasksOK'
  BY <1>8 DEF RemovedOutside, taskVars, TasksOK
<1>9. CASE UNCHANGED vars
  BY <1>9 DEF vars, TasksOK
<1>10. QED
  BY <1>2, <1>3, <1>4, <1>5, <1>6, <1>7, <1>8, <1>9 DEF Next, Step,
     ReleaseByPath, ReleaseMissing, ReleaseScratch

LEMMA DiskInductive == DiskOK /\ TasksOK /\ [Next]_vars => DiskOK'
<1> SUFFICES ASSUME DiskOK, TasksOK, [Next]_vars PROVE DiskOK'
  OBVIOUS
<1> USE TempDirsAssumption DEF DiskOK, Slots, diskVars
<1>0. ASSUME UNCHANGED <<diskVars, spent>> PROVE DiskOK'
  BY <1>0
<1>1. ASSUME NEW t \in Tasks, NEW id \in Ids, NEW type \in {"scratch", "retained"},
             Create(t, id, type)
      PROVE  DiskOK'
  BY <1>1 DEF Create, TasksOK
<1>2. ASSUME NEW t \in Tasks, NEW id \in Ids, NEW auto \in BOOLEAN, Release(t, id, auto)
      PROVE  DiskOK'
  BY <1>2 DEF Release
<1>3. ASSUME NEW t \in Tasks, pc[t] # "idle" PROVE job[t] \in Ids
  BY <1>3 DEF TasksOK
<1>4. ASSUME NEW t \in Tasks, TakeSlot(t) PROVE DiskOK'
  <2>1. job[t] \in Ids
    BY <1>3, <1>4 DEF TakeSlot, At
  <2>2. UNCHANGED <<record, maker, lifecycle, update, payload, spent>>
    BY <1>4 DEF TakeSlot
  <2>3. slot' \in [Slots -> Ids \cup {None}]
    BY <2>1, <1>4 DEF TakeSlot, taskVars
  <2>4. place' \in [Ids -> 0 .. MaxSlots]
    <3>1. CASE UNCHANGED place
      BY <3>1
    <3>2. CASE /\ place[job[t]] \in Slots
               /\ place' = [place EXCEPT ![job[t]] = place[job[t]] + 1]
      <4>1. place[job[t]] + 1 \in 0 .. MaxSlots
        BY <3>2, TempDirsAssumption
      <4>2. QED
        BY <4>1, <3>2
    <3>3. QED
      BY <3>1, <3>2, <1>4 DEF TakeSlot
  <2>5. QED
    BY <2>2, <2>3, <2>4
<1>5. ASSUME NEW t \in Tasks, WriteRecord(t) \/ MakeDirectory(t) \/ WriteUpdate(t)
      PROVE  DiskOK'
  BY <1>3, <1>5 DEF WriteRecord, MakeDirectory, WriteUpdate, At
<1>6. ASSUME NEW t \in Tasks, RenameUpdate(t) \/ Removed(t) \/ UnlinkRecord(t) \/ UnlinkSlot(t)
      PROVE  DiskOK'
  BY <1>3, <1>6 DEF RenameUpdate, Removed, UnlinkRecord, UnlinkSlot, At
<1>7. ASSUME NEW t \in Tasks,
             \/ ReadRecord(t) \/ MatchSlot(t) \/ RemovalFails(t) \/ Recheck(t)
             \/ RematchSlot(t) \/ Fails(t)
      PROVE  DiskOK'
  BY <1>0, <1>7 DEF ReadRecord, MatchSlot, RemovalFails, Recheck, RematchSlot, Fails
<1>8. ASSUME NEW h \in Hosts, Dies(h) PROVE DiskOK'
  BY <1>0, <1>8 DEF Dies
<1>9. ASSUME NEW id \in Ids, RemovedOutside(id) PROVE DiskOK'
  BY <1>9 DEF RemovedOutside
<1>10. CASE UNCHANGED vars
  BY <1>0, <1>10 DEF vars
<1> HIDE DEF DiskOK
<1>11. QED
  BY <1>1, <1>2, <1>4, <1>5, <1>6, <1>7, <1>8, <1>9, <1>10 DEF Next, Step,
     ReleaseByPath, ReleaseMissing, ReleaseScratch

(* A call that ends, by itself, by an error or with its process, takes its     *)
(* claims with it.                                                            *)
LEMMA EndingKeeps ==
  ASSUME TypeOK, TaskInv, DiskInv, SlotInv,
         \A t \in Tasks : \/ pc'[t] = "idle"
                          \/ pc'[t] = pc[t] /\ job'[t] = job[t],
         UNCHANGED <<slot, record, place, spent>>, payload' \subseteq payload
  PROVE  Claims'
<1>1. TaskInv'
  BY DEF TypeOK, DiskOK, TasksOK, TaskInv, Creating, Releasing
<1>2. DiskInv'
  BY DEF TypeOK, DiskOK, TasksOK, DiskInv
<1>3. SlotInv'
  BY DEF TypeOK, DiskOK, TasksOK, SlotInv
<1>4. QED
  BY <1>1, <1>2, <1>3 DEF Claims

LEMMA InvInductive ==
  TypeOK /\ TypeOK' /\ TaskInv /\ DiskInv /\ SlotInv /\ [Next]_vars
    => Claims'
<1> SUFFICES ASSUME TypeOK, TypeOK', TaskInv, DiskInv, SlotInv, [Next]_vars
             PROVE  Claims'
  OBVIOUS
<1> USE TempDirsAssumption DEF Claims
<1>1. ASSUME NEW t \in Tasks, NEW id \in Ids, NEW type \in {"scratch", "retained"},
             Create(t, id, type)
      PROVE  Claims'
  <2>1. record[id] = "none" /\ id \notin payload /\ \A u \in Tasks : job[u] # id
    BY <1>1 DEF Create, DiskInv, TaskInv, TypeOK, DiskOK, TasksOK
  <2>2. TaskInv'
    BY <1>1, <2>1 DEF Create, At, TaskInv, TypeOK, DiskOK, TasksOK, Creating, Releasing
  <2>3. DiskInv'
    BY <1>1, <2>1 DEF Create, At, DiskInv, TypeOK, DiskOK, TasksOK
  <2>4. SlotInv'
    BY <1>1, <2>1 DEF Create, At, SlotInv, TypeOK, DiskOK, TasksOK, Slots
  <2>5. QED
    BY <2>2, <2>3, <2>4
<1>2. ASSUME NEW t \in Tasks, NEW id \in Ids, NEW auto \in BOOLEAN, Release(t, id, auto)
      PROVE  Claims'
  <2>1. TaskInv'
    BY <1>2 DEF Release, At, TaskInv, TypeOK, DiskOK, TasksOK, Creating, Releasing
  <2>2. DiskInv'
    BY <1>2 DEF Release, At, DiskInv, TypeOK, DiskOK, TasksOK, diskVars
  <2>3. SlotInv'
    BY <1>2 DEF Release, At, SlotInv, TypeOK, DiskOK, TasksOK, diskVars
  <2>4. QED
    BY <2>1, <2>2, <2>3
<1>3. ASSUME NEW t \in Tasks, TakeSlot(t) PROVE Claims'
  <2>1. pc[t] = "slot" /\ job[t] \in Ids /\ job[t] \in spent /\ record[job[t]] = "none"
    BY <1>3 DEF TakeSlot, At, TypeOK, DiskOK, TasksOK, DiskInv, TaskInv
  <2>2. CASE /\ place[job[t]] \in Slots
             /\ slot[place[job[t]]] = None
             /\ slot' = [slot EXCEPT ![place[job[t]]] = job[t]]
             /\ Goto(t, "record")
             /\ UNCHANGED place
    <3> USE <1>3, <2>1, <2>2 DEF TakeSlot, Goto, TypeOK, DiskOK, TasksOK
    <3>1. TaskInv'
      BY DEF TaskInv, Creating, Releasing
    <3>2. DiskInv'
      <4>1. \A id \in Ids : record[id] # "none" => slot[place[id]] = id
        BY DEF DiskInv
      <4>2. \A id \in Ids : slot[place[id]] = id /\ place[id] \in Slots => slot'[place[id]] = id
        OBVIOUS
      <4>3. QED
        BY <4>1, <4>2 DEF DiskInv, SlotInv
    <3>3. SlotInv'
      BY DEF SlotInv, TaskInv, Creating
    <3>4. QED
      BY <3>1, <3>2, <3>3
  <2>3. CASE /\ place' = [place EXCEPT ![job[t]] = place[job[t]] + 1]
             /\ UNCHANGED <<slot, taskVars>>
    <3> USE <1>3, <2>1, <2>3 DEF TakeSlot, taskVars, TypeOK, DiskOK, TasksOK
    <3>1. TaskInv'
      BY DEF TaskInv
    <3>2. \A u \in Tasks : pc[u] \in {"record", "rematch", "free"} => job[u] # job[t]
      BY DEF TaskInv, Creating, Releasing
    <3>3. DiskInv'
      BY <3>2 DEF DiskInv
    <3>4. SlotInv'
      BY <3>2 DEF SlotInv, Slots
    <3>5. QED
      BY <3>1, <3>3, <3>4
  <2>4. CASE Ends(t) /\ UNCHANGED <<slot, place>>
    BY <1>3, <2>4, EndingKeeps DEF TakeSlot, Ends, TypeOK, DiskOK, TasksOK
  <2>5. QED
    BY <1>3, <2>2, <2>3, <2>4 DEF TakeSlot
<1>4. ASSUME NEW t \in Tasks, WriteRecord(t) PROVE Claims'
  <2> USE <1>4 DEF WriteRecord, At, Goto, TypeOK, DiskOK, TasksOK
  <2>1. TaskInv'
    BY DEF TaskInv, Creating, Releasing
  <2>2. DiskInv'
    BY DEF DiskInv, TaskInv, Creating, Releasing
  <2>3. SlotInv'
    BY DEF SlotInv
  <2>4. QED
    BY <2>1, <2>2, <2>3
<1>5. ASSUME NEW t \in Tasks, MakeDirectory(t) PROVE Claims'
  <2> USE <1>5 DEF MakeDirectory, At, Goto, TypeOK, DiskOK, TasksOK
  <2>1. TaskInv'
    BY DEF TaskInv, Creating, Releasing
  <2>2. DiskInv'
    BY DEF DiskInv, TaskInv, Creating, Releasing
  <2>3. SlotInv'
    BY DEF SlotInv
  <2>4. QED
    BY <2>1, <2>2, <2>3
<1>6. ASSUME NEW t \in Tasks, WriteUpdate(t) PROVE Claims'
  <2> USE <1>6 DEF WriteUpdate, At, Goto, TypeOK, DiskOK, TasksOK
  <2>1. TaskInv'
    BY DEF TaskInv, Creating, Releasing
  <2>2. DiskInv'
    BY DEF DiskInv
  <2>3. SlotInv'
    BY DEF SlotInv
  <2>4. QED
    BY <2>1, <2>2, <2>3
<1>7. ASSUME NEW t \in Tasks, RenameUpdate(t) PROVE Claims'
  <2> USE <1>7 DEF RenameUpdate, At, Ends, TypeOK, DiskOK, TasksOK
  <2>1. TaskInv'
    BY DEF TaskInv, Creating, Releasing
  <2>2. DiskInv'
    BY DEF DiskInv, TaskInv, Creating
  <2>3. SlotInv'
    BY DEF SlotInv, DiskInv
  <2>4. QED
    BY <2>1, <2>2, <2>3
<1>8. ASSUME NEW t \in Tasks, ReadRecord(t) PROVE Claims'
  <2>1. CASE Ends(t)
    BY <1>8, <2>1, EndingKeeps DEF ReadRecord, Ends, diskVars, DiskOK, TasksOK, TypeOK, DiskOK, TasksOK
  <2>2. CASE Goto(t, "match") /\ record[job[t]] = "ready"
    <3> USE <1>8, <2>2 DEF ReadRecord, At, Goto, TypeOK, DiskOK, TasksOK, diskVars
    <3>1. \A u \in Tasks : pc[u] \in Creating => job[u] # job[t]
      BY DEF DiskInv, Creating
    <3>2. TaskInv'
      BY <3>1 DEF TaskInv, Creating, Releasing
    <3>3. DiskInv' /\ SlotInv'
      BY DEF DiskInv, SlotInv
    <3>4. QED
      BY <3>2, <3>3
  <2>3. QED
    BY <1>8, <2>1, <2>2 DEF ReadRecord
<1>9. ASSUME NEW t \in Tasks, MatchSlot(t) \/ RemovalFails(t) PROVE Claims'
  <2>1. CASE Ends(t)
    BY <1>9, <2>1, EndingKeeps DEF MatchSlot, RemovalFails, Ends, diskVars, DiskOK, TasksOK, TypeOK, DiskOK, TasksOK
  <2>2. CASE MatchSlot(t) /\ Goto(t, "remove")
    <3> USE <2>2 DEF MatchSlot, At, Goto, TypeOK, DiskOK, TasksOK, diskVars
    <3>1. TaskInv'
      BY DEF TaskInv, Creating, Releasing
    <3>2. DiskInv' /\ SlotInv'
      BY DEF DiskInv, SlotInv
    <3>3. QED
      BY <3>1, <3>2
  <2>3. QED
    BY <1>9, <2>1, <2>2 DEF MatchSlot, RemovalFails
<1>10. ASSUME NEW t \in Tasks, Removed(t) PROVE Claims'
  <2> USE <1>10 DEF Removed, At, Goto, TypeOK, DiskOK, TasksOK
  <2>1. TaskInv'
    BY DEF TaskInv, Creating, Releasing
  <2>2. DiskInv' /\ SlotInv'
    BY DEF DiskInv, SlotInv
  <2>3. QED
    BY <2>1, <2>2
<1>11. ASSUME NEW t \in Tasks, Recheck(t) PROVE Claims'
  <2>1. CASE Ends(t)
    BY <1>11, <2>1, EndingKeeps DEF Recheck, Ends, diskVars, DiskOK, TasksOK, TypeOK, DiskOK, TasksOK
  <2>2. CASE Goto(t, "unlink") /\ job[t] \notin payload
    <3> USE <1>11, <2>2 DEF Recheck, At, Goto, TypeOK, DiskOK, TasksOK, diskVars
    <3>1. TaskInv'
      BY DEF TaskInv, Creating, Releasing
    <3>2. DiskInv' /\ SlotInv'
      BY DEF DiskInv, SlotInv
    <3>3. QED
      BY <3>1, <3>2
  <2>3. QED
    BY <1>11, <2>1, <2>2 DEF Recheck
<1>12. ASSUME NEW t \in Tasks, UnlinkRecord(t) PROVE Claims'
  <2>1. CASE Ends(t) /\ UNCHANGED record
    BY <1>12, <2>1, EndingKeeps DEF UnlinkRecord, Ends, TypeOK, DiskOK, TasksOK
  <2>2. CASE /\ record[job[t]] # "none"
             /\ record' = [record EXCEPT ![job[t]] = "none"]
             /\ Goto(t, "rematch")
    <3> USE <1>12, <2>2 DEF UnlinkRecord, At, Goto, TypeOK, DiskOK, TasksOK
    <3>1. \A u \in Tasks : pc[u] \in {"rematch", "free"} => job[u] # job[t]
      BY DEF DiskInv
    <3>2. \A u \in Tasks : pc[u] \in Creating => job[u] # job[t]
      BY DEF TaskInv, Releasing
    <3>3. TaskInv'
      BY <3>1 DEF TaskInv, Creating, Releasing
    <3>4. DiskInv'
      BY <3>1, <3>2 DEF DiskInv, Creating
    <3>5. SlotInv'
      BY DEF SlotInv
    <3>6. QED
      BY <3>3, <3>4, <3>5
  <2>3. QED
    BY <1>12, <2>1, <2>2 DEF UnlinkRecord
<1>13. ASSUME NEW t \in Tasks, RematchSlot(t) PROVE Claims'
  <2>1. CASE Ends(t)
    BY <1>13, <2>1, EndingKeeps DEF RematchSlot, Ends, diskVars, DiskOK, TasksOK, TypeOK, DiskOK, TasksOK
  <2>2. CASE Goto(t, "free") /\ slot[place[job[t]]] = job[t]
    <3> USE <1>13, <2>2 DEF RematchSlot, At, Goto, TypeOK, DiskOK, TasksOK, diskVars
    <3>1. TaskInv'
      BY DEF TaskInv, Creating, Releasing
    <3>2. DiskInv'
      BY DEF DiskInv
    <3>3. SlotInv'
      BY DEF SlotInv
    <3>4. QED
      BY <3>1, <3>2, <3>3
  <2>3. QED
    BY <1>13, <2>1, <2>2 DEF RematchSlot
<1>14. ASSUME NEW t \in Tasks, UnlinkSlot(t) PROVE Claims'
  <2> USE <1>14 DEF UnlinkSlot, At, Ends, TypeOK, DiskOK, TasksOK
  <2>1. TaskInv'
    BY DEF TaskInv, Creating, Releasing
  <2>2. \A u \in Tasks : u # t /\ pc[u] \in {"record", "free"} => job[u] # job[t]
    BY DEF TaskInv, Creating, Releasing
  <2>3. \A id \in Ids : id # job[t] /\ slot[place[id]] = id /\ place[id] \in Slots
                          => slot'[place[id]] = id
    BY DEF SlotInv, DiskInv
  <2>4. DiskInv'
    BY <2>2, <2>3 DEF DiskInv, SlotInv
  <2>5. SlotInv'
    BY DEF SlotInv
  <2>6. QED
    BY <2>1, <2>4, <2>5
<1>15. ASSUME NEW t \in Tasks, Fails(t) PROVE Claims'
  BY <1>15, EndingKeeps DEF Fails, Ends, diskVars, DiskOK, TasksOK, TypeOK, DiskOK, TasksOK
<1>16. ASSUME NEW h \in Hosts, Dies(h) PROVE Claims'
  BY <1>16, EndingKeeps DEF Dies, diskVars, DiskOK, TasksOK, TypeOK, DiskOK, TasksOK
<1>17. ASSUME NEW id \in Ids, RemovedOutside(id) PROVE Claims'
  BY <1>17, EndingKeeps DEF RemovedOutside, taskVars, TypeOK, DiskOK, TasksOK
<1>18. CASE UNCHANGED vars
  BY <1>18, EndingKeeps DEF vars, TypeOK, DiskOK, TasksOK
<1> HIDE DEF Claims
<1>19. ASSUME NEW t \in Tasks, Step(t) PROVE Claims'
  BY <1>3, <1>4, <1>5, <1>6, <1>7, <1>8, <1>9, <1>10, <1>11, <1>12, <1>13, <1>14, <1>19
     DEF Step
<1>20. CASE Next
  BY <1>1, <1>2, <1>15, <1>16, <1>17, <1>19, <1>20 DEF Next, ReleaseByPath,
     ReleaseMissing, ReleaseScratch
<1>21. QED
  BY <1>18, <1>20

LEMMA InvInit == Init => TypeOK /\ TaskInv /\ DiskInv /\ SlotInv
BY TempDirsAssumption
   DEF Init, TypeOK, DiskOK, TasksOK, TaskInv, DiskInv, SlotInv, Slots, Creating, Releasing

THEOREM Invariants == Spec => [](TypeOK /\ Claims)
<1>1. TypeOK /\ Claims /\ [Next]_vars => TypeOK' /\ Claims'
  <2> SUFFICES ASSUME TypeOK, Claims, [Next]_vars PROVE TypeOK' /\ Claims'
    OBVIOUS
  <2>1. TypeOK'
    BY TasksInductive, DiskInductive DEF TypeOK
  <2>2. Claims'
    BY <2>1, InvInductive DEF Claims
  <2>3. QED
    BY <2>1, <2>2
<1>2. Init => TypeOK /\ Claims
  BY InvInit DEF Claims
<1>3. QED
  BY <1>1, <1>2, PTL DEF Spec

(* Types, for every number of processes, calls and slots *)
THEOREM TypeInvariant == Spec => []TypeOK
BY Invariants, PTL

(* A record keeps the slot it names, whatever races and dies around it *)
THEOREM Reserved == Spec => []RecordReserved
<1>1. TypeOK /\ Claims => RecordReserved
  BY DEF Claims, DiskInv, RecordReserved
<1>2. QED
  BY <1>1, Invariants, PTL

(* No directory without a record, also after any number of deaths *)
THEOREM Tracked == Spec => []PayloadTracked
<1>1. TypeOK /\ Claims => PayloadTracked
  BY DEF Claims, DiskInv, PayloadTracked
<1>2. QED
  BY <1>1, Invariants, PTL

(* Both at once *)
THEOREM Accounted == Spec => []DirectoriesAccounted
BY Reserved, Tracked, PTL DEF DirectoriesAccounted

(* Racing releases lose no slot.  The one step that could is a release that   *)
(* finds its reservation changed after it unlinked the record, and it never   *)
(* does: the slots of two directories differ, and it is alone at that point.  *)
LEMMA LostInductive ==
  TypeOK /\ TypeOK' /\ Claims /\ LostOnlyByFailure /\ [Next]_vars => LostOnlyByFailure'
<1> SUFFICES ASSUME TypeOK, TypeOK', Claims, LostOnlyByFailure, [Next]_vars
             PROVE  LostOnlyByFailure'
  OBVIOUS
<1> USE TempDirsAssumption DEF TypeOK, DiskOK, TasksOK
<1>0. ASSUME abandoned \subseteq abandoned', slot' = slot, record' = record,
             \A t \in Tasks : \/ pc[t] \notin {"record", "rematch", "free"}
                              \/ job[t] \in abandoned'
                              \/ pc'[t] \in {"record", "rematch", "free"} /\ job'[t] = job[t]
      PROVE  LostOnlyByFailure'
  BY <1>0 DEF LostOnlyByFailure
<1>1. ASSUME NEW t \in Tasks,
             \/ \E id \in Ids, type \in {"scratch", "retained"} : Create(t, id, type)
             \/ \E id \in Ids : ReleaseByPath(t, id) \/ ReleaseMissing(t, id) \/ ReleaseScratch(t, id)
             \/ MakeDirectory(t) \/ WriteUpdate(t) \/ ReadRecord(t) \/ MatchSlot(t)
             \/ Removed(t) \/ RemovalFails(t) \/ Recheck(t)
      PROVE  LostOnlyByFailure'
  BY <1>0, <1>1 DEF Create, ReleaseByPath, ReleaseMissing, ReleaseScratch, Release, MakeDirectory, WriteUpdate, ReadRecord, MatchSlot,
     Removed, RemovalFails, Recheck, At, Goto, Ends, diskVars
<1>2. ASSUME NEW t \in Tasks, TakeSlot(t) PROVE LostOnlyByFailure'
  <2>1. CASE slot' = slot
    BY <1>0, <1>2, <2>1 DEF TakeSlot, At, Goto, Ends, taskVars
  <2>2. CASE slot' = [slot EXCEPT ![place[job[t]]] = job[t]] /\ Goto(t, "record")
    BY <1>2, <2>2 DEF TakeSlot, At, Goto, LostOnlyByFailure
  <2>3. QED
    BY <1>2, <2>1, <2>2 DEF TakeSlot
<1>3. ASSUME NEW t \in Tasks, WriteRecord(t) PROVE LostOnlyByFailure'
  BY <1>3 DEF WriteRecord, At, Goto, LostOnlyByFailure
<1>4. ASSUME NEW t \in Tasks, RenameUpdate(t) PROVE LostOnlyByFailure'
  BY <1>4 DEF RenameUpdate, At, Ends, LostOnlyByFailure
<1>5. ASSUME NEW t \in Tasks, UnlinkRecord(t) PROVE LostOnlyByFailure'
  <2>1. CASE record' = record
    BY <1>0, <1>5, <2>1 DEF UnlinkRecord, At, Goto, Ends
  <2>2. CASE record' = [record EXCEPT ![job[t]] = "none"] /\ Goto(t, "rematch")
    BY <1>5, <2>2 DEF UnlinkRecord, At, Goto, LostOnlyByFailure
  <2>3. QED
    BY <1>5, <2>1, <2>2 DEF UnlinkRecord
<1>6. ASSUME NEW t \in Tasks, RematchSlot(t) PROVE LostOnlyByFailure'
  <2>1. CASE slot[place[job[t]]] = job[t]
    BY <1>0, <1>6, <2>1 DEF RematchSlot, At, Goto, diskVars
  <2>2. CASE slot[place[job[t]]] # job[t]
    <3>1. \A k \in Slots : slot[k] # job[t]
      BY <1>6, <2>2 DEF RematchSlot, At, Claims, SlotInv
    <3>2. QED
      BY <1>6, <2>2, <3>1 DEF RematchSlot, At, Ends, diskVars, LostOnlyByFailure
  <2>3. QED
    BY <2>1, <2>2
<1>7. ASSUME NEW t \in Tasks, UnlinkSlot(t) PROVE LostOnlyByFailure'
  <2>1. \A k \in Slots : slot[k] = job[t] => k = place[job[t]]
    BY <1>7 DEF UnlinkSlot, At, Claims, SlotInv
  <2>2. QED
    BY <1>7, <2>1 DEF UnlinkSlot, At, Ends, LostOnlyByFailure
<1>8. ASSUME NEW t \in Tasks, Fails(t) PROVE LostOnlyByFailure'
  BY <1>0, <1>8 DEF Fails, Ends, diskVars
<1>9. ASSUME NEW h \in Hosts, Dies(h) PROVE LostOnlyByFailure'
  BY <1>0, <1>9 DEF Dies, diskVars
<1>10. ASSUME NEW id \in Ids, RemovedOutside(id) PROVE LostOnlyByFailure'
  BY <1>0, <1>10 DEF RemovedOutside, taskVars
<1>11. CASE UNCHANGED vars
  BY <1>0, <1>11 DEF vars
<1>12. QED
  BY <1>1, <1>2, <1>3, <1>4, <1>5, <1>6, <1>7, <1>8, <1>9, <1>10, <1>11 DEF Next, Step

THEOREM SlotsLostOnlyByFailure == Spec => []LostOnlyByFailure
<1>1. Init => LostOnlyByFailure
  BY DEF Init, LostOnlyByFailure
<1>2. TypeOK /\ TypeOK' /\ Claims /\ LostOnlyByFailure /\ [Next]_vars => LostOnlyByFailure'
  BY LostInductive
<1>3. QED
  BY <1>1, <1>2, Invariants, PTL DEF Spec

-----------------------------------------------------------------------------
(* TempDirs implements DirectoryPool *)
Held == {slot[k] : k \in Slots} \ {None}

(* A free slot leaves room in the pool: a choice of one slot for each holder  *)
(* is injective and misses it.                                                *)
LEMMA FreeSlotLeavesRoom ==
  ASSUME DiskOK, NEW k \in Slots, slot[k] = None
  PROVE  Cardinality(Held) < MaxSlots
<1> DEFINE Rest == Slots \ {k}
           f == [id \in Held |-> CHOOSE j \in Rest : slot[j] = id]
<1>1. IsFiniteSet(Slots) /\ Cardinality(Slots) = MaxSlots
  BY TempDirsAssumption, FS_Interval DEF Slots
<1>2. IsFiniteSet(Rest) /\ Cardinality(Rest) = MaxSlots - 1
  BY <1>1, FS_RemoveElement
<1>3. \A id \in Held : f[id] \in Rest /\ slot[f[id]] = id
  BY DEF Held
<1>4. f \in Injection(Held, Rest)
  <2>1. f \in [Held -> Rest]
    BY <1>3
  <2>2. \A a, b \in Held : f[a] = f[b] => a = b
    BY <1>3
  <2>3. QED
    BY <2>1, <2>2 DEF Injection, IsInjective
<1>5. IsFiniteSet(Held) /\ Cardinality(Held) <= Cardinality(Rest)
  <2> HIDE DEF f, Rest
  <2>1. QED
    BY <1>2, <1>4, FS_Injection
<1>6. Cardinality(Held) \in Nat
  BY <1>5, FS_CardinalityType
<1>7. QED
  BY <1>2, <1>5, <1>6, TempDirsAssumption

PoolStep == [Pool!PoolNext]_(Pool!poolVars)

LEMMA SameCardinality == \A S : Pool!Cardinality(S) = Cardinality(S)
BY DEF Pool!Cardinality, Cardinality

LEMMA StepImplements ==
  ASSUME TypeOK, Claims, [Next]_vars
  PROVE  PoolStep
<1> USE DEF PoolStep
<1>0. ASSUME slot' = slot, payload' = payload PROVE PoolStep
  BY <1>0 DEF Pool!poolVars
<1>1. ASSUME slot' = slot, NEW id \in Ids, payload' = payload \ {id} PROVE PoolStep
  BY <1>1 DEF Pool!PoolNext, Pool!Vanish
<1>2. ASSUME NEW t \in Tasks, TakeSlot(t) PROVE PoolStep
  <2>a. PICK d \in Ids : d = job[t]
    BY <1>2 DEF TakeSlot, At, TypeOK, TasksOK
  <2> DEFINE k == place[d]
  <2>1. d \in Ids /\ record[d] = "none" /\ \A j \in Slots : slot[j] # d
    BY <1>2, <2>a DEF TakeSlot, At, TypeOK, TasksOK, Claims, DiskInv, SlotInv
  <2>2. CASE slot' = slot /\ payload' = payload
    BY <1>0, <2>2
  <2>3. CASE k \in Slots /\ slot[k] = None /\ slot' = [slot EXCEPT ![k] = d] /\ payload' = payload
    <3>1. Cardinality(Held) < MaxSlots
      BY <2>3, FreeSlotLeavesRoom DEF TypeOK
    <3>2. Held' = Held \cup {d} /\ d \notin Held
      BY <2>1, <2>3, TempDirsAssumption DEF Held, TypeOK, DiskOK
    <3>3. Pool!Reserve(d)
      BY <2>3, <3>1, <3>2, SameCardinality DEF Pool!Reserve, Held
    <3>4. QED
      BY <2>1, <3>3 DEF Pool!PoolNext
  <2>4. QED
    BY <1>2, <2>a, <2>2, <2>3 DEF TakeSlot
<1>3. ASSUME NEW t \in Tasks, MakeDirectory(t) PROVE PoolStep
  <2>1. job[t] \in Ids /\ record[job[t]] = "allocating"
    BY <1>3 DEF MakeDirectory, At, TypeOK, TasksOK, Claims, DiskInv
  <2>2. job[t] \in Held
    BY <2>1, TempDirsAssumption DEF Held, Claims, DiskInv, SlotInv
  <2>3. Pool!Appear(job[t])
    BY <1>3, <2>2 DEF MakeDirectory, Pool!Appear, Held
  <2>4. QED
    BY <2>1, <2>3 DEF Pool!PoolNext
<1>4. ASSUME NEW t \in Tasks, UnlinkSlot(t) PROVE PoolStep
  <2>a. PICK d \in Ids : d = job[t]
    BY <1>4 DEF UnlinkSlot, At, TypeOK, TasksOK
  <2> DEFINE k == place[d]
  <2>1. d \in Ids /\ record[d] = "none" /\ k \in Slots /\ slot[k] = d
    BY <1>4, <2>a DEF UnlinkSlot, At, TypeOK, TasksOK, Claims, DiskInv, SlotInv
  <2>2. d \in Held /\ d \notin payload
    BY <2>1, TempDirsAssumption DEF Held, Claims, DiskInv
  <2>3. \A j \in Slots : slot[j] = d => j = k
    BY <2>1, TempDirsAssumption DEF Claims, SlotInv
  <2>4. slot' = [slot EXCEPT ![k] = None] /\ payload' = payload
    BY <1>4, <2>a DEF UnlinkSlot
  <2>5. Held' = Held \ {d}
    BY <2>1, <2>3, <2>4 DEF Held, TypeOK, DiskOK
  <2>6. Pool!Free(d)
    BY <2>2, <2>4, <2>5 DEF Pool!Free, Held
  <2>7. QED
    BY <2>1, <2>6 DEF Pool!PoolNext
<1>5. ASSUME NEW t \in Tasks, Removed(t) PROVE PoolStep
  BY <1>1, <1>5 DEF Removed, At, TypeOK, TasksOK
<1>6. ASSUME NEW t \in Tasks,
             \/ WriteRecord(t) \/ WriteUpdate(t) \/ RenameUpdate(t) \/ ReadRecord(t)
             \/ MatchSlot(t) \/ RemovalFails(t) \/ Recheck(t) \/ UnlinkRecord(t)
             \/ RematchSlot(t) \/ Fails(t)
      PROVE  PoolStep
  BY <1>0, <1>6 DEF WriteRecord, WriteUpdate, RenameUpdate, ReadRecord, MatchSlot,
     RemovalFails, Recheck, UnlinkRecord, RematchSlot, Fails, diskVars
<1>7. ASSUME NEW t \in Tasks, NEW id \in Ids, NEW type \in {"scratch", "retained"},
             Create(t, id, type)
      PROVE  PoolStep
  BY <1>0, <1>7 DEF Create
<1>8. ASSUME NEW t \in Tasks, NEW id \in Ids, NEW auto \in BOOLEAN, Release(t, id, auto)
      PROVE  PoolStep
  BY <1>0, <1>8 DEF Release, diskVars
<1>9. ASSUME NEW h \in Hosts, Dies(h) PROVE PoolStep
  BY <1>0, <1>9 DEF Dies, diskVars
<1>10. ASSUME NEW id \in Ids, RemovedOutside(id) PROVE PoolStep
  BY <1>1, <1>10 DEF RemovedOutside
<1>11. CASE UNCHANGED vars
  BY <1>0, <1>11 DEF vars
<1> HIDE DEF PoolStep
<1>12. ASSUME NEW t \in Tasks, Step(t) PROVE PoolStep
  BY <1>2, <1>3, <1>4, <1>5, <1>6, <1>12 DEF Step
<1>13. CASE Next
  BY <1>6, <1>7, <1>8, <1>9, <1>10, <1>12, <1>13 DEF Next, ReleaseByPath,
     ReleaseMissing, ReleaseScratch
<1>14. QED
  BY <1>11, <1>13

(* The reservations and directories of TempDirs are a DirectoryPool: never    *)
(* more than MaxSlots, a directory only under its reservation, a reservation  *)
(* freed only after its directory.                                            *)
THEOREM Implements == Spec => ImplementsPool
<1>1. Init => Pool!PoolInit
  BY DEF Init, Pool!PoolInit
<1>2. TypeOK /\ Claims /\ [Next]_vars => PoolStep
  BY StepImplements
<1>3. QED
  BY <1>1, <1>2, Invariants, PTL DEF Spec, PoolStep, ImplementsPool, Pool!PoolSpec

-----------------------------------------------------------------------------
(* A file that tools write and edit *)

Marks == Calls \cup ({"outside"} \X (0 .. MaxOutside))
Nodes == Marks \cup {"before"}
Answers == {"ok", "saved", "exists", "failed", "aborted", "timeout", "died"}

(* A call that edits has read the file and will replace it; one that holds the path's lock edits,
   writes, or looks what the language servers say *)
Editing == {"updating", "asking", "finishing", "staging", "staged"}
Holding == Editing \cup {"writing", "saving", "reporting"}

EditTyped ==
  /\ file # None => file \in [node : Nodes, marks : SUBSET Marks]
  /\ chain \in [Edit!Threads -> Seq(Calls)]
  /\ callPc \in [Calls -> Holding \cup {"none", "queued", "done"}]
  /\ read \in [Calls -> (SUBSET Marks) \cup {None}]
  /\ \A c \in Calls : callPc[c] \in Editing => read[c] \in SUBSET Marks
  /\ turns \in [Calls -> Nat] /\ sent \in [Calls -> Nat]
  /\ answer \in [Calls -> Answers \cup {None}]
  /\ \A c \in Calls : callPc[c] = "done" <=> answer[c] # None
  /\ \A c \in Calls : callPc[c] \in {"none", "queued", "updating"} => turns[c] = 0 /\ sent[c] = 0
  /\ \A c \in Calls : callPc[c] = "asking" => turns[c] = sent[c] /\ turns[c] <= MaxCorrections
  /\ outside \in 0 .. MaxOutside /\ faults \in Nat

(* The queue of a thread: its calls that wait and before them the one that does not *)
ChainInv ==
  /\ \A t \in Edit!Threads : \A k \in 1 .. Len(chain[t]) :
       /\ ThreadOf[chain[t][k]] = t
       /\ callPc[chain[t][k]] = "queued" \/ (k = 1 /\ callPc[chain[t][1]] \in Holding)
       /\ \A j \in 1 .. Len(chain[t]) : chain[t][j] = chain[t][k] => j = k
  /\ \A c \in Calls : callPc[c] \in Holding \cup {"queued"} =>
       \E k \in 1 .. Len(chain[ThreadOf[c]]) : chain[ThreadOf[c]][k] = c

(* What lies beside the file *)
Left == {c \in staging : callPc[c] = "done"}
StageInv ==
  /\ staging \subseteq Calls /\ \A c \in staging : callPc[c] \in {"staged", "done"}
  /\ IsFiniteSet(Left) /\ Cardinality(Left) <= faults

(* A call's mark is one of a call that will be told, or was told or could not be, that it is
   done, in the file and in what an edit has read.  What a write has created has nobody's
   change before its text comes.  And what is in the file while a call edits was read by it, or
   came since from another thread, or back *)
Told(c) == callPc[c] = "reporting" \/ answer[c] \in {"ok", "died"}
Known(m, c) == m \in read[c] \/ ThreadOf[c] # ThreadOf[m] \/ Edit!PutBack(m, c)
MarkInv ==
  /\ file # None => \A m \in Calls : m \in file.marks => Told(m)
  /\ \A c \in Calls : callPc[c] \in Editing => \A m \in Calls : m \in read[c] => Told(m)
  /\ \A c \in Calls : file # None /\ file.node = c /\ callPc[c] = "writing" =>
       \A m \in Calls : m \notin file.marks
  /\ \A c \in Calls : callPc[c] \in Editing /\ file # None =>
       \A m \in Calls : m \in file.marks => Known(m, c)

EditInv == EditTyped /\ ChainInv /\ StageInv /\ MarkInv

LEMMA ThreadTyped == \A c \in Calls : ThreadOf[c] \in Edit!Threads
BY DEF Edit!Threads

LEMMA EditInit == Edit!Init => EditInv
<1> SUFFICES ASSUME Edit!Init PROVE EditInv
  OBVIOUS
<1>1. EditTyped
  <2>1. file # None => file = [node |-> "before", marks |-> {}]
    BY DEF Edit!Init
  <2>2. [node |-> "before", marks |-> {}] \in [node : Nodes, marks : SUBSET Marks]
    BY DEF Nodes
  <2>3. chain \in [Edit!Threads -> Seq(Calls)]
    BY DEF Edit!Init
  <2>4. outside \in 0 .. MaxOutside /\ faults \in Nat
    BY EditAssumption DEF Edit!Init
  <2>5. \A c \in Calls : callPc[c] = "none" /\ answer[c] = None /\ turns[c] = 0 /\ sent[c] = 0
    BY DEF Edit!Init
  <2>6. /\ callPc \in [Calls -> Holding \cup {"none", "queued", "done"}]
        /\ turns \in [Calls -> Nat] /\ sent \in [Calls -> Nat]
        /\ read \in [Calls -> (SUBSET Marks) \cup {None}]
        /\ answer \in [Calls -> Answers \cup {None}]
    BY DEF Edit!Init
  <2>7. \A c \in Calls : callPc[c] \notin Editing
    BY <2>5 DEF Editing
  <2>8. QED
    BY <2>1, <2>2, <2>3, <2>4, <2>5, <2>6, <2>7 DEF EditTyped
<1>2. ChainInv
  BY ThreadTyped DEF Edit!Init, ChainInv, Holding, Editing
<1>3. StageInv
  <2>1. Left = {}
    BY DEF Edit!Init, Left
  <2>2. QED
    BY <2>1, FS_EmptySet DEF Edit!Init, StageInv
<1>4. MarkInv
  BY DEF Edit!Init, MarkInv, Editing
<1>5. QED
  BY <1>1, <1>2, <1>3, <1>4 DEF EditInv

-----------------------------------------------------------------------------
(* The lock of the path: whoever does more than wait is the first of its thread *)

First(c) == Len(chain[ThreadOf[c]]) > 0 /\ chain[ThreadOf[c]][1] = c

LEMMA HoldingIsFirst ==
  ASSUME EditTyped, ChainInv, NEW c \in Calls, callPc[c] \in Holding PROVE First(c)
<1>1. PICK k \in 1 .. Len(chain[ThreadOf[c]]) : chain[ThreadOf[c]][k] = c
  BY DEF ChainInv
<1>2. k = 1
  BY <1>1, ThreadTyped DEF ChainInv, Holding, Editing
<1>3. QED
  BY <1>1, <1>2, ThreadTyped DEF First, EditTyped

LEMMA EnteringIsFirst ==
  ASSUME EditTyped, ChainInv, NEW c \in Calls, Edit!Enters(c) PROVE First(c)
<1>1. PICK k \in 1 .. Len(chain[ThreadOf[c]]) : chain[ThreadOf[c]][k] = c
  BY DEF ChainInv, Edit!Enters
<1>2. chain[ThreadOf[c]] \in Seq(Calls) /\ Len(chain[ThreadOf[c]]) > 0
  BY <1>1, ThreadTyped DEF EditTyped
<1>3. Head(chain[ThreadOf[c]]) = chain[ThreadOf[c]][1]
  BY <1>2
<1>4. QED
  BY <1>2, <1>3 DEF First, Edit!Enters, Edit!Holds

LEMMA GoesKeepsChain ==
  ASSUME EditTyped, ChainInv, NEW c \in Calls, First(c), NEW to \in Holding, Edit!Goes(c, to),
         UNCHANGED chain
  PROVE  ChainInv'
<1>1. callPc'[c] \in Holding /\ \A d \in Calls : d # c => callPc'[d] = callPc[d]
  BY DEF Edit!Goes, EditTyped
<1>2. ASSUME NEW t \in Edit!Threads, NEW k \in 1 .. Len(chain[t]), chain[t][k] = c
      PROVE  t = ThreadOf[c] /\ k = 1
  <2>1. t = ThreadOf[c]
    BY <1>2 DEF ChainInv
  <2>2. 1 \in 1 .. Len(chain[t]) /\ chain[t][1] = chain[t][k]
    BY <1>2, <2>1 DEF First, EditTyped
  <2>3. QED
    BY <2>1, <2>2 DEF ChainInv
<1>3. \A t \in Edit!Threads : \A k \in 1 .. Len(chain[t]) : chain[t][k] \in Calls
  BY DEF EditTyped
<1>4. callPc[c] \in Holding \cup {"queued"}
  BY ThreadTyped DEF First, ChainInv
<1>5. \A t \in Edit!Threads : \A k \in 1 .. Len(chain[t]) :
        callPc'[chain[t][k]] = "queued" \/ (k = 1 /\ callPc'[chain[t][1]] \in Holding)
  BY <1>1, <1>2, <1>3 DEF ChainInv
<1>6. \A d \in Calls : callPc'[d] \in Holding \cup {"queued"} =>
        \E k \in 1 .. Len(chain[ThreadOf[d]]) : chain[ThreadOf[d]][k] = d
  BY <1>1, <1>4 DEF ChainInv
<1>7. QED
  BY <1>5, <1>6 DEF ChainInv

LEMMA AnswerKeepsChain ==
  ASSUME EditTyped, ChainInv, NEW c \in Calls, First(c), NEW a, Edit!Answer(c, a)
  PROVE  ChainInv' /\ chain' \in [Edit!Threads -> Seq(Calls)]
<1> DEFINE t == ThreadOf[c]
           s == chain[t]
<1>1. callPc'[c] = "done" /\ \A d \in Calls : d # c => callPc'[d] = callPc[d]
  BY DEF Edit!Answer, Edit!Goes, EditTyped
<1>2. t \in Edit!Threads /\ s \in Seq(Calls) /\ Len(s) \in Nat \ {0} /\ s[1] = c
  BY ThreadTyped DEF First, EditTyped
<1>3. /\ Tail(s) \in Seq(Calls) /\ Len(Tail(s)) = Len(s) - 1
      /\ \A k \in 1 .. Len(s) - 1 : Tail(s)[k] = s[k + 1]
  BY <1>2
<1>4. /\ chain' \in [Edit!Threads -> Seq(Calls)] /\ chain'[t] = Tail(s)
      /\ \A u \in Edit!Threads : u # t => chain'[u] = chain[u]
  BY <1>2, <1>3 DEF Edit!Answer, EditTyped
<1>5. /\ Len(chain'[t]) = Len(s) - 1
      /\ \A k \in 1 .. Len(s) - 1 : /\ k + 1 \in 1 .. Len(s) /\ k + 1 # 1
                                   /\ chain'[t][k] = s[k + 1] /\ s[k + 1] \in Calls
                                   /\ s[k + 1] # c
  BY <1>2, <1>3, <1>4 DEF ChainInv
<1>6. ASSUME NEW u \in Edit!Threads, NEW k \in 1 .. Len(chain'[u])
      PROVE  /\ ThreadOf[chain'[u][k]] = u
             /\ callPc'[chain'[u][k]] = "queued" \/ (k = 1 /\ callPc'[chain'[u][1]] \in Holding)
             /\ \A j \in 1 .. Len(chain'[u]) : chain'[u][j] = chain'[u][k] => j = k
  <2>1. CASE u = t
    <3>1. k \in 1 .. Len(s) - 1 /\ k + 1 \in 1 .. Len(s) /\ k + 1 # 1
      BY <1>5, <2>1
    <3>2. ThreadOf[s[k + 1]] = t /\ callPc[s[k + 1]] = "queued"
      BY <1>2, <3>1 DEF ChainInv
    <3>3. ASSUME NEW j \in 1 .. Len(chain'[u]), chain'[u][j] = chain'[u][k] PROVE j = k
      <4>1. j \in 1 .. Len(s) - 1 /\ j + 1 \in 1 .. Len(s) /\ s[j + 1] = s[k + 1]
        BY <1>5, <2>1, <3>1, <3>3
      <4>2. j + 1 = k + 1
        BY <1>2, <3>1, <4>1 DEF ChainInv
      <4>3. QED
        BY <4>2
    <3>4. chain'[u][k] = s[k + 1] /\ s[k + 1] \in Calls /\ s[k + 1] # c
      BY <1>5, <2>1, <3>1
    <3>5. callPc'[s[k + 1]] = "queued"
      BY <1>1, <3>2, <3>4
    <3>6. QED
      BY <2>1, <3>2, <3>3, <3>4, <3>5
  <2>2. CASE u # t
    <3>1. chain'[u] = chain[u] /\ k \in 1 .. Len(chain[u]) /\ chain[u] \in Seq(Calls)
      BY <1>4, <2>2 DEF EditTyped
    <3>2. ThreadOf[chain[u][k]] = u /\ chain[u][k] \in Calls /\ chain[u][k] # c
      BY <2>2, <3>1 DEF ChainInv
    <3>3. callPc'[chain[u][k]] = callPc[chain[u][k]]
      BY <1>1, <3>2
    <3>4. \A j \in 1 .. Len(chain[u]) : chain[u][j] = chain[u][k] => j = k
      BY <3>1 DEF ChainInv
    <3>5. callPc[chain[u][k]] = "queued" \/ (k = 1 /\ callPc[chain[u][k]] \in Holding)
      BY <3>1 DEF ChainInv
    <3>6. QED
      BY <3>1, <3>2, <3>3, <3>4, <3>5
  <2>3. QED
    BY <2>1, <2>2
<1>7. ASSUME NEW d \in Calls, callPc'[d] \in Holding \cup {"queued"}
      PROVE  \E k \in 1 .. Len(chain'[ThreadOf[d]]) : chain'[ThreadOf[d]][k] = d
  <2>1. d # c /\ callPc[d] \in Holding \cup {"queued"}
    BY <1>1, <1>7 DEF Holding, Editing
  <2>2. PICK k \in 1 .. Len(chain[ThreadOf[d]]) : chain[ThreadOf[d]][k] = d
    BY <2>1 DEF ChainInv
  <2>3. CASE ThreadOf[d] = t
    <3>1. k # 1 /\ k - 1 \in 1 .. Len(s) - 1 /\ s[(k - 1) + 1] = d
      BY <1>2, <2>1, <2>2, <2>3
    <3>2. chain'[ThreadOf[d]][k - 1] = d /\ k - 1 \in 1 .. Len(chain'[ThreadOf[d]])
      BY <1>5, <2>3, <3>1
    <3>3. QED
      BY <3>2
  <2>4. CASE ThreadOf[d] # t
    BY <1>4, <2>2, <2>4, ThreadTyped
  <2>5. QED
    BY <2>3, <2>4
<1>8. QED
  BY <1>4, <1>6, <1>7 DEF ChainInv

(* What is in the file, and what was read from it, stays as it is when neither changes *)
LEMMA MarksStay ==
  ASSUME EditTyped, MarkInv, file' = file, read' = read,
         \A c \in Calls : /\ callPc'[c] \in Editing => callPc[c] \in Editing
                          /\ callPc'[c] = "writing" => callPc[c] = "writing"
                          /\ Told(c) => callPc'[c] = "reporting" \/ answer'[c] \in {"ok", "died"}
  PROVE  MarkInv'
<1>1. \A m \in Calls, c \in Calls : Known(m, c) => Known(m, c)'
  BY DEF Known, Edit!PutBack
<1>2. QED
  BY <1>1 DEF MarkInv, Told

LEMMA LeftGrows ==
  ASSUME IsFiniteSet(Left), Cardinality(Left) <= faults, faults \in Nat, faults' \in Nat,
         NEW c, \/ Left' \subseteq Left /\ faults <= faults'
                \/ Left' \subseteq Left \cup {c} /\ faults' = faults + 1
  PROVE  IsFiniteSet(Left)' /\ (Cardinality(Left) <= faults)'
<1>1. CASE Left' \subseteq Left /\ faults <= faults'
  <2>1. /\ IsFiniteSet(Left') /\ Cardinality(Left') <= Cardinality(Left)
        /\ Cardinality(Left) \in Nat /\ Cardinality(Left') \in Nat
    BY <1>1, FS_Subset, FS_CardinalityType
  <2>2. QED
    BY <1>1, <2>1
<1>2. CASE Left' \subseteq Left \cup {c} /\ faults' = faults + 1
  <2>1. /\ IsFiniteSet(Left \cup {c}) /\ Cardinality(Left) \in Nat
        /\ Cardinality(Left \cup {c}) \in Nat
        /\ Cardinality(Left \cup {c}) <= Cardinality(Left) + 1
    <3>1. IsFiniteSet(Left \cup {c})
      BY FS_AddElement
    <3>2. Cardinality(Left \cup {c}) \in {Cardinality(Left), Cardinality(Left) + 1}
      BY FS_AddElement
    <3>3. QED
      BY <3>1, <3>2, FS_CardinalityType
  <2>2. /\ IsFiniteSet(Left') /\ Cardinality(Left') <= Cardinality(Left \cup {c})
        /\ Cardinality(Left') \in Nat
    BY <1>2, <2>1, FS_Subset, FS_CardinalityType
  <2>3. QED
    BY <1>2, <2>1, <2>2
<1>3. QED
  BY <1>1, <1>2

(* A call has its answer, and leaves beside the file what it could not remove *)
LEMMA AnswerKeeps ==
  ASSUME EditInv, NEW c \in Calls, First(c), NEW a \in Answers, Edit!Answer(c, a),
         callPc[c] = "reporting" => a = "ok",
         UNCHANGED <<file, read, turns, sent, outside>>,
         faults' \in {faults, faults + 1},
         \/ staging' = staging \ {c}
         \/ staging' = staging /\ (c \notin staging \/ faults' = faults + 1)
  PROVE  EditInv'
<1>1. /\ callPc' = [callPc EXCEPT ![c] = "done"] /\ answer' = [answer EXCEPT ![c] = a]
      /\ None \notin Answers /\ callPc[c] # "done"
      /\ callPc'[c] = "done" /\ \A d \in Calls : d # c => callPc'[d] = callPc[d]
  <2>1. 1 \in 1 .. Len(chain[ThreadOf[c]]) /\ chain[ThreadOf[c]][1] = c
    BY ThreadTyped DEF First, EditInv, EditTyped
  <2>2. callPc[c] # "done"
    BY <2>1, ThreadTyped DEF EditInv, ChainInv, Holding, Editing
  <2>3. QED
    BY <2>2, EditAssumption DEF Edit!Answer, Edit!Goes, Answers, EditInv, EditTyped
<1>2. ChainInv' /\ chain' \in [Edit!Threads -> Seq(Calls)]
  BY AnswerKeepsChain DEF EditInv
<1>3. EditTyped'
  <2>1. faults' \in Nat
    BY DEF EditInv, EditTyped
  <2>2. callPc' \in [Calls -> Holding \cup {"none", "queued", "done"}]
    BY <1>1 DEF EditInv, EditTyped
  <2>3. /\ answer' \in [Calls -> Answers \cup {None}]
        /\ \A d \in Calls : callPc'[d] = "done" <=> answer'[d] # None
    BY <1>1 DEF EditInv, EditTyped
  <2>4. \A d \in Calls : /\ callPc'[d] \in Editing => callPc[d] \in Editing
                         /\ callPc'[d] # "done" => callPc'[d] = callPc[d]
    BY <1>1 DEF Editing
  <2>5. QED
    BY <1>2, <2>1, <2>2, <2>3, <2>4 DEF EditInv, EditTyped, Editing
<1>4. StageInv'
  <2>1. staging' \subseteq Calls /\ \A d \in staging' : callPc'[d] \in {"staged", "done"}
    BY <1>1 DEF EditInv, StageInv
  <2>2. \/ Left' \subseteq Left /\ faults <= faults'
        \/ Left' \subseteq Left \cup {c} /\ faults' = faults + 1
    BY <1>1 DEF Left, EditInv, StageInv, EditTyped
  <2>3. QED
    BY <2>1, <2>2, <1>3, LeftGrows DEF EditInv, EditTyped, StageInv
<1>5. MarkInv'
  <2>1. \A d \in Calls : /\ callPc'[d] \in Editing => callPc[d] \in Editing
                         /\ callPc'[d] = "writing" => callPc[d] = "writing"
                         /\ Told(d) => callPc'[d] = "reporting" \/ answer'[d] \in {"ok", "died"}
    BY <1>1 DEF EditInv, EditTyped, Editing, Told, Answers
  <2>2. QED
    BY <2>1, MarksStay DEF EditInv
<1>6. QED
  BY <1>2, <1>3, <1>4, <1>5 DEF EditInv

(* A call goes on with the lock: what is left of the invariant then *)
LEMMA GoesKeeps ==
  ASSUME EditInv, NEW c \in Calls, First(c), NEW to \in Holding, Edit!Goes(c, to),
         UNCHANGED <<chain, answer, outside>>, faults' \in {faults, faults + 1},
         \/ staging' = staging /\ (c \notin staging \/ to = "staged")
         \/ staging' = staging \ {c}
         \/ staging' = staging \cup {c} /\ to = "staged",
         turns' \in [Calls -> Nat], sent' \in [Calls -> Nat],
         \A d \in Calls : d # c => turns'[d] = turns[d] /\ sent'[d] = sent[d],
         to = "updating" => turns'[c] = 0 /\ sent'[c] = 0,
         to = "asking" => turns'[c] = sent'[c] /\ turns'[c] <= MaxCorrections,
         file' # None => file' \in [node : Nodes, marks : SUBSET Marks],
         read' \in [Calls -> (SUBSET Marks) \cup {None}],
         \A d \in Calls : d # c => read'[d] = read[d],
         to \in Editing => read'[c] \in SUBSET Marks
  PROVE  EditTyped' /\ ChainInv' /\ StageInv'
<1>1. /\ callPc' = [callPc EXCEPT ![c] = to] /\ callPc[c] # "done"
      /\ to \notin {"done", "none", "queued"}
      /\ callPc'[c] = to /\ \A d \in Calls : d # c => callPc'[d] = callPc[d]
  <2>1. 1 \in 1 .. Len(chain[ThreadOf[c]]) /\ chain[ThreadOf[c]][1] = c
    BY ThreadTyped DEF First, EditInv, EditTyped
  <2>2. callPc[c] # "done"
    BY <2>1, ThreadTyped DEF EditInv, ChainInv, Holding, Editing
  <2>3. QED
    BY <2>2 DEF Edit!Goes, EditInv, EditTyped, Holding, Editing
<1>2. ChainInv'
  BY GoesKeepsChain DEF EditInv
<1>3. EditTyped'
  <2>1. faults' \in Nat
    BY DEF EditInv, EditTyped
  <2>2. callPc' \in [Calls -> Holding \cup {"none", "queued", "done"}]
    BY <1>1 DEF EditInv, EditTyped
  <2>3. \A d \in Calls : callPc'[d] = "done" <=> answer'[d] # None
    BY <1>1 DEF EditInv, EditTyped
  <2>4. \A d \in Calls : callPc'[d] \in Editing => read'[d] \in SUBSET Marks
    BY <1>1 DEF EditInv, EditTyped
  <2>5. \A d \in Calls :
          /\ callPc'[d] \in {"none", "queued", "updating"} => turns'[d] = 0 /\ sent'[d] = 0
          /\ callPc'[d] = "asking" => turns'[d] = sent'[d] /\ turns'[d] <= MaxCorrections
    BY <1>1 DEF EditInv, EditTyped
  <2>6. QED
    BY <2>1, <2>2, <2>3, <2>4, <2>5 DEF EditInv, EditTyped
<1>4. StageInv'
  <2>1. staging' \subseteq Calls /\ \A d \in staging' : callPc'[d] \in {"staged", "done"}
    BY <1>1 DEF EditInv, StageInv
  <2>2. Left' \subseteq Left /\ faults <= faults'
    BY <1>1 DEF Left, EditInv, StageInv, EditTyped
  <2>3. QED
    BY <2>1, <2>2, <1>3, LeftGrows DEF EditInv, EditTyped, StageInv
<1>5. QED
  BY <1>2, <1>3, <1>4

-----------------------------------------------------------------------------
(* A call queues up *)
LEMMA InvokeKeeps == ASSUME EditInv, NEW c \in Calls, Edit!Invoke(c) PROVE EditInv'
<1> DEFINE t == ThreadOf[c]
           s == chain[t]
<1>1. /\ callPc[c] = "none" /\ callPc'[c] = "queued"
      /\ \A d \in Calls : d # c => callPc'[d] = callPc[d]
      /\ callPc' \in [Calls -> Holding \cup {"none", "queued", "done"}]
  BY DEF Edit!Invoke, Edit!Goes, EditInv, EditTyped
<1>2. t \in Edit!Threads /\ s \in Seq(Calls) /\ Len(s) \in Nat
  BY ThreadTyped DEF EditInv, EditTyped
<1>3. /\ chain' \in [Edit!Threads -> Seq(Calls)] /\ chain'[t] = Append(s, c)
      /\ \A u \in Edit!Threads : u # t => chain'[u] = chain[u]
  BY <1>2 DEF Edit!Invoke, EditInv, EditTyped
<1>4. /\ Len(chain'[t]) = Len(s) + 1 /\ chain'[t][Len(s) + 1] = c
      /\ \A k \in 1 .. Len(s) : chain'[t][k] = s[k] /\ s[k] \in Calls /\ s[k] # c
  <2>1. \A k \in 1 .. Len(s) : s[k] \in Calls /\ s[k] # c
    BY <1>1, <1>2 DEF EditInv, ChainInv, Holding, Editing
  <2>2. QED
    BY <1>2, <1>3, <2>1
<1>5. EditTyped'
  <2>1. \A d \in Calls : callPc'[d] \in Editing => callPc[d] \in Editing
    BY <1>1 DEF Editing
  <2>2. QED
    BY <1>1, <1>3, <2>1, EditAssumption DEF Edit!Invoke, Edit!diskVars, Edit!askVars, EditInv,
       EditTyped
<1>6. ChainInv'
  <2>1. ASSUME NEW u \in Edit!Threads, NEW k \in 1 .. Len(chain'[u])
        PROVE  /\ ThreadOf[chain'[u][k]] = u
               /\ callPc'[chain'[u][k]] = "queued" \/ (k = 1 /\ callPc'[chain'[u][1]] \in Holding)
               /\ \A j \in 1 .. Len(chain'[u]) : chain'[u][j] = chain'[u][k] => j = k
    <3>1. CASE u # t
      <4>1. chain'[u] = chain[u] /\ k \in 1 .. Len(chain[u]) /\ chain[u] \in Seq(Calls)
        BY <1>3, <3>1 DEF EditInv, EditTyped
      <4>2. ThreadOf[chain[u][k]] = u /\ chain[u][k] \in Calls /\ chain[u][k] # c
        BY <3>1, <4>1 DEF EditInv, ChainInv
      <4>3. callPc'[chain[u][k]] = callPc[chain[u][k]]
        BY <1>1, <4>2
      <4>4. \A j \in 1 .. Len(chain[u]) : chain[u][j] = chain[u][k] => j = k
        BY <4>1 DEF EditInv, ChainInv
      <4>5. callPc[chain[u][k]] = "queued" \/ (k = 1 /\ callPc[chain[u][k]] \in Holding)
        BY <4>1 DEF EditInv, ChainInv
      <4>6. QED
        BY <4>1, <4>2, <4>3, <4>4, <4>5
    <3>2. CASE u = t /\ k = Len(s) + 1
      <4>1. chain'[u][k] = c
        BY <1>4, <3>2
      <4>2. \A j \in 1 .. Len(s) + 1 : j # Len(s) + 1 => j \in 1 .. Len(s)
        BY <1>2
      <4>3. \A j \in 1 .. Len(chain'[u]) : chain'[u][j] = chain'[u][k] => j = k
        BY <1>4, <3>2, <4>1, <4>2
      <4>4. QED
        BY <1>1, <3>2, <4>1, <4>3
    <3>3. CASE u = t /\ k \in 1 .. Len(s)
      <4>1. chain'[u][k] = s[k] /\ s[k] \in Calls /\ s[k] # c /\ callPc'[s[k]] = callPc[s[k]]
        BY <1>1, <1>4, <3>3
      <4>2. /\ ThreadOf[s[k]] = t /\ \A j \in 1 .. Len(s) : s[j] = s[k] => j = k
            /\ callPc[s[k]] = "queued" \/ (k = 1 /\ callPc[s[k]] \in Holding)
        BY <1>2, <3>3 DEF EditInv, ChainInv
      <4>3. \A j \in 1 .. Len(s) + 1 : j # Len(s) + 1 => j \in 1 .. Len(s)
        BY <1>2
      <4>4. \A j \in 1 .. Len(chain'[u]) : chain'[u][j] = chain'[u][k] => j = k
        BY <1>4, <3>3, <4>1, <4>2, <4>3
      <4>5. QED
        BY <3>3, <4>1, <4>2, <4>4
    <3>4. k \in 1 .. Len(s) \/ k = Len(s) + 1 \/ u # t
      BY <1>2, <1>4
    <3>5. QED
      BY <3>1, <3>2, <3>3, <3>4
  <2>2. ASSUME NEW d \in Calls, callPc'[d] \in Holding \cup {"queued"}
        PROVE  \E k \in 1 .. Len(chain'[ThreadOf[d]]) : chain'[ThreadOf[d]][k] = d
    <3>1. CASE d = c
      <4>1. Len(s) + 1 \in 1 .. Len(chain'[t])
        BY <1>2, <1>4
      <4>2. QED
        BY <1>4, <3>1, <4>1
    <3>2. CASE d # c
      <4>1. PICK k \in 1 .. Len(chain[ThreadOf[d]]) : chain[ThreadOf[d]][k] = d
        BY <1>1, <2>2, <3>2 DEF EditInv, ChainInv
      <4>2. CASE ThreadOf[d] = t
        <5>1. k \in 1 .. Len(chain'[t]) /\ chain'[t][k] = d
          BY <1>2, <1>4, <4>1, <4>2
        <5>2. QED
          BY <4>2, <5>1
      <4>3. CASE ThreadOf[d] # t
        BY <1>3, <4>1, <4>3, ThreadTyped
      <4>4. QED
        BY <4>2, <4>3
    <3>3. QED
      BY <3>1, <3>2
  <2>3. QED
    BY <2>1, <2>2 DEF ChainInv
<1>7. StageInv'
  <2>1. Left' = Left /\ staging' = staging /\ faults' = faults
    BY <1>1 DEF Left, Edit!Invoke, Edit!diskVars, EditInv, StageInv
  <2>2. QED
    BY <1>1, <2>1 DEF EditInv, StageInv
<1>8. MarkInv'
  <2>1. \A d \in Calls : /\ callPc'[d] \in Editing => callPc[d] \in Editing
                         /\ callPc'[d] = "writing" => callPc[d] = "writing"
                         /\ Told(d) => callPc'[d] = "reporting" \/ answer'[d] \in {"ok", "died"}
    BY <1>1 DEF Edit!Invoke, Editing, Told
  <2>2. QED
    BY <2>1, MarksStay DEF EditInv, Edit!Invoke, Edit!diskVars
<1>9. QED
  BY <1>5, <1>6, <1>7, <1>8 DEF EditInv

(* Nothing that the invariant speaks of changes *)
LEMMA AbortKeeps ==
  ASSUME EditInv, NEW c \in Calls, Edit!Abort(c) \/ Edit!TimesOut(c) PROVE EditInv'
<1>1. /\ file' = file /\ staging' = staging /\ chain' = chain /\ callPc' = callPc /\ read' = read
      /\ answer' = answer /\ turns' = turns /\ sent' = sent /\ outside' = outside
      /\ faults' = faults
  BY DEF Edit!Abort, Edit!TimesOut, Edit!diskVars, Edit!askVars
<1>2. MarkInv'
  BY <1>1, MarksStay DEF EditInv, Told
<1>3. EditTyped' /\ ChainInv'
  <2>1. EditTyped'
    BY <1>1 DEF EditInv, EditTyped
  <2>2. ChainInv'
    BY <1>1 DEF EditInv, ChainInv
  <2>3. QED
    BY <2>1, <2>2
<1>4. StageInv'
  <2>1. Left' = Left
    BY <1>1 DEF Left
  <2>2. QED
    BY <1>1, <2>1 DEF EditInv, StageInv
<1>5. QED
  BY <1>2, <1>3, <1>4 DEF EditInv

(* What a call of the thread does that holds the lock and leaves the file alone *)
LEMMA GoesKeepsMarks ==
  ASSUME EditInv, NEW c \in Calls, NEW to, Edit!Goes(c, to),
         callPc[c] \notin {"reporting", "done"},
         to \in Editing => callPc[c] \in Editing, to # "writing",
         file' = file, read' = read, answer' = answer
  PROVE  MarkInv'
<1>1. \A d \in Calls : /\ callPc'[d] \in Editing => callPc[d] \in Editing
                       /\ callPc'[d] = "writing" => callPc[d] = "writing"
                       /\ Told(d) => callPc'[d] = "reporting" \/ answer'[d] \in {"ok", "died"}
  BY DEF Edit!Goes, EditInv, EditTyped, Told
<1>2. QED
  BY <1>1, MarksStay DEF EditInv

LEMMA OneHolds ==
  ASSUME EditInv, NEW c \in Calls, NEW d \in Calls, ThreadOf[c] = ThreadOf[d],
         callPc[c] \in Holding, callPc[d] \in Holding
  PROVE  c = d
BY HoldingIsFirst DEF EditInv, First

(* Before it is told, a call has no mark in the file and in what others have read *)
LEMMA UntoldIsUnknown ==
  ASSUME EditInv, NEW c \in Calls, callPc[c] \notin {"reporting", "done"}
  PROVE  /\ ~ Told(c) /\ answer[c] = None
         /\ file # None => c \notin file.marks
         /\ \A d \in Calls : callPc[d] \in Editing => c \notin read[d]
<1>1. answer[c] = None /\ ~ Told(c)
  BY EditAssumption DEF EditInv, EditTyped, Told
<1>2. QED
  BY <1>1 DEF EditInv, MarkInv

LEMMA WriteCreatesKeeps == ASSUME EditInv, NEW c \in Calls, Edit!WriteCreates(c) PROVE EditInv'
<1>1. First(c) /\ callPc[c] = "queued" /\ c \notin staging
  BY EnteringIsFirst DEF EditInv, StageInv, Edit!WriteCreates, Edit!Enters
<1>2. /\ read' = read /\ turns' = turns /\ sent' = sent /\ outside' = outside
      /\ staging' = staging
  BY DEF Edit!WriteCreates, Edit!askVars
<1>3. CASE Edit!Answer(c, "failed") /\ Edit!Fault /\ file' = file
  BY <1>1, <1>2, <1>3, AnswerKeeps DEF Edit!Fault, Answers
<1>4. ASSUME NEW to \in {"writing", "saving"}, Edit!Goes(c, to), faults' = faults,
             answer' = answer, chain' = chain,
             file' # None => file' \in [node : Nodes, marks : SUBSET Marks]
      PROVE  EditTyped' /\ ChainInv' /\ StageInv'
  BY <1>1, <1>2, <1>4, GoesKeeps DEF EditInv, EditTyped, Holding, Editing
<1>5. CASE /\ file = None /\ file' = [node |-> c, marks |-> {}]
           /\ Edit!Goes(c, "writing") /\ faults' = faults /\ answer' = answer /\ chain' = chain
  <2>1. EditTyped' /\ ChainInv' /\ StageInv'
    BY <1>4, <1>5 DEF Nodes, Marks
  <2>2. callPc'[c] = "writing" /\ \A d \in Calls : d # c => callPc'[d] = callPc[d]
    BY <1>5 DEF Edit!Goes, EditInv, EditTyped
  <2>3. \A m \in Calls : Told(m) => callPc'[m] = "reporting" \/ answer'[m] \in {"ok", "died"}
    BY <1>1, <1>5, <2>2 DEF Told
  <2>4. \A d \in Calls : callPc'[d] \in Editing => callPc[d] \in Editing
    BY <2>2 DEF Editing
  <2>5. MarkInv'
    BY <1>2, <1>5, <2>3, <2>4 DEF EditInv, MarkInv, Told
  <2>6. QED
    BY <2>1, <2>5 DEF EditInv
<1>6. CASE /\ file # None /\ file' = file
           /\ Edit!Goes(c, "saving") /\ faults' = faults /\ answer' = answer /\ chain' = chain
  <2>1. EditTyped' /\ ChainInv' /\ StageInv'
    BY <1>4, <1>6 DEF EditInv, EditTyped
  <2>2. MarkInv'
    BY <1>1, <1>2, <1>6, GoesKeepsMarks DEF Editing
  <2>3. QED
    BY <2>1, <2>2 DEF EditInv
<1>7. QED
  BY <1>3, <1>5, <1>6 DEF Edit!WriteCreates, Edit!NoFault

LEMMA WriteFillsKeeps == ASSUME EditInv, NEW c \in Calls, Edit!WriteFills(c) PROVE EditInv'
<1>1. First(c) /\ callPc[c] = "writing" /\ c \notin staging
  BY HoldingIsFirst DEF EditInv, StageInv, Edit!WriteFills, Holding
<1>2. read' = read /\ turns' = turns /\ sent' = sent /\ outside' = outside /\ staging' = staging
  BY DEF Edit!WriteFills, Edit!askVars
<1>3. CASE Edit!Answer(c, "failed") /\ Edit!Fault /\ file' = file
  BY <1>1, <1>2, <1>3, AnswerKeeps DEF Edit!Fault, Answers
<1>4. CASE /\ faults' = faults /\ answer' = answer /\ chain' = chain /\ Edit!Goes(c, "reporting")
           /\ file' = IF file # None /\ file.node = c THEN [file EXCEPT !.marks = {c}] ELSE file
  <2>1. /\ file' # None => file' \in [node : Nodes, marks : SUBSET Marks]
        /\ file # None /\ file.node = c => file'.marks = {c} /\ file'.node = c
    BY <1>4 DEF EditInv, EditTyped, Marks
  <2>2. EditTyped' /\ ChainInv' /\ StageInv'
    BY <1>1, <1>2, <1>4, <2>1, GoesKeeps DEF EditInv, EditTyped, Holding, Editing
  <2>3. callPc'[c] = "reporting" /\ \A d \in Calls : d # c => callPc'[d] = callPc[d]
    BY <1>4 DEF Edit!Goes, EditInv, EditTyped
  <2>4. CASE ~ (file # None /\ file.node = c)
    <3>1. \A d \in Calls : /\ callPc'[d] \in Editing => callPc[d] \in Editing
                           /\ callPc'[d] = "writing" => callPc[d] = "writing"
                           /\ Told(d) => callPc'[d] = "reporting" \/ answer'[d] \in {"ok", "died"}
      BY <1>4, <2>3 DEF Editing, Told
    <3>2. MarkInv'
      BY <1>2, <1>4, <2>4, <3>1, MarksStay DEF EditInv
    <3>3. QED
      BY <2>2, <3>2 DEF EditInv
  <2>5. CASE file # None /\ file.node = c
    <3>1. file'.marks = {c} /\ file'.node = c
      BY <2>1, <2>5
    <3>2. \A d \in Calls : /\ callPc'[d] \in Editing => callPc[d] \in Editing
                           /\ Told(d) => callPc'[d] = "reporting" \/ answer'[d] \in {"ok", "died"}
      BY <1>4, <2>3 DEF Editing, Told
    <3>3. ASSUME NEW d \in Calls, callPc'[d] \in Editing PROVE ThreadOf[d] # ThreadOf[c]
      BY <1>1, <2>3, <3>2, <3>3, OneHolds DEF Holding, Editing
    <3>4. MarkInv'
      BY <1>2, <2>3, <3>1, <3>2, <3>3 DEF EditInv, MarkInv, Told, Known
    <3>5. QED
      BY <2>2, <3>4 DEF EditInv
  <2>6. QED
    BY <2>4, <2>5
<1>5. QED
  BY <1>3, <1>4 DEF Edit!WriteFills, Edit!NoFault

LEMMA WriteSavesKeeps == ASSUME EditInv, NEW c \in Calls, Edit!WriteSaves(c) PROVE EditInv'
<1>1. First(c) /\ callPc[c] = "saving" /\ c \notin staging
  BY HoldingIsFirst DEF EditInv, StageInv, Edit!WriteSaves, Holding
<1>2. /\ file' = file /\ read' = read /\ turns' = turns /\ sent' = sent /\ outside' = outside
      /\ staging' = staging /\ faults' \in {faults, faults + 1}
  BY DEF Edit!WriteSaves, Edit!askVars, Edit!Fault, Edit!NoFault
<1>3. PICK a \in {"saved", "exists"} : Edit!Answer(c, a)
  BY DEF Edit!WriteSaves
<1>4. QED
  BY <1>1, <1>2, <1>3, AnswerKeeps DEF Answers

LEMMA EditReadsKeeps == ASSUME EditInv, NEW c \in Calls, Edit!EditReads(c) PROVE EditInv'
<1>1. First(c) /\ callPc[c] = "queued" /\ c \notin staging
  BY EnteringIsFirst DEF EditInv, StageInv, Edit!EditReads, Edit!Enters
<1>2. /\ file' = file /\ turns' = turns /\ sent' = sent /\ outside' = outside
      /\ staging' = staging /\ faults' \in {faults, faults + 1}
  BY DEF Edit!EditReads, Edit!askVars, Edit!diskVars, Edit!Fault, Edit!NoFault
<1>3. ASSUME NEW a \in {"aborted", "failed"}, Edit!Answer(c, a), read' = read PROVE EditInv'
  BY <1>1, <1>2, <1>3, AnswerKeeps DEF Answers
<1>4. CASE /\ file # None /\ read' = [read EXCEPT ![c] = file.marks] /\ Edit!Goes(c, "updating")
           /\ answer' = answer /\ chain' = chain
  <2>1. /\ read'[c] = file.marks /\ \A d \in Calls : d # c => read'[d] = read[d]
        /\ file.marks \in SUBSET Marks /\ read' \in [Calls -> (SUBSET Marks) \cup {None}]
    BY <1>4 DEF EditInv, EditTyped
  <2>2. EditTyped' /\ ChainInv' /\ StageInv'
    BY <1>1, <1>2, <1>4, <2>1, GoesKeeps DEF EditInv, EditTyped, Holding, Editing
  <2>3. callPc'[c] = "updating" /\ \A d \in Calls : d # c => callPc'[d] = callPc[d]
    BY <1>4 DEF Edit!Goes, EditInv, EditTyped
  <2>4. \A d \in Calls : Told(d) => callPc'[d] = "reporting" \/ answer'[d] \in {"ok", "died"}
    BY <1>1, <1>4, <2>3 DEF Told
  <2>5. ASSUME NEW d \in Calls, d # c, NEW m \in Calls, Known(m, d) PROVE Known(m, d)'
    <3>1. c \notin file.marks
      BY <1>1, <1>4, UntoldIsUnknown
    <3>2. \A e \in Calls : e \in file.marks \ read[d] => e \in file'.marks \ read'[d]
                                                      /\ read'[e] = read[e]
      BY <1>2, <2>1, <2>5, <3>1
    <3>3. QED
      BY <2>1, <2>5, <3>2 DEF Known, Edit!PutBack
  <2>6. \A m \in Calls : m \in file'.marks => m \in read'[c]
    BY <1>2, <2>1
  <2>7. MarkInv'
    <3>1. file' # None => \A m \in Calls : m \in file'.marks => Told(m)'
      BY <1>2, <2>4 DEF EditInv, MarkInv, Told
    <3>2. \A d \in Calls : callPc'[d] \in Editing => \A m \in Calls : m \in read'[d] => Told(m)'
      BY <1>4, <2>1, <2>3, <2>4 DEF EditInv, MarkInv, Told
    <3>3. \A d \in Calls : file' # None /\ file'.node = d /\ callPc'[d] = "writing" =>
            \A m \in Calls : m \notin file'.marks
      BY <1>2, <2>3 DEF EditInv, MarkInv
    <3>4. ASSUME NEW d \in Calls, callPc'[d] \in Editing, file' # None, NEW m \in Calls,
                 m \in file'.marks
          PROVE  Known(m, d)'
      <4>1. CASE d = c
        BY <2>6, <3>4, <4>1 DEF Known
      <4>2. CASE d # c
        <5>1. Known(m, d)
          BY <1>2, <2>3, <3>4, <4>2 DEF EditInv, MarkInv
        <5>2. QED
          BY <4>2, <5>1, <2>5
      <4>3. QED
        BY <4>1, <4>2
    <3>5. QED
      BY <3>1, <3>2, <3>3, <3>4 DEF MarkInv
  <2>8. QED
    BY <2>2, <2>7 DEF EditInv
<1>5. QED
  BY <1>3, <1>4 DEF Edit!EditReads, Edit!NoFault

(* An edit goes on, or has its answer, and the file stays as it is *)
LEMMA UpdatesKeeps == ASSUME EditInv, NEW c \in Calls, Edit!Updates(c) PROVE EditInv'
<1>1. First(c) /\ callPc[c] = "updating" /\ c \notin staging
  BY HoldingIsFirst DEF EditInv, StageInv, Edit!Updates, Holding, Editing
<1>2. /\ file' = file /\ read' = read /\ turns' = turns /\ sent' = sent /\ outside' = outside
      /\ staging' = staging /\ faults' = faults
  BY DEF Edit!Updates, Edit!askVars, Edit!diskVars
<1>3. ASSUME NEW a \in {"aborted", "failed"}, Edit!Answer(c, a) PROVE EditInv'
  BY <1>1, <1>2, <1>3, AnswerKeeps DEF Answers
<1>4. ASSUME NEW to \in {"staging", "asking"}, Edit!Goes(c, to), answer' = answer, chain' = chain
      PROVE  EditInv'
  <2>1. turns[c] = 0 /\ sent[c] = 0 /\ read[c] \in SUBSET Marks /\ turns[c] <= MaxCorrections
    BY <1>1, EditAssumption DEF EditInv, EditTyped, Editing
  <2>2. to \in Holding /\ to # "updating"
    BY DEF Holding, Editing
  <2>3. /\ file' # None => file' \in [node : Nodes, marks : SUBSET Marks]
        /\ read' \in [Calls -> (SUBSET Marks) \cup {None}]
        /\ turns' \in [Calls -> Nat] /\ sent' \in [Calls -> Nat]
    BY <1>2 DEF EditInv, EditTyped
  <2>4. EditTyped' /\ ChainInv' /\ StageInv'
    BY <1>1, <1>2, <1>4, <2>1, <2>2, <2>3, GoesKeeps
  <2>5. MarkInv'
    BY <1>1, <1>2, <1>4, GoesKeepsMarks DEF Editing
  <2>6. QED
    BY <2>4, <2>5 DEF EditInv
<1>5. QED
  BY <1>3, <1>4 DEF Edit!Updates

LEMMA CandidateKeeps ==
  ASSUME EditInv, NEW c \in Calls, NEW found, Edit!Candidate(c, found) PROVE EditInv'
<1>1. First(c) /\ callPc[c] = "asking" /\ c \notin staging
  BY HoldingIsFirst DEF EditInv, StageInv, Edit!Candidate, Holding, Editing
<1>2. /\ file' = file /\ read' = read /\ outside' = outside /\ staging' = staging
      /\ faults' = faults /\ answer' = answer /\ chain' = chain
  BY DEF Edit!Candidate, Edit!diskVars
<1>3. PICK to \in {"asking", "finishing"} :
        /\ Edit!Goes(c, to)
        /\ turns' \in [Calls -> Nat] /\ sent' \in [Calls -> Nat]
        /\ \A d \in Calls : d # c => turns'[d] = turns[d] /\ sent'[d] = sent[d]
        /\ to = "asking" => turns'[c] = sent'[c] /\ turns'[c] <= MaxCorrections
  <2>1. callPc = [callPc EXCEPT ![c] = "asking"]
    BY <1>1 DEF EditInv, EditTyped
  <2>2. turns[c] = sent[c] /\ turns[c] \in Nat /\ MaxCorrections \in Nat
    BY <1>1, EditAssumption DEF EditInv, EditTyped
  <2>3. CASE c \in aborted \cup timedOut
    BY <2>3 DEF Edit!Candidate, Edit!Goes, EditInv, EditTyped
  <2>4. CASE c \notin aborted \cup timedOut /\ found = "retryable" /\ sent[c] < MaxCorrections
    BY <2>1, <2>2, <2>4 DEF Edit!Candidate, Edit!Goes, EditInv, EditTyped
  <2>5. CASE c \notin aborted \cup timedOut /\ ~ (found = "retryable" /\ sent[c] < MaxCorrections)
    BY <2>2, <2>5 DEF Edit!Candidate, Edit!Goes, EditInv, EditTyped
  <2>6. QED
    BY <2>3, <2>4, <2>5
<1>4. EditTyped' /\ ChainInv' /\ StageInv'
  <2>1. read[c] \in SUBSET Marks
    BY <1>1 DEF EditInv, EditTyped, Editing
  <2>2. QED
    BY <1>1, <1>2, <1>3, <2>1, GoesKeeps DEF EditInv, EditTyped, Holding, Editing
<1>5. MarkInv'
  BY <1>1, <1>2, <1>3, GoesKeepsMarks DEF Editing
<1>6. QED
  BY <1>4, <1>5 DEF EditInv

LEMMA RunEndsKeeps == ASSUME EditInv, NEW c \in Calls, Edit!RunEnds(c) PROVE EditInv'
<1>1. First(c) /\ callPc[c] \in {"asking", "finishing"} /\ c \notin staging
  BY HoldingIsFirst DEF EditInv, StageInv, Edit!RunEnds, Holding, Editing
<1>2. /\ file' = file /\ read' = read /\ turns' = turns /\ sent' = sent /\ outside' = outside
      /\ staging' = staging /\ faults' \in {faults, faults + 1}
  BY DEF Edit!RunEnds, Edit!askVars, Edit!diskVars, Edit!Fault, Edit!NoFault
<1>3. ASSUME NEW a \in {"timeout", "aborted", "failed"}, Edit!Answer(c, a) PROVE EditInv'
  BY <1>1, <1>2, <1>3, AnswerKeeps DEF Answers
<1>4. CASE Edit!Goes(c, "staging") /\ answer' = answer /\ chain' = chain
  <2>1. read[c] \in SUBSET Marks
    BY <1>1 DEF EditInv, EditTyped, Editing
  <2>2. EditTyped' /\ ChainInv' /\ StageInv'
    BY <1>1, <1>2, <1>4, <2>1, GoesKeeps DEF EditInv, EditTyped, Holding, Editing
  <2>3. MarkInv'
    BY <1>1, <1>2, <1>4, GoesKeepsMarks DEF Editing
  <2>4. QED
    BY <2>2, <2>3 DEF EditInv
<1>5. QED
  BY <1>3, <1>4 DEF Edit!RunEnds

LEMMA StagesKeeps == ASSUME EditInv, NEW c \in Calls, Edit!Stages(c) PROVE EditInv'
<1>1. First(c) /\ callPc[c] = "staging" /\ c \notin staging
  BY HoldingIsFirst DEF EditInv, StageInv, Edit!Stages, Holding, Editing
<1>2. /\ file' = file /\ read' = read /\ turns' = turns /\ sent' = sent /\ outside' = outside
      /\ faults' \in {faults, faults + 1}
  BY DEF Edit!Stages, Edit!askVars, Edit!Fault, Edit!NoFault
<1>3. CASE staging' = staging /\ Edit!Answer(c, "failed")
  BY <1>1, <1>2, <1>3, AnswerKeeps DEF Answers
<1>4. CASE /\ staging' = staging \cup {c} /\ Edit!Goes(c, "staged")
           /\ answer' = answer /\ chain' = chain
  <2>1. read[c] \in SUBSET Marks
    BY <1>1 DEF EditInv, EditTyped, Editing
  <2>2. EditTyped' /\ ChainInv' /\ StageInv'
    BY <1>1, <1>2, <1>4, <2>1, GoesKeeps DEF EditInv, EditTyped, Holding, Editing
  <2>3. MarkInv'
    BY <1>1, <1>2, <1>4, GoesKeepsMarks DEF Editing
  <2>4. QED
    BY <2>2, <2>3 DEF EditInv
<1>5. QED
  BY <1>3, <1>4 DEF Edit!Stages

(* The new content comes in the file's place.  What was in it and was not read came from
   another thread, or was put back by one; and other edits under way are of other threads *)
LEMMA ReplacesKeeps == ASSUME EditInv, NEW c \in Calls, Edit!Replaces(c) PROVE EditInv'
<1>1. First(c) /\ callPc[c] = "staged"
  BY HoldingIsFirst DEF EditInv, Edit!Replaces, Holding, Editing
<1>2. /\ read' = read /\ turns' = turns /\ sent' = sent /\ outside' = outside
      /\ faults' \in {faults, faults + 1}
  BY DEF Edit!Replaces, Edit!askVars, Edit!Fault, Edit!NoFault
<1>3. ASSUME NEW a \in {"aborted", "failed"}, Edit!Answer(c, a), file' = file,
             staging' = staging \ {c} \/ (staging' = staging /\ faults' = faults + 1)
      PROVE  EditInv'
  BY <1>1, <1>2, <1>3, AnswerKeeps DEF Answers
<1>4. CASE /\ staging' = staging \ {c} /\ file' = [node |-> c, marks |-> read[c] \cup {c}]
           /\ Edit!Goes(c, "reporting") /\ answer' = answer /\ chain' = chain
  <2>1. /\ read[c] \in SUBSET Marks /\ file' \in [node : Nodes, marks : SUBSET Marks]
        /\ file'.node = c /\ file'.marks = read[c] \cup {c}
    BY <1>1, <1>4 DEF EditInv, EditTyped, Editing, Nodes, Marks
  <2>2. EditTyped' /\ ChainInv' /\ StageInv'
    BY <1>1, <1>2, <1>4, <2>1, GoesKeeps DEF EditInv, EditTyped, Holding, Editing
  <2>3. callPc'[c] = "reporting" /\ \A d \in Calls : d # c => callPc'[d] = callPc[d]
    BY <1>4 DEF Edit!Goes, EditInv, EditTyped
  <2>4. \A d \in Calls : /\ callPc'[d] \in Editing => callPc[d] \in Editing
                         /\ Told(d) => callPc'[d] = "reporting" \/ answer'[d] \in {"ok", "died"}
    BY <1>4, <2>3 DEF Editing, Told
  <2>5. ASSUME NEW d \in Calls, callPc'[d] \in Editing, NEW m \in Calls, m \in file'.marks
        PROVE  Known(m, d)'
    <3>1. ThreadOf[d] # ThreadOf[c]
      BY <1>1, <2>3, <2>4, <2>5, OneHolds DEF Holding, Editing
    <3>2. c \in file'.marks \ read'[d]
      BY <1>1, <1>2, <2>1, <2>4, <2>5, UntoldIsUnknown
    <3>3. CASE m = c
      BY <3>1, <3>3 DEF Known
    <3>4. CASE m # c
      <4>1. m \in read'[c]
        BY <1>2, <2>1, <2>5, <3>4
      <4>2. QED
        BY <3>1, <3>2, <4>1 DEF Known, Edit!PutBack
    <3>5. QED
      BY <3>3, <3>4
  <2>6. \A m \in Calls : m \in file'.marks => Told(m)'
    BY <1>1, <2>1, <2>3, <2>4 DEF EditInv, MarkInv, Told, Editing
  <2>7. MarkInv'
    <3>1. \A d \in Calls : callPc'[d] \in Editing => \A m \in Calls : m \in read'[d] => Told(m)'
      BY <1>2, <2>4 DEF EditInv, MarkInv, Told
    <3>2. \A d \in Calls : file'.node = d => callPc'[d] # "writing"
      BY <2>1, <2>3
    <3>3. QED
      BY <2>5, <2>6, <3>1, <3>2 DEF MarkInv
  <2>8. QED
    BY <2>2, <2>7 DEF EditInv
<1>5. QED
  BY <1>3, <1>4 DEF Edit!Replaces, Edit!NoFault, Edit!Fault

LEMMA ReportsKeeps == ASSUME EditInv, NEW c \in Calls, Edit!Reports(c) PROVE EditInv'
<1>1. First(c) /\ c \notin staging
  BY HoldingIsFirst DEF EditInv, StageInv, Edit!Reports, Holding
<1>2. /\ file' = file /\ read' = read /\ turns' = turns /\ sent' = sent /\ outside' = outside
      /\ staging' = staging /\ faults' = faults /\ Edit!Answer(c, "ok")
  BY DEF Edit!Reports, Edit!askVars, Edit!diskVars
<1>3. QED
  BY <1>1, <1>2, AnswerKeeps DEF Answers

(* A thread ends: its queue goes, and what its one holder left beside the file stays *)
LEMMA DiesKeeps == ASSUME EditInv, NEW t \in Edit!Threads, Edit!Dies(t) PROVE EditInv'
<1> DEFINE lost == {c \in Calls : ThreadOf[c] = t /\ callPc[c] # "done"}
<1>1. /\ file' = file /\ read' = read /\ turns' = turns /\ sent' = sent /\ outside' = outside
      /\ staging' = staging /\ faults' = faults + 1 /\ faults' \in Nat
  BY DEF Edit!Dies, Edit!askVars, Edit!diskVars, Edit!Fault, EditInv, EditTyped
<1>2. /\ callPc' = [c \in Calls |-> IF c \in lost THEN "done" ELSE callPc[c]]
      /\ answer' = [c \in Calls |-> IF c \in lost THEN "died" ELSE answer[c]]
  BY DEF Edit!Dies
<1>3. /\ chain' \in [Edit!Threads -> Seq(Calls)] /\ chain'[t] = <<>>
      /\ \A u \in Edit!Threads : u # t => chain'[u] = chain[u]
  BY DEF Edit!Dies, EditInv, EditTyped
<1>4. EditTyped'
  <2>1. callPc' \in [Calls -> Holding \cup {"none", "queued", "done"}]
    BY <1>2 DEF EditInv, EditTyped
  <2>2. answer' \in [Calls -> Answers \cup {None}]
    BY <1>2 DEF EditInv, EditTyped, Answers
  <2>3. \A c \in Calls : callPc'[c] = "done" <=> answer'[c] # None
    BY <1>2, EditAssumption DEF EditInv, EditTyped
  <2>4. \A c \in Calls : callPc'[c] # "done" => callPc'[c] = callPc[c]
    BY <1>2
  <2>5. \A c \in Calls : callPc'[c] \in Editing => callPc[c] \in Editing
    BY <2>4 DEF Editing
  <2>6. QED
    BY <1>1, <1>3, <2>1, <2>2, <2>3, <2>4, <2>5 DEF EditInv, EditTyped
<1>5. ChainInv'
  <2>1. ASSUME NEW u \in Edit!Threads, NEW k \in 1 .. Len(chain'[u])
        PROVE  /\ ThreadOf[chain'[u][k]] = u
               /\ callPc'[chain'[u][k]] = "queued" \/ (k = 1 /\ callPc'[chain'[u][1]] \in Holding)
               /\ \A j \in 1 .. Len(chain'[u]) : chain'[u][j] = chain'[u][k] => j = k
    <3>1. u # t
      BY <1>3
    <3>2. chain'[u] = chain[u] /\ k \in 1 .. Len(chain[u]) /\ chain[u] \in Seq(Calls)
      BY <1>3, <3>1 DEF EditInv, EditTyped
    <3>3. ThreadOf[chain[u][k]] = u /\ chain[u][k] \in Calls
      BY <3>2 DEF EditInv, ChainInv
    <3>4. callPc'[chain[u][k]] = callPc[chain[u][k]]
      BY <1>2, <3>1, <3>3
    <3>5. \A j \in 1 .. Len(chain[u]) : chain[u][j] = chain[u][k] => j = k
      BY <3>2 DEF EditInv, ChainInv
    <3>6. callPc[chain[u][k]] = "queued" \/ (k = 1 /\ callPc[chain[u][k]] \in Holding)
      BY <3>2 DEF EditInv, ChainInv
    <3>7. QED
      BY <3>2, <3>3, <3>4, <3>5, <3>6
  <2>2. ASSUME NEW d \in Calls, callPc'[d] \in Holding \cup {"queued"}
        PROVE  \E k \in 1 .. Len(chain'[ThreadOf[d]]) : chain'[ThreadOf[d]][k] = d
    <3>1. callPc'[d] # "done"
      BY <2>2 DEF Holding, Editing
    <3>2. callPc[d] = callPc'[d] /\ ThreadOf[d] # t
      BY <1>2, <3>1
    <3>3. QED
      BY <1>3, <2>2, <3>2, ThreadTyped DEF EditInv, ChainInv
  <2>3. QED
    BY <2>1, <2>2 DEF ChainInv
<1>6. StageInv'
  <2>1. \A c \in staging : c \in Calls /\ callPc'[c] \in {"staged", "done"}
    BY <1>2 DEF EditInv, StageInv
  <2>2. CASE \E c \in staging : ThreadOf[c] = t /\ callPc[c] = "staged"
    <3>1. PICK c \in staging : c \in Calls /\ ThreadOf[c] = t /\ callPc[c] = "staged"
      BY <2>2 DEF EditInv, StageInv
    <3>2. ASSUME NEW d \in staging, d # c, callPc'[d] = "done" PROVE callPc[d] = "done"
      <4>1. d \in Calls /\ callPc[d] \in {"staged", "done"}
        BY DEF EditInv, StageInv
      <4>2. ~ (callPc[d] = "staged" /\ ThreadOf[d] = t)
        BY <3>1, <3>2, <4>1, OneHolds DEF Holding, Editing
      <4>3. QED
        BY <1>2, <3>2, <4>1, <4>2
    <3>3. Left' \subseteq Left \cup {c}
      BY <1>1, <3>2 DEF Left
    <3>4. QED
      BY <1>1, <2>1, <3>3, LeftGrows DEF EditInv, EditTyped, StageInv
  <2>3. CASE ~ \E c \in staging : ThreadOf[c] = t /\ callPc[c] = "staged"
    <3>1. ASSUME NEW d \in staging, callPc'[d] = "done" PROVE callPc[d] = "done"
      <4>1. d \in Calls /\ callPc[d] \in {"staged", "done"}
        BY DEF EditInv, StageInv
      <4>2. QED
        BY <1>2, <2>3, <3>1, <4>1
    <3>2. Left' \subseteq Left
      BY <1>1, <3>1 DEF Left
    <3>3. faults <= faults'
      BY <1>1 DEF EditInv, EditTyped
    <3>4. QED
      BY <1>1, <2>1, <3>2, <3>3, LeftGrows DEF EditInv, EditTyped, StageInv
  <2>4. QED
    BY <2>2, <2>3
<1>7. MarkInv'
  <2>1. \A d \in Calls : /\ callPc'[d] \in Editing => callPc[d] \in Editing
                         /\ callPc'[d] = "writing" => callPc[d] = "writing"
                         /\ Told(d) => callPc'[d] = "reporting" \/ answer'[d] \in {"ok", "died"}
    BY <1>2 DEF Editing, Told
  <2>2. QED
    BY <1>1, <2>1, MarksStay DEF EditInv
<1>8. QED
  BY <1>4, <1>5, <1>6, <1>7 DEF EditInv

(* Others change the file, or remove it, and make no call's mark *)
LEMMA OutsideKeeps == ASSUME EditInv, Edit!Outside PROVE EditInv'
<1> DEFINE mark == <<"outside", outside>>
<1>1. /\ read' = read /\ callPc' = callPc /\ answer' = answer /\ chain' = chain
      /\ staging' = staging
      /\ turns' = turns /\ sent' = sent /\ faults' = faults
      /\ outside \in 0 .. MaxOutside /\ outside' \in 0 .. MaxOutside /\ outside' = outside + 1
  BY EditAssumption DEF Edit!Outside, Edit!askVars, EditInv, EditTyped
<1>2. mark \in Marks /\ mark \notin Calls
  BY <1>1, EditAssumption DEF Marks
<1>3. file' # None => /\ file' \in [node : Nodes, marks : SUBSET Marks]
                      /\ \/ /\ file = None /\ file'.marks = {mark} /\ file'.node = mark
                         \/ /\ file # None /\ file'.marks = file.marks \cup {mark}
                            /\ file'.node = file.node
  <2>1. CASE file = None /\ file' = [node |-> mark, marks |-> {mark}]
    BY <1>2, <2>1 DEF Nodes
  <2>2. CASE file # None /\ file' = [file EXCEPT !.marks = @ \cup {mark}]
    <3>1. file \in [node : Nodes, marks : SUBSET Marks]
      BY <2>2 DEF EditInv, EditTyped
    <3>2. QED
      BY <1>2, <2>2, <3>1
  <2>3. QED
    BY <2>1, <2>2 DEF Edit!Outside
<1>4. EditTyped' /\ ChainInv'
  BY <1>1, <1>3 DEF EditInv, EditTyped, ChainInv
<1>5. StageInv'
  <2>1. Left' = Left
    BY <1>1 DEF Left
  <2>2. QED
    BY <1>1, <2>1 DEF EditInv, StageInv
<1>6. file' # None => \A m \in Calls : m \in file'.marks => file # None /\ m \in file.marks
  BY <1>2, <1>3
<1>7. ASSUME NEW c \in Calls, callPc[c] \in Editing, file' # None, NEW m \in Calls,
             m \in file'.marks
      PROVE  Known(m, c)'
  <2>1. Known(m, c) /\ file # None /\ \A d \in Calls : d \in file.marks => d \in file'.marks
    BY <1>3, <1>6, <1>7 DEF EditInv, MarkInv
  <2>2. QED
    BY <1>1, <2>1 DEF Known, Edit!PutBack
<1>8. MarkInv'
  <2>1. file' # None => \A m \in Calls : m \in file'.marks => Told(m)'
    BY <1>1, <1>6 DEF EditInv, MarkInv, Told
  <2>2. \A d \in Calls : callPc'[d] \in Editing => \A m \in Calls : m \in read'[d] => Told(m)'
    BY <1>1 DEF EditInv, MarkInv, Told
  <2>3. \A d \in Calls : file' # None /\ file'.node = d /\ callPc'[d] = "writing" =>
          \A m \in Calls : m \notin file'.marks
    BY <1>1, <1>2, <1>3, <1>6 DEF EditInv, MarkInv
  <2>4. QED
    BY <1>1, <1>7, <2>1, <2>2, <2>3 DEF MarkInv
<1>9. QED
  BY <1>4, <1>5, <1>8 DEF EditInv

LEMMA EditStep == EditInv /\ [Edit!Next]_(Edit!vars) => EditInv'
<1> SUFFICES ASSUME EditInv, [Edit!Next]_(Edit!vars) PROVE EditInv'
  OBVIOUS
<1>1. CASE UNCHANGED Edit!vars
  <2>1. /\ file' = file /\ staging' = staging /\ chain' = chain /\ callPc' = callPc
        /\ read' = read
        /\ answer' = answer /\ turns' = turns /\ sent' = sent /\ outside' = outside
        /\ faults' = faults
    BY <1>1 DEF Edit!vars, Edit!diskVars, Edit!askVars
  <2>2. MarkInv'
    BY <2>1, MarksStay DEF EditInv, Told
  <2>3. EditTyped' /\ ChainInv'
    <3>1. EditTyped'
      BY <2>1 DEF EditInv, EditTyped
    <3>2. ChainInv'
      BY <2>1 DEF EditInv, ChainInv
    <3>3. QED
      BY <3>1, <3>2
  <2>4. StageInv'
    <3>1. Left' = Left
      BY <2>1 DEF Left
    <3>2. QED
      BY <2>1, <3>1 DEF EditInv, StageInv
  <2>5. QED
    BY <2>2, <2>3, <2>4 DEF EditInv
<1>2. CASE Edit!Next
  BY <1>2, InvokeKeeps, AbortKeeps, WriteCreatesKeeps, WriteFillsKeeps, WriteSavesKeeps,
     EditReadsKeeps, UpdatesKeeps, CandidateKeeps, RunEndsKeeps, StagesKeeps, ReplacesKeeps,
     ReportsKeeps, DiesKeeps, OutsideKeeps DEF Edit!Next, Edit!Step
<1>3. QED
  BY <1>1, <1>2

(* Every call that is told an error has left the file alone (editor.ts, file-edit.ts), whatever
   else fails, comes late or changes the file, for any number of calls and threads *)
THEOREM ErrorsChangeNothing == Edit!Spec => []ErrorChangesNothing
<1>1. EditInv => ErrorChangesNothing
  BY DEF EditInv, MarkInv, Told, ErrorChangesNothing, Edit!ErrorChangesNothing
<1>2. QED
  BY <1>1, EditInit, EditStep, PTL DEF Edit!Spec

(* Only Replaces takes marks away, and Outside, which nobody can prevent *)
LEMMA StepKeepsEdits == ASSUME EditInv, Edit!Next PROVE Edit!KeepsEdits
<1>1. ASSUME file' = file,
             \A c \in Calls : callPc[c] = "staged" => callPc'[c] # "reporting"
      PROVE  Edit!KeepsEdits
  BY <1>1 DEF Edit!KeepsEdits
<1>2. ASSUME NEW c \in Calls, NEW a, Edit!Answer(c, a)
      PROVE  \A d \in Calls : callPc[d] = "staged" => callPc'[d] # "reporting"
  BY <1>2 DEF Edit!Answer, Edit!Goes, EditInv, EditTyped
<1>3. ASSUME NEW c \in Calls, NEW to, to # "reporting" \/ callPc[c] # "staged", Edit!Goes(c, to)
      PROVE  \A d \in Calls : callPc[d] = "staged" => callPc'[d] # "reporting"
  BY <1>3 DEF Edit!Goes, EditInv, EditTyped
<1>4. ASSUME NEW c \in Calls, Edit!WriteCreates(c) PROVE Edit!KeepsEdits
  <2>1. \A d \in Calls : callPc[d] = "staged" => callPc'[d] # "reporting"
    BY <1>2, <1>3, <1>4 DEF Edit!WriteCreates
  <2>2. file # None => file' = file
    BY <1>4 DEF Edit!WriteCreates
  <2>3. QED
    BY <2>1, <2>2 DEF Edit!KeepsEdits
<1>5. ASSUME NEW c \in Calls, Edit!WriteFills(c) PROVE Edit!KeepsEdits
  <2>1. callPc[c] = "writing"
    BY <1>5 DEF Edit!WriteFills
  <2>2. \A d \in Calls : callPc[d] = "staged" => callPc'[d] # "reporting"
    BY <1>2, <1>3, <1>5, <2>1 DEF Edit!WriteFills
  <2>3. ASSUME NEW m \in Calls, file # None, m \in file.marks PROVE file' = file
    <3>1. file.node # c
      BY <2>1, <2>3 DEF EditInv, MarkInv
    <3>2. QED
      BY <1>5, <3>1 DEF Edit!WriteFills
  <2>4. QED
    BY <2>2, <2>3 DEF Edit!KeepsEdits
<1>6. ASSUME NEW c \in Calls, Edit!Replaces(c) PROVE Edit!KeepsEdits
  <2>1. CASE file' = file /\ \E a : Edit!Answer(c, a)
    BY <1>1, <1>2, <2>1
  <2>2. CASE file' = [node |-> c, marks |-> read[c] \cup {c}] /\ Edit!Goes(c, "reporting")
    <3>1. /\ callPc[c] = "staged" /\ callPc'[c] = "reporting"
          /\ \A d \in Calls : d # c => callPc'[d] = callPc[d]
      BY <1>6, <2>2 DEF Edit!Replaces, Edit!Goes, EditInv, EditTyped
    <3>2. file'.marks = read[c] \cup {c}
      BY <2>2
    <3>3. ASSUME NEW m \in Calls, file # None, m \in file.marks,
                 file' = None \/ m \notin file'.marks
          PROVE  m \notin read[c] /\ (ThreadOf[c] # ThreadOf[m] \/ Edit!PutBack(m, c))
      <4>1. Known(m, c)
        BY <3>1, <3>3 DEF EditInv, MarkInv, Editing
      <4>2. file' # None
        <5>1. read[c] \cup {c} \in SUBSET Marks
          BY <3>1 DEF EditInv, EditTyped, Editing, Marks
        <5>2. QED
          BY <2>2, <5>1, EditAssumption DEF Marks
      <4>3. m \notin read[c]
        BY <3>2, <3>3, <4>2
      <4>4. QED
        BY <4>1, <4>3 DEF Known
    <3>4. \A d \in Calls : callPc[d] = "staged" /\ callPc'[d] = "reporting" =>
            d \in file'.marks /\ read[d] \subseteq file'.marks
      BY <3>1, <3>2
    <3>5. QED
      BY <3>1, <3>3, <3>4 DEF Edit!KeepsEdits
  <2>3. QED
    BY <1>6, <2>1, <2>2 DEF Edit!Replaces
<1>7. ASSUME Edit!Outside PROVE Edit!KeepsEdits
  <2>1. outside' # outside /\ callPc' = callPc
    BY <1>7 DEF Edit!Outside, EditInv, EditTyped
  <2>2. QED
    BY <2>1 DEF Edit!KeepsEdits
<1>8. ASSUME NEW c \in Calls, Edit!Invoke(c) \/ Edit!Abort(c) \/ Edit!TimesOut(c)
      PROVE  Edit!KeepsEdits
  <2>1. file' = file /\ (callPc' = callPc \/ Edit!Goes(c, "queued"))
    BY <1>8 DEF Edit!Invoke, Edit!Abort, Edit!TimesOut, Edit!diskVars
  <2>2. QED
    BY <1>1, <1>3, <2>1
<1>9. ASSUME NEW c \in Calls, Edit!WriteSaves(c) \/ Edit!Reports(c) PROVE Edit!KeepsEdits
  <2>1. file' = file /\ \E a : Edit!Answer(c, a)
    BY <1>9 DEF Edit!WriteSaves, Edit!Reports, Edit!diskVars
  <2>2. QED
    BY <1>1, <1>2, <2>1
<1>10. ASSUME NEW c \in Calls,
              Edit!EditReads(c) \/ Edit!Updates(c) \/ Edit!RunEnds(c) \/ Edit!Stages(c)
       PROVE  Edit!KeepsEdits
  <2>1. file' = file
    BY <1>10 DEF Edit!EditReads, Edit!Updates, Edit!RunEnds, Edit!Stages, Edit!diskVars
  <2>2. \/ \E a : Edit!Answer(c, a)
        \/ \E to \in {"updating", "asking", "staging", "staged"} : Edit!Goes(c, to)
    BY <1>10 DEF Edit!EditReads, Edit!Updates, Edit!RunEnds, Edit!Stages
  <2>3. QED
    BY <1>1, <1>2, <1>3, <2>1, <2>2
<1>11. ASSUME NEW c \in Calls, NEW found, Edit!Candidate(c, found) PROVE Edit!KeepsEdits
  <2>1. file' = file /\ (callPc' = callPc \/ Edit!Goes(c, "finishing"))
    BY <1>11 DEF Edit!Candidate, Edit!diskVars
  <2>2. QED
    BY <1>1, <1>3, <2>1
<1>12. ASSUME NEW t \in Edit!Threads, Edit!Dies(t) PROVE Edit!KeepsEdits
  <2>1. file' = file /\ \A d \in Calls : callPc'[d] \in {callPc[d], "done"}
    BY <1>12 DEF Edit!Dies, Edit!diskVars
  <2>2. QED
    BY <1>1, <2>1
<1>13. QED
  BY <1>4, <1>5, <1>6, <1>7, <1>8, <1>9, <1>10, <1>11, <1>12 DEF Edit!Next, Edit!Step

(* What a call undoes it has not read, and it came from another thread or was put back by one: the
   calls of one thread keep each other's (withPathLock, lock.ts:17), for any number of threads,
   and of removals and changes from outside *)
THEOREM EditsAreKept == Edit!Spec => EditsSurvive
<1>1. EditInv /\ [Edit!Next]_(Edit!vars) => [Edit!KeepsEdits]_(Edit!vars)
  BY StepKeepsEdits
<1>2. QED
  BY <1>1, EditInit, EditStep, PTL DEF Edit!Spec, EditsSurvive, Edit!EditsSurvive

(* Of the calls of a thread one at a time is past its queue (withPathLock), no correction is asked
   for beyond the model's turns (runSubagent), and what is left beside the file an operation
   that failed, or a thread that ended, has left there *)
THEOREM EditTypes == Edit!Spec => []Edit!TypeOK
<1>1. ASSUME EditInv PROVE Edit!TypeOK
  <2>1. file # None => file.marks \subseteq Calls \cup ({"outside"} \X (0 .. MaxOutside))
    BY <1>1 DEF EditInv, EditTyped, Marks
  <2>2. ASSUME NEW t \in Edit!Threads, NEW k \in 2 .. Len(chain[t])
        PROVE  callPc[chain[t][k]] = "queued"
    <3>1. k \in 1 .. Len(chain[t]) /\ k # 1
      BY <1>1 DEF EditInv, EditTyped
    <3>2. QED
      BY <1>1, <3>1 DEF EditInv, ChainInv
  <2>3. ASSUME NEW c \in Calls
        PROVE  callPc[c] \notin {"none", "done"} <=>
                 \E k \in DOMAIN chain[ThreadOf[c]] : chain[ThreadOf[c]][k] = c
    <3>1. ThreadOf[c] \in Edit!Threads /\ chain[ThreadOf[c]] \in Seq(Calls)
      BY <1>1, ThreadTyped DEF EditInv, EditTyped
    <3>2. DOMAIN chain[ThreadOf[c]] = 1 .. Len(chain[ThreadOf[c]])
      BY <3>1
    <3>3. ASSUME callPc[c] \notin {"none", "done"}
          PROVE  \E k \in DOMAIN chain[ThreadOf[c]] : chain[ThreadOf[c]][k] = c
      <4>1. callPc[c] \in Holding \cup {"queued"}
        BY <1>1, <3>3 DEF EditInv, EditTyped
      <4>2. QED
        BY <1>1, <3>2, <4>1 DEF EditInv, ChainInv
    <3>4. ASSUME NEW k \in DOMAIN chain[ThreadOf[c]], chain[ThreadOf[c]][k] = c
          PROVE  callPc[c] \notin {"none", "done"}
      <4>1. callPc[c] = "queued" \/ callPc[c] \in Holding
        BY <1>1, <3>1, <3>2, <3>4 DEF EditInv, ChainInv
      <4>2. QED
        BY <4>1 DEF Holding, Editing
    <3>5. QED
      BY <3>3, <3>4
  <2>4. \A c \in Calls :
          /\ callPc[c] = "asking" => turns[c] = sent[c] /\ turns[c] <= MaxCorrections
          /\ (callPc[c] = "done") = (answer[c] # None)
    BY <1>1 DEF EditInv, EditTyped
  <2>5. Edit!Cardinality({c \in staging : callPc[c] = "done"}) <= faults
    <3>1. Edit!Cardinality(Left) = Cardinality(Left)
      BY DEF Edit!Cardinality, Cardinality
    <3>2. QED
      BY <1>1, <3>1 DEF EditInv, StageInv, Left
  <2>6. QED
    BY <2>1, <2>2, <2>3, <2>4, <2>5 DEF Edit!TypeOK
<1>2. QED
  BY <1>1, EditInit, EditStep, PTL DEF Edit!Spec

-----------------------------------------------------------------------------
(* What a patch makes of a content *)

LEMMA LeastNat ==
  ASSUME NEW S, S \subseteq Nat, S # {}
  PROVE  \E x \in S : \A y \in S : x <= y
<1>1. PICK x \in S : \A y \in S : <<y, x>> \notin OpToRel(<, Nat)
  BY NatLessThanWellFounded, WFMin
<1>2. \A y \in S : ~(y < x)
  BY <1>1 DEF OpToRel
<1>3. QED
  BY <1>2

LEMMA LargestOf ==
  ASSUME NEW S, NEW m \in Nat, \A x \in S : x \in Int /\ x <= m, S # {}
  PROVE  \E x \in S : \A y \in S : x >= y
<1> DEFINE T == {m - x : x \in S}
<1>1. PICK x \in S : \A y \in S : m - x <= m - y
  <2>1. T \subseteq Nat /\ T # {}
    OBVIOUS
  <2>2. PICK z \in T : \A y \in T : z <= y
    BY <2>1, LeastNat
  <2>3. QED
    BY <2>2
<1>2. QED
  BY <1>1

LEMMA SeqOf ==
  ASSUME NEW R, NEW n \in Nat, NEW f, f = [i \in 1 .. n |-> f[i]], \A i \in 1 .. n : f[i] \in R
  PROVE  f \in Seq(R) /\ Len(f) = n
  OBVIOUS

LEMMA LeastIsIn ==
  ASSUME NEW S, S \subseteq Nat, S # {} PROVE Patch!Min(S) \in S
<1>1. \E x \in S : \A y \in S : x =< y
  BY LeastNat
<1>2. QED
  BY <1>1 DEF Patch!Min

LEMMA LargestIsIn ==
  ASSUME NEW S, NEW m \in Nat, S # {}, \A x \in S : x \in Int /\ x <= m
  PROVE  Patch!Max(S) \in S
<1>1. \E x \in S : \A y \in S : x >= y
  BY LargestOf
<1>2. QED
  BY <1>1 DEF Patch!Max

-----------------------------------------------------------------------------
(* Where a hunk is located *)

LinesTyped == lines \in Seq(LineRecord)

(* A match covers as many lines of the content as the hunk has source rows *)
Located(m) ==
  m.kind = "match" =>
    /\ m.rows \in Seq(RowRecord)
    /\ m.start \in Nat /\ m.end = m.start + Patch!Cardinality(Patch!SourceRows(m))
    /\ m.end <= Patch!Count

LEMMA SizeIsSize == \A S : Patch!Cardinality(S) = Cardinality(S)
BY DEF Patch!Cardinality, Cardinality

LEMMA SourceRowsFinite ==
  ASSUME NEW h, h.rows \in Seq(RowRecord)
  PROVE  /\ Patch!SourceRows(h) \subseteq 1 .. Len(h.rows) /\ IsFiniteSet(Patch!SourceRows(h))
         /\ Patch!Cardinality(Patch!SourceRows(h)) \in Nat
<1>1. Len(h.rows) \in Nat /\ Patch!SourceRows(h) \subseteq 1 .. Len(h.rows)
  BY DEF Patch!SourceRows
<1>2. IsFiniteSet(1 .. Len(h.rows))
  BY <1>1, FS_Interval
<1>3. IsFiniteSet(Patch!SourceRows(h))
  BY <1>1, <1>2, FS_Subset
<1>4. QED
  BY <1>1, <1>3, FS_CardinalityType, SizeIsSize

LEMMA MissIsLocated == Located(Patch!Miss) /\ Located(Patch!Ambiguous)
BY DEF Located, Patch!Miss, Patch!Ambiguous

LEMMA MatchIsLocated ==
  ASSUME NEW h, h.rows \in Seq(RowRecord), NEW start \in Nat, NEW mode, NEW indent,
         start + Patch!Cardinality(Patch!SourceRows(h)) <= Patch!Count
  PROVE  Located(Patch!Match(h, start, mode, indent))
<1> DEFINE m == Patch!Match(h, start, mode, indent)
           rows == h.rows
           size == Patch!Cardinality(Patch!SourceRows(h))
<1>1. m.rows = h.rows /\ m.start = start /\ m.end = start + size
  <2>1. m = [kind |-> "match", rows |-> rows, start |-> start, end |-> start + size,
             mode |-> mode, indent |-> indent]
    BY DEF Patch!Match
  <2> HIDE DEF m, size, rows
  <2>2. m.rows = rows /\ m.start = start /\ m.end = start + size
    BY <2>1
  <2>3. QED
    BY <2>2 DEF rows
<1>2. Patch!SourceRows(m) = Patch!SourceRows(h)
  BY <1>1 DEF Patch!SourceRows
<1> HIDE DEF m
<1>3. Located(m)
  BY <1>1, <1>2 DEF Located
<1>4. QED
  BY <1>3 DEF m

LEMMA MatchAtIsLocated ==
  ASSUME NEW h, h.rows \in Seq(RowRecord), NEW start \in Int, NEW mode
  PROVE  Located(Patch!MatchAt(h, start, mode))
<1>1. CASE start >= 0 /\ start + Patch!Cardinality(Patch!SourceRows(h)) <= Patch!Count
  <2>1. \/ Patch!MatchAt(h, start, mode) = Patch!Miss
        \/ \E i : Patch!MatchAt(h, start, mode) = Patch!Match(h, start, mode, i)
    BY Zenon DEF Patch!MatchAt
  <2>2. QED
    BY <1>1, <2>1, MissIsLocated, MatchIsLocated
<1>2. CASE ~(start >= 0 /\ start + Patch!Cardinality(Patch!SourceRows(h)) <= Patch!Count)
  <2> DEFINE fits == start >= 0 /\ start + Patch!Cardinality(Patch!SourceRows(h)) <= Patch!Count
  <2>1. Patch!MatchAt(h, start, mode) = Patch!Miss
    <3>1. \E C, i : Patch!MatchAt(h, start, mode) =
                     IF fits /\ C THEN Patch!Match(h, start, mode, i) ELSE Patch!Miss
      BY Zenon DEF Patch!MatchAt
    <3> HIDE DEF fits
    <3>2. ~fits
      BY <1>2 DEF fits
    <3>3. QED
      BY <3>1, <3>2, Zenon
  <2>2. QED
    BY <2>1, MissIsLocated
<1>3. QED
  BY <1>1, <1>2

LEMMA SearchIsLocated ==
  ASSUME NEW h, h.rows \in Seq(RowRecord), NEW from \in Nat, NEW mode
  PROVE  Located(Patch!SearchAll(h, mode, from))
<1> DEFINE places == {s \in from .. Patch!Count : Patch!MatchAt(h, s, mode) # Patch!Miss}
<1>1. places # {} => Patch!Min(places) \in places
  <2>1. places \subseteq Nat
    OBVIOUS
  <2>2. QED
    BY <2>1, LeastIsIn
<1>2. \/ Patch!SearchAll(h, mode, from) \in {Patch!Miss, Patch!Ambiguous}
      \/ /\ places # {}
         /\ Patch!SearchAll(h, mode, from) = Patch!MatchAt(h, Patch!Min(places), mode)
  BY DEF Patch!SearchAll
<1>3. places \subseteq Int
  OBVIOUS
<1> HIDE DEF places
<1>4. QED
  BY <1>1, <1>2, <1>3, MissIsLocated, MatchAtIsLocated

(* The first attempt that is not a miss is one of them *)
LEMMA FirstHitIsLocated ==
  ASSUME NEW n \in Nat, NEW attempts, DOMAIN attempts = 1 .. n,
         \A k \in 1 .. n : Located(attempts[k])
  PROVE  Located(Patch!FirstHit(attempts))
<1> DEFINE hits == {k \in DOMAIN attempts : attempts[k] # Patch!Miss}
<1>1. hits \subseteq 1 .. n /\ hits \subseteq Nat
  OBVIOUS
<1>2. hits # {} => Patch!Min(hits) \in hits
  <2> HIDE DEF hits
  <2>1. QED
    BY <1>1, LeastIsIn
<1>3. Patch!FirstHit(attempts) = IF hits = {} THEN Patch!Miss ELSE attempts[Patch!Min(hits)]
  BY DEF Patch!FirstHit
<1> HIDE DEF hits
<1>4. QED
  BY <1>1, <1>2, <1>3, MissIsLocated

LEMMA ResolveIsLocated ==
  ASSUME NEW h, h.rows \in Seq(RowRecord), h.at \in {None} \cup Nat, NEW from \in Nat, LinesTyped
  PROVE  Located(Patch!Resolve(h, from))
<1> DEFINE modes == IF fuzzy THEN <<"exact", "fuzzy">> ELSE <<"exact">>
           at == IF h.at = None THEN from ELSE h.at
           n == IF fuzzy THEN 2 ELSE 1
           near == IF h.at # None /\ h.at > from
                   THEN [k \in DOMAIN modes |-> Patch!MatchAt(h, h.at - 1, modes[k])] ELSE <<>>
           far == [k \in DOMAIN modes |-> Patch!SearchAll(h, modes[k], from)]
<1>1. Located([kind |-> "bad_anchor"])
  BY DEF Located
<1>2. at \in Nat /\ Patch!Count \in Nat
  BY DEF LinesTyped, Patch!Count
<1>3. CASE Patch!SourceRows(h) = {}
  <2>1. Patch!Cardinality(Patch!SourceRows(h)) = 0
    BY <1>3, FS_EmptySet, SizeIsSize
  <2>2. \/ Patch!Resolve(h, from) = [kind |-> "bad_anchor"]
        \/ /\ Patch!Resolve(h, from) = Patch!Match(h, at, "exact", 0)
           /\ ~(at > Patch!Count)
    BY <1>3 DEF Patch!Resolve
  <2> HIDE DEF at
  <2>3. QED
    BY <1>1, <1>2, <2>1, <2>2, MatchIsLocated
<1>4. CASE Patch!SourceRows(h) # {}
  <2>1. Patch!Resolve(h, from) = Patch!FirstHit(near \o far)
    BY <1>4 DEF Patch!Resolve
  <2>2. DOMAIN modes = 1 .. n /\ n \in Nat
    <3>1. CASE fuzzy
      BY <3>1
    <3>2. CASE ~fuzzy
      BY <3>2
    <3>3. QED
      BY <3>1, <3>2
  <2>3. \A k \in 1 .. n : Located(far[k])
    BY <2>2, SearchIsLocated
  <2>4. CASE h.at # None /\ h.at > from
    <3>1. h.at - 1 \in Int
      BY <2>4
    <3>2. near = [k \in DOMAIN modes |-> Patch!MatchAt(h, h.at - 1, modes[k])]
      BY <2>4
    <3>3. \A k \in 1 .. n : Located(near[k])
      BY <2>2, <3>1, <3>2, MatchAtIsLocated
    <3> DEFINE R == {near[k] : k \in 1 .. n} \cup {far[k] : k \in 1 .. n}
               both == near \o far
    <3>4. near = [k \in 1 .. n |-> near[k]] /\ far = [k \in 1 .. n |-> far[k]]
      BY <2>2, <3>2
    <3>5. \A k \in 1 .. n : near[k] \in R /\ far[k] \in R
      OBVIOUS
    <3> HIDE DEF near, far, n, modes, R
    <3>6. near \in Seq(R) /\ Len(near) = n /\ far \in Seq(R) /\ Len(far) = n
      BY <2>2, <3>4, <3>5, SeqOf
    <3>7. /\ both \in Seq(R) /\ Len(both) = n + n /\ n \in Nat
          /\ \A k \in 1 .. n + n : both[k] = IF k <= n THEN near[k] ELSE far[k - n]
      <4>1. n \in Nat
        BY <2>2
      <4>2. /\ both \in Seq(R) /\ Len(both) = Len(near) + Len(far)
            /\ \A k \in 1 .. Len(near) + Len(far) :
                 both[k] = IF k <= Len(near) THEN near[k] ELSE far[k - Len(near)]
        BY <3>6, ConcatProperties
      <4> HIDE DEF both
      <4>3. QED
        BY <3>6, <4>1, <4>2
    <3>8. DOMAIN both = 1 .. n + n
      BY <3>7
    <3> HIDE DEF both
    <3>9. \A k \in 1 .. n + n : Located(both[k])
      <4> TAKE k \in 1 .. n + n
      <4>1. CASE k <= n
        <5>1. k \in 1 .. n /\ both[k] = near[k]
          BY <3>7, <4>1
        <5>2. QED
          BY <5>1, <3>3
      <4>2. CASE k > n
        <5>1. k - n \in 1 .. n /\ both[k] = far[k - n]
          BY <3>7, <4>2
        <5>2. QED
          BY <5>1, <2>3
      <4>3. QED
        BY <3>7, <4>1, <4>2
    <3>10. Located(Patch!FirstHit(both))
      BY <3>7, <3>8, <3>9, FirstHitIsLocated
    <3>11. QED
      BY <2>1, <3>10 DEF both
  <2>5. CASE ~(h.at # None /\ h.at > from)
    <3>1. far = [k \in 1 .. n |-> far[k]] /\ near = <<>>
      BY <2>2, <2>5
    <3> HIDE DEF near, far, n, modes
    <3>2. far \in Seq({far[k] : k \in 1 .. n}) /\ DOMAIN far = 1 .. n
      BY <2>2, <3>1, SeqOf
    <3>3. near \o far = far
      BY <3>1, <3>2
    <3>4. QED
      BY <2>1, <2>2, <2>3, <3>2, <3>3, FirstHitIsLocated
  <2>6. QED
    BY <2>4, <2>5
<1>5. QED
  BY <1>3, <1>4

LEMMA LocateIsLocated ==
  ASSUME NEW h \in HunkRecord, LinesTyped, cursor \in Nat PROVE Located(Patch!Locate(h))
<1>1. ASSUME NEW from \in Nat PROVE Located(Patch!ResolveHunk(h, from))
  <2> DEFINE lead(k) == Patch!FuzzLevels[k][1]
             tail(k) == Patch!FuzzLevels[k][2]
             m(k) == Patch!Resolve(Patch!Trim(h, lead(k), tail(k)), from + lead(k))
             level(k) == IF ~Patch!CanTrim(h, lead(k), tail(k)) THEN Patch!Miss
                         ELSE IF /\ m(k).kind = "match"
                                 /\ ~Patch!BoundaryHolds(h, m(k), lead(k), tail(k))
                              THEN Patch!Miss
                         ELSE m(k)
  <2>1. h.rows \in Seq(RowRecord) /\ h.at \in {None} \cup Nat
    BY DEF HunkRecord
  <2>2. Located(Patch!Resolve(h, from))
    BY <2>1, ResolveIsLocated
  <2>3. ASSUME NEW k \in 1 .. 5 PROVE Located(level(k))
    <3>1. CASE Patch!CanTrim(h, lead(k), tail(k))
      <4>1. lead(k) \in Nat /\ tail(k) \in Nat
        BY DEF Patch!FuzzLevels
      <4>2. lead(k) + tail(k) < Len(h.rows)
        BY <3>1 DEF Patch!CanTrim
      <4> HIDE DEF lead, tail
      <4> DEFINE t == Patch!Trim(h, lead(k), tail(k))
      <4>3. t.rows = SubSeq(h.rows, lead(k) + 1, Len(h.rows) - tail(k))
        BY DEF Patch!Trim, HunkRecord
      <4>4. t.at = IF h.at = None THEN None ELSE h.at + lead(k)
        BY DEF Patch!Trim, HunkRecord
      <4>5. t.rows \in Seq(RowRecord)
        <5>1. /\ lead(k) + 1 \in 1 .. Len(h.rows) + 1
              /\ Len(h.rows) - tail(k) \in lead(k) + 1 - 1 .. Len(h.rows)
          BY <2>1, <4>1, <4>2
        <5>2. QED
          BY <2>1, <4>3, <5>1, SubSeqProperties
      <4>6. t.at \in {None} \cup Nat /\ from + lead(k) \in Nat
        BY <2>1, <4>1, <4>4
      <4> HIDE DEF t
      <4>7. Located(Patch!Resolve(t, from + lead(k)))
        BY <4>5, <4>6, ResolveIsLocated
      <4>8. level(k) \in {Patch!Miss, Patch!Resolve(t, from + lead(k))}
        BY DEF t
      <4> HIDE DEF level
      <4>9. QED
        BY <4>7, <4>8, MissIsLocated
    <3>2. QED
      BY <3>1, MissIsLocated
  <2>4. \/ Patch!ResolveHunk(h, from) = Patch!Resolve(h, from)
        \/ Patch!ResolveHunk(h, from)
             = Patch!FirstHit([k \in DOMAIN Patch!FuzzLevels |-> level(k)])
    BY DEF Patch!ResolveHunk
  <2>5. DOMAIN Patch!FuzzLevels = 1 .. 5
    BY DEF Patch!FuzzLevels
  <2> HIDE DEF level
  <2>6. Located(Patch!FirstHit([k \in DOMAIN Patch!FuzzLevels |-> level(k)]))
    BY <2>3, <2>5, FirstHitIsLocated
  <2>7. QED
    BY <2>2, <2>4, <2>6
<1>2. Patch!Count \in Nat
  BY DEF LinesTyped, Patch!Count
<1> DEFINE from == IF scoped THEN cursor ELSE 0
           scopes == {k \in from .. Patch!Count - 1 : lines[k + 1].text = h.scope}
<1>3. from \in Nat /\ scopes \subseteq Nat
  BY <1>2
<1>4. \/ Patch!Locate(h) \in {Patch!Miss, Patch!Ambiguous}
      \/ Patch!Locate(h) = Patch!ResolveHunk(h, from)
      \/ scopes # {} /\ Patch!Locate(h) = Patch!ResolveHunk(h, Patch!Min(scopes) + 1)
  BY DEF Patch!Locate
<1> HIDE DEF from, scopes
<1>5. scopes # {} => Patch!Min(scopes) + 1 \in Nat
  <2>1. scopes # {} => Patch!Min(scopes) \in Nat
    BY <1>3, LeastIsIn
  <2>2. QED
    BY <2>1
<1>6. QED
  BY <1>1, <1>3, <1>4, <1>5, MissIsLocated

-----------------------------------------------------------------------------
(* The splices of a hunk *)

LEMMA LinesOfContent ==
  ASSUME LinesTyped
  PROVE  /\ Patch!Count \in Nat /\ Len(Patch!Tokens) \in Nat
         /\ Len(Patch!Tokens) <= 2 * Patch!Count
         /\ Patch!Count > 0 => Len(Patch!Tokens) >= 2 * Patch!Count - 1
         /\ Patch!Count = 0 => Len(Patch!Tokens) = 0
<1> DEFINE n == 2 * Patch!Count - (IF Patch!EndsOpen THEN 1 ELSE 0)
           f == Patch!Tokens
<1>1. Patch!Count \in Nat
  BY DEF LinesTyped, Patch!Count
<1>2. Patch!EndsOpen => Patch!Count > 0
  BY DEF Patch!EndsOpen
<1>3. /\ n \in Nat /\ n <= 2 * Patch!Count
      /\ Patch!Count > 0 => n >= 2 * Patch!Count - 1
      /\ Patch!Count = 0 => n = 0
  <2>1. CASE Patch!EndsOpen
    BY <1>1, <1>2, <2>1
  <2>2. CASE ~Patch!EndsOpen
    BY <1>1, <2>2
  <2>3. QED
    BY <2>1, <2>2
<1>4. f = [p \in 1 .. n |-> f[p]]
  BY DEF Patch!Tokens
<1> HIDE DEF n, f
<1>5. f \in Seq({f[p] : p \in 1 .. n}) /\ Len(f) = n
  <2> DEFINE R == {f[p] : p \in 1 .. n}
  <2>1. \A p \in 1 .. n : f[p] \in R
    OBVIOUS
  <2> HIDE DEF R
  <2>2. f \in Seq(R) /\ Len(f) = n
    BY <1>3, <1>4, <2>1, SeqOf
  <2>3. QED
    BY <2>2 DEF R
<1>6. QED
  BY <1>1, <1>3, <1>5 DEF f

(* How many source rows come before a row: more for later rows, and fewer than there are for
   a source row *)
LEMMA LinesGrow ==
  ASSUME NEW m, m.rows \in Seq(RowRecord), m.start \in Nat, NEW r \in Nat, NEW q \in Nat, r <= q
  PROVE  /\ Patch!LineOf(m, m.start, r) \in Nat
         /\ m.start <= Patch!LineOf(m, m.start, r)
         /\ Patch!LineOf(m, m.start, r) <= Patch!LineOf(m, m.start, q)
         /\ Patch!LineOf(m, m.start, r) <= m.start + Patch!Cardinality(Patch!SourceRows(m))
         /\ r \in Patch!SourceRows(m) =>
              /\ r < q => Patch!LineOf(m, m.start, r) + 1 <= Patch!LineOf(m, m.start, q)
              /\ Patch!LineOf(m, m.start, r) + 1
                   <= m.start + Patch!Cardinality(Patch!SourceRows(m))
<1> DEFINE S == Patch!SourceRows(m)
           T(x) == {y \in S : y < x}
<1>1. IsFiniteSet(S) /\ Cardinality(S) \in Nat /\ S \subseteq Nat
  BY SourceRowsFinite, SizeIsSize
<1>2. \A x : Patch!LineOf(m, m.start, x) = m.start + Cardinality(T(x))
  BY SizeIsSize DEF Patch!LineOf
<1> HIDE DEF S
<1>3. \A x : /\ IsFiniteSet(T(x)) /\ Cardinality(T(x)) \in Nat
             /\ Cardinality(T(x)) <= Cardinality(S)
  BY <1>1, FS_Subset, FS_CardinalityType
<1>4. Cardinality(T(r)) <= Cardinality(T(q))
  <2>1. T(r) \subseteq T(q)
    <3>1. \A y \in S : y < r => y < q
      BY <1>1
    <3>2. QED
      BY <3>1
  <2>2. QED
    BY <1>3, <2>1, FS_Subset
<1>5. ASSUME r \in S
      PROVE  /\ r < q => Cardinality(T(r)) + 1 <= Cardinality(T(q))
             /\ Cardinality(T(r)) + 1 <= Cardinality(S)
  <2>1. Cardinality(T(r) \cup {r}) = Cardinality(T(r)) + 1 /\ IsFiniteSet(T(r) \cup {r})
    <3>1. r \notin T(r)
      OBVIOUS
    <3>2. IsFiniteSet(T(r))
      BY <1>3
    <3> HIDE DEF T
    <3>3. QED
      BY <3>1, <3>2, FS_AddElement
  <2>2. T(r) \cup {r} \subseteq S /\ (r < q => T(r) \cup {r} \subseteq T(q))
    <3>1. r \notin {y \in S : y < r} /\ \A y \in S : y < r => y < q
      BY <1>1
    <3>2. QED
      BY <1>5, <3>1
  <2>3. Cardinality(T(r) \cup {r}) <= Cardinality(S)
    BY <1>1, <2>2, FS_Subset
  <2>4. r < q => Cardinality(T(r) \cup {r}) <= Cardinality(T(q))
    BY <1>3, <2>2, FS_Subset
  <2>5. QED
    BY <2>1, <2>3, <2>4
<1>6. Patch!Cardinality(Patch!SourceRows(m)) = Cardinality(S)
  BY SizeIsSize DEF S
<1> HIDE DEF T
<1>7. QED
  BY <1>1, <1>2, <1>3, <1>4, <1>5, <1>6 DEF S

(* A run of changed rows has no changed row before it and none after it *)
LEMMA RunOf ==
  ASSUME NEW m, m.rows \in Seq(RowRecord), NEW run \in Patch!Runs(m)
  PROVE  /\ run[1] \in 1 .. Len(m.rows) /\ run[2] \in 1 .. Len(m.rows) /\ run[1] <= run[2]
         /\ \A r \in run[1] .. run[2] : m.rows[r].operation # "context"
         /\ \A r \in {run[1] - 1, run[2] + 1} :
              r \in 1 .. Len(m.rows) => m.rows[r].operation = "context"
<1>1. DOMAIN m.rows = 1 .. Len(m.rows) /\ Len(m.rows) \in Nat
  OBVIOUS
<1>2. run[1] \in 1 .. Len(m.rows) /\ run[2] \in 1 .. Len(m.rows) /\ run[1] <= run[2]
  BY <1>1 DEF Patch!Runs
<1>3. \A r \in run[1] .. run[2] : m.rows[r].operation # "context"
  BY <1>1 DEF Patch!Runs
<1>4. \A r \in {run[1] - 1, run[2] + 1} :
        r \in 1 .. Len(m.rows) => m.rows[r].operation = "context"
  BY <1>1 DEF Patch!Runs
<1>5. QED
  BY <1>2, <1>3, <1>4

LEMMA SpliceWithin ==
  ASSUME LinesTyped, NEW m, Located(m), m.kind = "match", NEW run \in Patch!Runs(m)
  PROVE  LET s == Patch!SpliceOf(m, run)
             at == Patch!At(m, run)
             deleted == Patch!Deleted(m, run)
         IN /\ at \in 0 .. Patch!Count
            /\ s.start = Patch!Start(at)
            /\ \/ s.end = s.start
               \/ \E k \in deleted : k \in at .. Patch!Count - 1 /\ s.end = Patch!End(k)
            /\ s.start \in Nat /\ s.end \in Nat /\ s.start <= s.end
            /\ s.end <= Len(Patch!Tokens)
<1> DEFINE s == Patch!SpliceOf(m, run)
           at == Patch!At(m, run)
           deleted == Patch!Deleted(m, run)
           end == IF deleted = {} THEN Patch!Start(at) ELSE Patch!End(Patch!Max(deleted))
<1>1. /\ m.rows \in Seq(RowRecord) /\ m.start \in Nat
      /\ m.start + Patch!Cardinality(Patch!SourceRows(m)) <= Patch!Count
  BY DEF Located
<1>2. /\ run[1] \in 1 .. Len(m.rows) /\ run[2] \in 1 .. Len(m.rows) /\ Len(m.rows) \in Nat
  BY <1>1, RunOf
<1>3. /\ Patch!Count \in Nat /\ Len(Patch!Tokens) \in Nat
      /\ Len(Patch!Tokens) <= 2 * Patch!Count
      /\ Patch!Count > 0 => Len(Patch!Tokens) >= 2 * Patch!Count - 1
      /\ Patch!Count = 0 => Len(Patch!Tokens) = 0
  BY LinesOfContent
<1>4. at \in 0 .. Patch!Count
  <2>1. /\ at \in Nat
        /\ at <= m.start + Patch!Cardinality(Patch!SourceRows(m))
    BY <1>1, <1>2, LinesGrow DEF Patch!At
  <2>2. Patch!Cardinality(Patch!SourceRows(m)) \in Nat
    BY <1>1, SourceRowsFinite
  <2> HIDE DEF at
  <2>3. QED
    BY <1>1, <1>3, <2>1, <2>2
<1>5. ASSUME NEW k \in deleted PROVE k \in at .. Patch!Count - 1
  <2>1. PICK r \in run[1] .. run[2] :
          m.rows[r].operation = "delete" /\ k = Patch!LineOf(m, m.start, r)
    BY DEF Patch!Deleted
  <2>2. r \in Nat /\ r \in 1 .. Len(m.rows) /\ run[1] \in Nat /\ run[1] <= r
    BY <1>2
  <2>3. r \in Patch!SourceRows(m)
    BY <1>1, <2>1, <2>2 DEF Patch!SourceRows
  <2>4. /\ k \in Nat
        /\ k + 1 <= m.start + Patch!Cardinality(Patch!SourceRows(m))
    BY <1>1, <2>1, <2>2, <2>3, LinesGrow
  <2>5. at <= k
    BY <1>1, <2>1, <2>2, LinesGrow DEF Patch!At
  <2>6. Patch!Cardinality(Patch!SourceRows(m)) \in Nat
    BY <1>1, SourceRowsFinite
  <2> HIDE DEF at, deleted
  <2>7. QED
    BY <1>1, <1>3, <1>4, <2>4, <2>5, <2>6
<1>6. s.start = Patch!Start(at) /\ s.end = end
  <2>1. \E text : s = [start |-> Patch!Start(at), end |-> end, text |-> text]
    BY Zenon DEF Patch!SpliceOf
  <2> HIDE DEF s, at, end
  <2>2. QED
    BY <2>1
<1>7. \/ deleted = {} /\ s.end = Patch!Start(at)
      \/ \E k \in deleted : k \in at .. Patch!Count - 1 /\ s.end = Patch!End(k)
  <2>1. CASE deleted # {}
    <3>1. \A k \in deleted : k \in Int /\ k <= Patch!Count
      <4> HIDE DEF deleted, at
      <4>1. QED
        BY <1>3, <1>4, <1>5
    <3> HIDE DEF deleted
    <3>2. Patch!Max(deleted) \in deleted
      BY <1>3, <2>1, <3>1, LargestIsIn
    <3>3. s.end = Patch!End(Patch!Max(deleted))
      BY <1>6, <2>1
    <3> HIDE DEF s, at, end
    <3>4. QED
      BY <1>5, <3>2, <3>3
  <2>2. CASE deleted = {}
    BY <1>6, <2>2
  <2>3. QED
    BY <2>1, <2>2
<1> HIDE DEF s, at, deleted, end
<1>8. Patch!Start(at) \in Nat /\ Patch!Start(at) <= Len(Patch!Tokens)
  BY <1>3, <1>4 DEF Patch!Start
<1>9. ASSUME NEW k \in at .. Patch!Count - 1
      PROVE  /\ Patch!End(k) \in Nat /\ Patch!Start(at) <= Patch!End(k)
             /\ Patch!End(k) <= Len(Patch!Tokens)
  BY <1>3, <1>4 DEF Patch!Start, Patch!End
<1>10. QED
  BY <1>4, <1>6, <1>7, <1>8, <1>9 DEF s, at, deleted

(* Two runs of changed rows have a row between them, of context, which covers a line *)
LEMMA RunsApart ==
  ASSUME NEW m, m.rows \in Seq(RowRecord), NEW run \in Patch!Runs(m), NEW other \in Patch!Runs(m),
         run # other
  PROVE  run[2] + 1 < other[1] \/ other[2] + 1 < run[1]
<1>1. ASSUME NEW a \in Patch!Runs(m), NEW b \in Patch!Runs(m), a[1] < b[1]
      PROVE  a[2] + 1 < b[1]
  <2>1. /\ a[1] \in 1 .. Len(m.rows) /\ a[2] \in 1 .. Len(m.rows) /\ a[1] <= a[2]
        /\ b[1] \in 1 .. Len(m.rows) /\ b[2] \in 1 .. Len(m.rows) /\ b[1] <= b[2]
        /\ Len(m.rows) \in Nat
    BY RunOf
  <2>2. b[1] - 1 \notin a[1] .. a[2]
    <3>1. b[1] - 1 \in 1 .. Len(m.rows)
      BY <1>1, <2>1
    <3>2. m.rows[b[1] - 1].operation = "context"
      BY <3>1, RunOf
    <3>3. QED
      BY <3>2, RunOf
  <2>3. a[2] + 1 \notin b[1] .. b[2]
    <3>1. CASE a[2] + 1 \in 1 .. Len(m.rows)
      <4>1. m.rows[a[2] + 1].operation = "context"
        BY <3>1, RunOf
      <4>2. QED
        BY <4>1, RunOf
    <3>2. CASE a[2] + 1 \notin 1 .. Len(m.rows)
      BY <2>1, <3>2
    <3>3. QED
      BY <3>1, <3>2
  <2>4. QED
    BY <1>1, <2>1, <2>2, <2>3
<1>2. ASSUME NEW a \in Patch!Runs(m), NEW b \in Patch!Runs(m), a[1] = b[1]
      PROVE  ~(a[2] < b[2])
  <2>1. /\ a[1] \in 1 .. Len(m.rows) /\ a[2] \in 1 .. Len(m.rows) /\ a[1] <= a[2]
        /\ b[1] \in 1 .. Len(m.rows) /\ b[2] \in 1 .. Len(m.rows) /\ b[1] <= b[2]
        /\ Len(m.rows) \in Nat
    BY RunOf
  <2>2. SUFFICES ASSUME a[2] < b[2] PROVE FALSE
    OBVIOUS
  <2>3. a[2] + 1 \in 1 .. Len(m.rows) /\ a[2] + 1 \in b[1] .. b[2]
    BY <1>2, <2>1, <2>2
  <2>4. m.rows[a[2] + 1].operation = "context"
    BY <2>3, RunOf
  <2>5. QED
    BY <2>3, <2>4, RunOf
<1>3. /\ run[1] \in Nat /\ run[2] \in Nat /\ other[1] \in Nat /\ other[2] \in Nat
  <2>1. Len(m.rows) \in Nat
    OBVIOUS
  <2>2. QED
    BY <2>1, RunOf
<1>4. run[1] # other[1] \/ run[2] # other[2]
  BY DEF Patch!Runs
<1>5. QED
  BY <1>1, <1>2, <1>3, <1>4

LEMMA SplicesInOrder ==
  ASSUME LinesTyped, NEW m, Located(m), m.kind = "match", NEW run \in Patch!Runs(m),
         NEW other \in Patch!Runs(m), run[2] + 1 < other[1]
  PROVE  Patch!SpliceOf(m, run).end < Patch!SpliceOf(m, other).start
<1> DEFINE line == Patch!LineOf(m, m.start, run[2] + 1)
           s == Patch!SpliceOf(m, run)
           t == Patch!SpliceOf(m, other)
<1>1. /\ m.rows \in Seq(RowRecord) /\ Len(m.rows) \in Nat /\ m.start \in Nat
      /\ m.start + Patch!Cardinality(Patch!SourceRows(m)) <= Patch!Count
      /\ Patch!Cardinality(Patch!SourceRows(m)) \in Nat
  BY SourceRowsFinite DEF Located
<1>2. /\ run[1] \in 1 .. Len(m.rows) /\ run[2] \in 1 .. Len(m.rows) /\ run[1] <= run[2]
      /\ other[1] \in 1 .. Len(m.rows)
  BY <1>1, RunOf
<1>3. /\ Patch!Count \in Nat /\ Len(Patch!Tokens) \in Nat
      /\ Patch!Count > 0 => Len(Patch!Tokens) >= 2 * Patch!Count - 1
  BY LinesOfContent
<1>4. run[2] + 1 \in Patch!SourceRows(m)
  <2>1. run[2] + 1 \in 1 .. Len(m.rows)
    BY <1>1, <1>2
  <2>2. m.rows[run[2] + 1].operation = "context"
    BY <1>1, <2>1, RunOf
  <2>3. QED
    BY <1>1, <2>1, <2>2 DEF Patch!SourceRows
<1>5. /\ line \in Nat /\ line + 1 <= m.start + Patch!Cardinality(Patch!SourceRows(m))
      /\ line + 1 <= Patch!At(m, other)
  <2>1. run[2] + 1 \in Nat /\ other[1] \in Nat /\ run[2] + 1 <= other[1]
    BY <1>1, <1>2
  <2>2. QED
    BY <1>1, <1>4, <2>1, LinesGrow DEF Patch!At
<1>6. Patch!At(m, run) <= line
  <2>1. run[1] \in Nat /\ run[2] + 1 \in Nat /\ run[1] <= run[2] + 1
    BY <1>1, <1>2
  <2>2. QED
    BY <1>1, <2>1, LinesGrow DEF Patch!At
<1>7. ASSUME NEW k \in Patch!Deleted(m, run) PROVE k \in Nat /\ k + 1 <= line
  <2>1. PICK r \in run[1] .. run[2] :
          m.rows[r].operation = "delete" /\ k = Patch!LineOf(m, m.start, r)
    BY DEF Patch!Deleted
  <2>2. r \in 1 .. Len(m.rows) /\ r \in Nat /\ run[2] + 1 \in Nat /\ r <= run[2] + 1
        /\ r < run[2] + 1
    <3> DEFINE i == run[1]
               j == run[2]
               n == Len(m.rows)
    <3>1. n \in Nat /\ i \in 1 .. n /\ j \in 1 .. n /\ r \in i .. j
      BY <1>1, <1>2
    <3> HIDE DEF i, j, n
    <3>2. r \in 1 .. n /\ r \in Nat /\ j + 1 \in Nat /\ r <= j + 1 /\ r < j + 1
      BY <3>1
    <3>3. QED
      BY <3>2 DEF i, j, n
  <2>3. r \in Patch!SourceRows(m)
    BY <1>1, <2>1, <2>2 DEF Patch!SourceRows
  <2>4. QED
    BY <1>1, <2>1, <2>2, <2>3, LinesGrow
<1>8. line < Patch!Count
  <2> HIDE DEF line
  <2>1. QED
    BY <1>1, <1>3, <1>5
<1>9. /\ Patch!At(m, run) \in 0 .. Patch!Count /\ Patch!At(m, other) \in 0 .. Patch!Count
      /\ s.start = Patch!Start(Patch!At(m, run)) /\ t.start = Patch!Start(Patch!At(m, other))
      /\ s.end = s.start \/ \E k \in Patch!Deleted(m, run) : s.end = Patch!End(k)
  BY SpliceWithin
<1> HIDE DEF s, t, line
<1>10. s.end <= 2 * line /\ s.end \in Int
  <2>1. CASE s.end = s.start
    BY <1>3, <1>5, <1>6, <1>8, <1>9, <2>1 DEF Patch!Start
  <2>2. CASE \E k \in Patch!Deleted(m, run) : s.end = Patch!End(k)
    <3>1. PICK k \in Patch!Deleted(m, run) : s.end = Patch!End(k)
      BY <2>2
    <3>2. k \in Nat /\ k + 1 <= line
      BY <1>7
    <3>3. Patch!End(k) = 2 * k + 2
      BY <1>3, <1>5, <1>8, <3>2 DEF Patch!End
    <3>4. QED
      BY <1>5, <3>1, <3>2, <3>3
  <2>3. QED
    BY <1>9, <2>1, <2>2
<1>11. t.start >= 2 * line + 1 /\ t.start \in Int
  <2>1. CASE Patch!At(m, other) < Patch!Count
    BY <1>3, <1>5, <1>9, <2>1 DEF Patch!Start
  <2>2. CASE ~(Patch!At(m, other) < Patch!Count)
    <3>1. t.start = Len(Patch!Tokens)
      BY <1>9, <2>2 DEF Patch!Start
    <3>2. QED
      BY <1>3, <1>5, <1>8, <3>1
  <2>3. QED
    BY <2>1, <2>2
<1>12. s.end < t.start
  BY <1>5, <1>10, <1>11
<1>13. QED
  BY <1>12 DEF s, t

Splice(p) == p.start \in Nat /\ p.end \in Nat /\ p.start <= p.end

LEMMA ConflictIsMutual ==
  ASSUME NEW p, NEW q, Splice(p), Splice(q) PROVE Patch!Conflicts(p, q) <=> Patch!Conflicts(q, p)
BY DEF Splice, Patch!Conflicts, Patch!Overlap

LEMMA OneHunkApart ==
  ASSUME LinesTyped, NEW m, Located(m), m.kind = "match", NEW run \in Patch!Runs(m),
         NEW other \in Patch!Runs(m), run # other
  PROVE  ~Patch!Conflicts(Patch!SpliceOf(m, run), Patch!SpliceOf(m, other))
<1> DEFINE s == Patch!SpliceOf(m, run)
           t == Patch!SpliceOf(m, other)
<1>1. Splice(s) /\ Splice(t)
  BY SpliceWithin DEF Splice
<1>2. s.end < t.start \/ t.end < s.start
  <2>1. m.rows \in Seq(RowRecord)
    BY DEF Located
  <2>2. QED
    BY <2>1, RunsApart, SplicesInOrder
<1> HIDE DEF s, t
<1>3. ~Patch!Conflicts(s, t)
  BY <1>1, <1>2 DEF Splice, Patch!Conflicts, Patch!Overlap
<1>4. QED
  BY <1>3 DEF s, t

-----------------------------------------------------------------------------
(* A patch *)

PatchInv ==
  /\ LinesTyped
  /\ cursor \in 0 .. Patch!Count /\ newline \in {None, "add", "remove"}
  /\ \A p \in splices : Splice(p) /\ p.end <= Len(Patch!Tokens)
  /\ \A p, q \in splices : p # q => ~Patch!Conflicts(p, q)
  /\ \E S : taken \in Seq(S)
  /\ taken = <<>> => splices = {}

LEMMA PatchInit == Patch!Init => PatchInv
<1> SUFFICES ASSUME Patch!Init PROVE PatchInv
  OBVIOUS
<1>1. LinesTyped
  BY PatchAssumption DEF Patch!Init, LinesTyped
<1>2. Patch!Count \in Nat
  BY <1>1 DEF LinesTyped, Patch!Count
<1>3. taken \in Seq({}) /\ splices = {} /\ newline = None /\ cursor = 0
  BY DEF Patch!Init
<1>4. QED
  BY <1>1, <1>2, <1>3 DEF PatchInv

LEMMA TakeHunkKeeps ==
  ASSUME PatchInv, NEW h \in HunkRecord, Patch!TakeHunk(h) PROVE PatchInv'
<1> DEFINE m == Patch!Locate(h)
           changes == {Patch!SpliceOf(m, run) : run \in Patch!Runs(m)}
<1>1. lines' = lines /\ Patch!Count' = Patch!Count /\ Patch!Tokens' = Patch!Tokens
      /\ LinesTyped'
  BY DEF Patch!TakeHunk, Patch!Count, Patch!Tokens, Patch!EndsOpen, Patch!EolAt, PatchInv,
         LinesTyped
<1>2. Located(m)
  <2>1. cursor \in Nat /\ LinesTyped
    BY DEF PatchInv
  <2>2. QED
    BY <2>1, LocateIsLocated
<1>3. CASE UNCHANGED <<splices, newline, scoped, cursor, taken>>
  BY <1>1, <1>3 DEF PatchInv, Patch!Conflicts, Patch!Overlap
<1>4. CASE /\ m.kind = "match" /\ \A p \in splices, q \in changes : ~Patch!Conflicts(p, q)
           /\ splices' = splices \cup changes
           /\ newline' = IF Patch!Intent(m) = None THEN newline ELSE Patch!Intent(m)
           /\ cursor' = IF scoped' THEN m.end ELSE cursor
           /\ taken' = Append(taken, m)
  <2>1. cursor' \in 0 .. Patch!Count
    <3>1. m.end \in 0 .. Patch!Count
      <4>1. /\ m.rows \in Seq(RowRecord) /\ m.start \in Nat
            /\ m.end = m.start + Patch!Cardinality(Patch!SourceRows(m)) /\ m.end <= Patch!Count
        BY <1>2, <1>4 DEF Located
      <4>2. Patch!Cardinality(Patch!SourceRows(m)) \in Nat
        BY <4>1, SourceRowsFinite
      <4> HIDE DEF m
      <4>3. Patch!Count \in Nat
        BY DEF PatchInv, LinesTyped, Patch!Count
      <4>4. QED
        BY <4>1, <4>2, <4>3
    <3> HIDE DEF m, changes
    <3>2. QED
      BY <1>4, <3>1 DEF PatchInv
  <2>2. newline' \in {None, "add", "remove"}
    <3>1. Patch!Intent(m) \in {None, "add", "remove"}
      BY Zenon DEF Patch!Intent
    <3> HIDE DEF m, changes
    <3>2. QED
      BY <1>4, <3>1 DEF PatchInv
  <2>3. \A q \in changes : Splice(q) /\ q.end <= Len(Patch!Tokens)
    BY <1>2, <1>4, SpliceWithin DEF Splice, PatchInv
  <2>4. \A p, q \in changes : p # q => ~Patch!Conflicts(p, q)
    BY <1>2, <1>4, OneHunkApart DEF PatchInv
  <2> HIDE DEF m, changes
  <2>5. \A p, q \in splices' : p # q => ~Patch!Conflicts(p, q)
    <3>1. \A p \in splices, q \in changes :
            ~Patch!Conflicts(p, q) /\ ~Patch!Conflicts(q, p)
      BY <1>4, <2>3, ConflictIsMutual DEF PatchInv
    <3>2. QED
      BY <1>4, <2>4, <3>1 DEF PatchInv
  <2>6. (\E S : taken' \in Seq(S)) /\ taken' # <<>>
    <3>1. PICK S : taken \in Seq(S)
      BY DEF PatchInv
    <3>2. taken \in Seq(S \cup {m})
      BY <3>1
    <3>3. taken' \in Seq(S \cup {m}) /\ taken' # <<>>
      BY <1>4, <3>2
    <3>4. QED
      BY <3>3
  <2>7. \A p \in splices' : Splice(p) /\ p.end <= Len(Patch!Tokens)
    BY <1>4, <2>3 DEF PatchInv
  <2>8. (\A p, q \in splices : p # q => ~Patch!Conflicts(p, q))'
    BY <2>5 DEF Patch!Conflicts, Patch!Overlap
  <2>9. QED
    BY <1>1, <2>1, <2>2, <2>6, <2>7, <2>8 DEF PatchInv, Splice
<1>5. QED
  BY <1>3, <1>4 DEF Patch!TakeHunk

LEMMA PatchStep == PatchInv /\ [Patch!Next]_(Patch!vars) => PatchInv'
<1> SUFFICES ASSUME PatchInv, [Patch!Next]_(Patch!vars) PROVE PatchInv'
  OBVIOUS
<1>1. ASSUME UNCHANGED <<lines, splices, newline, cursor, taken>> PROVE PatchInv'
  <2>1. LinesTyped' /\ Patch!Count' = Patch!Count /\ Patch!Tokens' = Patch!Tokens
    BY <1>1 DEF Patch!Count, Patch!Tokens, Patch!EndsOpen, Patch!EolAt, PatchInv, LinesTyped
  <2>2. QED
    BY <1>1, <2>1 DEF PatchInv, Splice, Patch!Conflicts, Patch!Overlap
<1>2. ASSUME NEW k \in DOMAIN Hunks, NEW h \in Hunks[k], Patch!TakeHunk(h) PROVE PatchInv'
  BY <1>2, PatchAssumption, TakeHunkKeeps
<1>3. CASE Patch!Fails
  BY <1>1, <1>3 DEF Patch!Fails
<1>4. ASSUME NEW partial \in BOOLEAN, Patch!Finish(partial) PROVE PatchInv'
  BY <1>1, <1>4 DEF Patch!Finish
<1>5. CASE UNCHANGED Patch!vars
  BY <1>1, <1>5 DEF Patch!vars
<1>6. QED
  BY <1>2, <1>3, <1>4, <1>5 DEF Patch!Next

(* Wherever hunks are located, exactly, up to indentation or without outer rows, their splices lie
   within the content and no two overlap, of one hunk or of several (changeSplices, conflicts), so
   that applyUdiffs may carry out the last one first *)
THEOREM PatchTypes == Patch!Spec => []Patch!TypeOK
<1>1. PatchInv => Patch!TypeOK
  BY DEF PatchInv, Splice, Patch!TypeOK
<1>2. QED
  BY <1>1, PatchInit, PatchStep, PTL DEF Patch!Spec

-----------------------------------------------------------------------------
(* All three *)

(* What lies on disk is what its parts' state says: reservations, records and directories by
   process, the holder of a file's lock and what was left beside the file, and splices within
   the content of which no two overlap *)
THEOREM FilesTypes == Spec /\ Edit!Spec /\ Patch!Spec => []TypesOK
BY TypeInvariant, EditTypes, PatchTypes, PTL DEF TypesOK

=============================================================================
