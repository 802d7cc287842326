------------------------------- MODULE TempDirs -------------------------------
(***************************************************************************)
(* The managed temporary directories of one session                        *)
(* (packages/harness/src/lib/storage/temp-dirs.ts), on disk: a directory   *)
(* of metadata with one exclusive file per slot and one record per         *)
(* directory, and the payload directories themselves.  Several host        *)
(* processes share it, with no lock but the exclusive creation of a slot's *)
(* file, and any of them may die between two system calls.                 *)
(*                                                                         *)
(* A task is one call of create_temp_directory or release_temp_directory.  *)
(* Its steps are the system calls that other processes can come between.   *)
(* Within one process a task gives way only where it awaits the removal of *)
(* a payload.                                                              *)
(***************************************************************************)
EXTENDS Integers, FiniteSets

CONSTANTS
  Hosts,      \* host processes, each with a HOST_ID of its own
  Tasks,      \* calls that can be in progress
  HostOf,     \* the process each of them runs in
  Ids,        \* identities of directories, random UUIDs in the code
  MaxSlots,   \* MAX_DIRECTORIES, 64 in the code
  None        \* absence of an identity, or of a process

ASSUME TempDirsAssumption ==
  /\ HostOf \in [Tasks -> Hosts]
  /\ MaxSlots \in Nat
  /\ None \notin Ids \cup Hosts

VARIABLES
  slot,       \* slot[k]: the identity in the file slot-k, None without a file
  record,     \* the record of each identity: "none", "allocating" or "ready"
  place,      \* the slot named by a record, or tried for it
  maker,      \* record.host_id
  lifecycle,  \* record.type: "scratch" or "retained"
  update,     \* identities with an .update file
  payload,    \* identities whose directory exists
  pc,         \* the next system call of each task
  job,        \* the identity a task works on
  automatic,  \* the task is an automatic release, by the session's cleanup
  alive,      \* processes that have not died
  spent,      \* identities that were given out
  abandoned   \* identities whose task failed or died half way

diskVars == <<slot, record, place, maker, lifecycle, update, payload>>
taskVars == <<pc, job, automatic>>
vars == <<slot, record, place, maker, lifecycle, update, payload, pc, job, automatic,
          alive, spent, abandoned>>

Slots == 0 .. MaxSlots - 1

Creating == {"slot", "record", "mkdir", "update", "rename"}
Releasing == {"read", "match", "remove", "recheck", "unlink", "rematch", "free"}

Init ==
  /\ slot = [k \in Slots |-> None]
  /\ record = [id \in Ids |-> "none"]
  /\ place = [id \in Ids |-> 0]
  /\ maker = [id \in Ids |-> None]
  /\ lifecycle = [id \in Ids |-> "scratch"]
  /\ update = {}
  /\ payload = {}
  /\ pc = [t \in Tasks |-> "idle"]
  /\ job = [t \in Tasks |-> None]
  /\ automatic = [t \in Tasks |-> FALSE]
  /\ alive = Hosts
  /\ spent = {}
  /\ abandoned = {}

(* A task has its process to itself except while it awaits rm *)
HasThread(t) ==
  /\ HostOf[t] \in alive
  /\ \A u \in Tasks \ {t} : HostOf[u] = HostOf[t] => pc[u] \in {"idle", "remove"}

At(t, step) == pc[t] = step /\ HasThread(t)

Goto(t, step) == pc' = [pc EXCEPT ![t] = step] /\ UNCHANGED <<job, automatic>>

(* The call returns or throws *)
Ends(t) ==
  /\ pc' = [pc EXCEPT ![t] = "idle"]
  /\ job' = [job EXCEPT ![t] = None]
  /\ automatic' = [automatic EXCEPT ![t] = FALSE]

-----------------------------------------------------------------------------
(* create_temp_directory *)

Create(t, id, type) ==
  /\ At(t, "idle")
  /\ id \in Ids \ spent
  /\ spent' = spent \cup {id}
  /\ maker' = [maker EXCEPT ![id] = HostOf[t]]
  /\ lifecycle' = [lifecycle EXCEPT ![id] = type]
  /\ pc' = [pc EXCEPT ![t] = "slot"]
  /\ job' = [job EXCEPT ![t] = id]
  /\ UNCHANGED <<slot, record, place, update, payload, automatic, alive, abandoned>>

(* Mutant of TakeSlot: the search for a slot has no end *)
TakeSlotForever(t) ==
  LET id == job[t]
      k == place[id]
  IN  /\ At(t, "slot")
      /\ \/ /\ k \in Slots
            /\ slot[k] = None
            /\ slot' = [slot EXCEPT ![k] = id]
            /\ Goto(t, "record")
            /\ UNCHANGED place
         \/ /\ k \notin Slots \/ slot[k] # None
            /\ place' = [place EXCEPT ![id] = k + 1]
            /\ UNCHANGED <<slot, taskVars>>
      /\ UNCHANGED <<record, maker, lifecycle, update, payload, alive, spent, abandoned>>

(* One exclusive open: the slot is taken, or the next one is tried *)
TakeSlot(t) ==
  LET id == job[t]
      k == place[id]
  IN  /\ At(t, "slot")
      /\ \/ /\ k \in Slots
            /\ slot[k] = None
            /\ slot' = [slot EXCEPT ![k] = id]
            /\ Goto(t, "record")
            /\ UNCHANGED place
         \/ /\ k \in Slots
            /\ slot[k] # None
            /\ place' = [place EXCEPT ![id] = k + 1]
            /\ UNCHANGED <<slot, taskVars>>
         \/ /\ k \notin Slots
            /\ Ends(t)
            /\ UNCHANGED <<slot, place>>
      /\ UNCHANGED <<record, maker, lifecycle, update, payload, alive, spent, abandoned>>

WriteRecord(t) ==
  /\ At(t, "record")
  /\ record' = [record EXCEPT ![job[t]] = "allocating"]
  /\ Goto(t, "mkdir")
  /\ UNCHANGED <<slot, place, maker, lifecycle, update, payload, alive, spent, abandoned>>

MakeDirectory(t) ==
  /\ At(t, "mkdir")
  /\ payload' = payload \cup {job[t]}
  /\ Goto(t, "update")
  /\ UNCHANGED <<slot, record, place, maker, lifecycle, update, alive, spent, abandoned>>

WriteUpdate(t) ==
  /\ At(t, "update")
  /\ update' = update \cup {job[t]}
  /\ Goto(t, "rename")
  /\ UNCHANGED <<slot, record, place, maker, lifecycle, payload, alive, spent, abandoned>>

RenameUpdate(t) ==
  /\ At(t, "rename")
  /\ record' = [record EXCEPT ![job[t]] = "ready"]
  /\ update' = update \ {job[t]}
  /\ Ends(t)
  /\ UNCHANGED <<slot, place, maker, lifecycle, payload, alive, spent, abandoned>>

-----------------------------------------------------------------------------
(* release_temp_directory, as its three callers call it *)

Release(t, id, auto) ==
  /\ At(t, "idle")
  /\ id \in spent
  /\ pc' = [pc EXCEPT ![t] = "read"]
  /\ job' = [job EXCEPT ![t] = id]
  /\ automatic' = [automatic EXCEPT ![t] = auto]
  /\ UNCHANGED <<diskVars, alive, spent, abandoned>>

(* The user's tool names a directory *)
ReleaseByPath(t, id) == Release(t, id, FALSE)

(* An inventory met a ready record without its payload.  It awaits between    *)
(* one such release and the next, so the record may be gone by now.           *)
ReleaseMissing(t, id) ==
  /\ record[id] # "allocating"
  /\ id \notin payload
  /\ Release(t, id, FALSE)

(* The session's cleanup goes through the ready scratch directories of an     *)
(* inventory, which is stale in the same way.                                 *)
ReleaseScratch(t, id) ==
  /\ record[id] # "allocating"
  /\ lifecycle[id] = "scratch"
  /\ Release(t, id, TRUE)

(* Mutant of ReadRecord: an allocation in progress is released too *)
ReadAnyRecord(t) ==
  /\ At(t, "read")
  /\ IF record[job[t]] # "none" THEN Goto(t, "match") ELSE Ends(t)
  /\ UNCHANGED <<diskVars, alive, spent, abandoned>>

(* read_record and the checks of the record; all failures throw *)
ReadRecord(t) ==
  /\ At(t, "read")
  /\ IF record[job[t]] = "ready" /\ (automatic[t] => maker[job[t]] = HostOf[t])
     THEN Goto(t, "match")
     ELSE Ends(t)
  /\ UNCHANGED <<diskVars, alive, spent, abandoned>>

(* The reservation must match; then the removal begins *)
MatchSlot(t) ==
  /\ At(t, "match")
  /\ IF slot[place[job[t]]] = job[t] THEN Goto(t, "remove") ELSE Ends(t)
  /\ UNCHANGED <<diskVars, alive, spent, abandoned>>

(* rm resolves with the payload gone, or finds it missing *)
Removed(t) ==
  /\ At(t, "remove")
  /\ payload' = payload \ {job[t]}
  /\ Goto(t, "recheck")
  /\ UNCHANGED <<slot, record, place, maker, lifecycle, update, alive, spent, abandoned>>

(* rm, or the check for nested mounts before it, throws *)
RemovalFails(t) ==
  /\ At(t, "remove")
  /\ Ends(t)
  /\ UNCHANGED <<diskVars, alive, spent, abandoned>>

(* The payload is gone and the record is read again.  It may be missing: then *)
(* another release of it has come first.                                      *)
Recheck(t) ==
  /\ At(t, "recheck")
  /\ IF job[t] \notin payload /\ record[job[t]] # "none"
     THEN Goto(t, "unlink")
     ELSE Ends(t)
  /\ UNCHANGED <<diskVars, alive, spent, abandoned>>

(* Mutant of UnlinkRecord: a record that is already gone is not noticed *)
UnlinkRecordTwice(t) ==
  /\ At(t, "unlink")
  /\ record' = [record EXCEPT ![job[t]] = "none"]
  /\ Goto(t, "rematch")
  /\ UNCHANGED <<slot, place, maker, lifecycle, update, payload, alive, spent, abandoned>>

(* Mutant: the reservation is forgotten once the record is gone *)
UnlinkRecordOnly(t) ==
  /\ At(t, "unlink")
  /\ record' = [record EXCEPT ![job[t]] = "none"]
  /\ Ends(t)
  /\ UNCHANGED <<slot, place, maker, lifecycle, update, payload, alive, spent, abandoned>>

(* unlink of the record's file *)
UnlinkRecord(t) ==
  /\ At(t, "unlink")
  /\ IF record[job[t]] = "none"
     THEN Ends(t) /\ UNCHANGED record
     ELSE /\ record' = [record EXCEPT ![job[t]] = "none"]
          /\ Goto(t, "rematch")
  /\ UNCHANGED <<slot, place, maker, lifecycle, update, payload, alive, spent, abandoned>>

RematchSlot(t) ==
  /\ At(t, "rematch")
  /\ IF slot[place[job[t]]] = job[t] THEN Goto(t, "free") ELSE Ends(t)
  /\ UNCHANGED <<diskVars, alive, spent, abandoned>>

UnlinkSlot(t) ==
  /\ At(t, "free")
  /\ slot' = [slot EXCEPT ![place[job[t]]] = None]
  /\ Ends(t)
  /\ UNCHANGED <<record, place, maker, lifecycle, update, payload, alive, spent, abandoned>>

-----------------------------------------------------------------------------
(* Any system call may fail: the call throws and leaves the disk as it is *)
Fails(t) ==
  /\ pc[t] # "idle"
  /\ HasThread(t)
  /\ abandoned' = abandoned \cup {job[t]}
  /\ Ends(t)
  /\ UNCHANGED <<diskVars, alive, spent>>

(* A process dies *)
Dies(h) ==
  LET lost == {t \in Tasks : HostOf[t] = h}
  IN  /\ h \in alive
      /\ alive' = alive \ {h}
      /\ abandoned' = abandoned \cup ({job[t] : t \in lost} \ {None})
      /\ pc' = [t \in Tasks |-> IF t \in lost THEN "idle" ELSE pc[t]]
      /\ job' = [t \in Tasks |-> IF t \in lost THEN None ELSE job[t]]
      /\ automatic' = [t \in Tasks |-> IF t \in lost THEN FALSE ELSE automatic[t]]
      /\ UNCHANGED <<diskVars, spent>>

(* A command of the agent removes a payload itself *)
RemovedOutside(id) ==
  /\ id \in payload
  /\ payload' = payload \ {id}
  /\ UNCHANGED <<slot, record, place, maker, lifecycle, update, taskVars, alive, spent,
                 abandoned>>

Step(t) ==
  \/ TakeSlot(t) \/ WriteRecord(t) \/ MakeDirectory(t) \/ WriteUpdate(t) \/ RenameUpdate(t)
  \/ ReadRecord(t) \/ MatchSlot(t) \/ Removed(t) \/ RemovalFails(t) \/ Recheck(t)
  \/ UnlinkRecord(t) \/ RematchSlot(t) \/ UnlinkSlot(t)

Next ==
  \/ \E t \in Tasks :
       \/ \E id \in Ids, type \in {"scratch", "retained"} : Create(t, id, type)
       \/ \E id \in Ids : ReleaseByPath(t, id) \/ ReleaseMissing(t, id) \/ ReleaseScratch(t, id)
       \/ Step(t)
       \/ Fails(t)
  \/ \E h \in Hosts : Dies(h)
  \/ \E id \in Ids : RemovedOutside(id)

Spec == Init /\ [][Next]_vars

(* A call that has begun is carried on while its process lives *)
FairSpec == Spec /\ \A t \in Tasks : WF_vars(Step(t))

-----------------------------------------------------------------------------
DiskOK ==
  /\ slot \in [Slots -> Ids \cup {None}]
  /\ record \in [Ids -> {"none", "allocating", "ready"}]
  /\ place \in [Ids -> 0 .. MaxSlots]
  /\ maker \in [Ids -> Hosts \cup {None}]
  /\ lifecycle \in [Ids -> {"scratch", "retained"}]
  /\ update \in SUBSET Ids
  /\ payload \in SUBSET Ids
  /\ spent \in SUBSET Ids

TasksOK ==
  /\ pc \in [Tasks -> {"idle"} \cup Creating \cup Releasing]
  /\ job \in [Tasks -> Ids \cup {None}]
  /\ \A t \in Tasks : pc[t] = "idle" <=> job[t] = None
  /\ automatic \in [Tasks -> BOOLEAN]
  /\ alive \in SUBSET Hosts
  /\ abandoned \in SUBSET Ids

TypeOK == DiskOK /\ TasksOK

(* Every record holds the reservation it names: no slot is freed, and taken   *)
(* by another directory, under a record that still counts on it, although two *)
(* processes may release one directory at once and neither locks anything.    *)
RecordReserved == \A id \in Ids : record[id] # "none" => slot[place[id]] = id

(* No directory is ever left on disk without a record that leads to it: not   *)
(* by a crash between two system calls, not by a release that meets a         *)
(* creation half way.                                                         *)
PayloadTracked == \A id \in payload : record[id] # "none"

(* Records, reservations and directories account for each other.              *)
DirectoriesAccounted == RecordReserved /\ PayloadTracked

(* A slot is lost, held by no record, only where a call failed or a process   *)
(* died between the two files: racing releases never lose one.                *)
LostOnlyByFailure ==
  \A k \in Slots :
    slot[k] # None /\ record[slot[k]] = "none" =>
      \/ slot[k] \in abandoned
      \/ \E t \in Tasks : job[t] = slot[k] /\ pc[t] \in {"record", "rematch", "free"}

(* What the tasks together promise of the reservations and the directories *)
Pool == INSTANCE DirectoryPool WITH
          Capacity <- MaxSlots,
          held <- {slot[k] : k \in Slots} \ {None},
          present <- payload

ImplementsPool == Pool!PoolSpec

=============================================================================
