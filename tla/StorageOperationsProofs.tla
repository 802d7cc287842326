---------------------- MODULE StorageOperationsProofs ----------------------
(* Proofs about StorageOperations, for every set of owners and operations    *)
(* and every limit.                                                          *)
EXTENDS StorageOperations, TLAPS

(* The steps of Next, each with the parameters it is taken with *)
LEMMA NextSteps ==
  ASSUME Next
  PROVE  \/ \E w \in Owners : bind_storage_owner(w) \/ create_temp_directory(w)
         \/ \E w \in Owners, o \in Ops, p \in Ops \cup {NoOp} :
              \/ AdmitScratch(o, w, p)
              \/ \E a \in {"internal", "external"} : AdmitPlain(o, w, p, a)
         \/ \E o \in Ops : CallerAborts(o)
         \/ \E o \in Ops : OpStep(o)
         \/ \E p \in Paths : reserve_storage_recovery(p) \/ RecoveryFinishes(p)
         \/ \E w \in Owners : SwitchAway(w)
         \/ \E why \in {"quit", "delete"}, w \in Owners, headless \in BOOLEAN :
              Prepare(why, w, headless)
         \/ FinishBegins \/ FinishSkipped \/ Deadline
         \/ \E a \in armed : FinisherSucceeds(a[1], a[2]) \/ FinisherFails(a[1], a[2])
         \/ \E a \in armedPaths, ok \in BOOLEAN : RecoveryRetried(a[1], a[2], ok)
         \/ FinishReturns \/ Reconciled \/ HookReturns
         \/ \E w \in Owners, b \in BOOLEAN : Reconcile(w, b) \/ CleanScope(w, b)
  BY DEF Next, Admission, Finisher, Hook

(* The flags are Booleans: every action leaves them alone or assigns one *)
LEMMA FlagsInductive == FlagsOK /\ [Next]_vars => FlagsOK'
<1> SUFFICES ASSUME FlagsOK, [Next]_vars PROVE FlagsOK'
  OBVIOUS
<1> USE DEF FlagsOK, registryVars, opVars, recoveryVars, finisherVars, hookVars
<1>1. ASSUME NEW w \in Owners,
             bind_storage_owner(w) \/ create_temp_directory(w) \/ SwitchAway(w)
      PROVE  FlagsOK'
  BY <1>1 DEF bind_storage_owner, create_temp_directory, SwitchAway
<1>2. ASSUME NEW w \in Owners, NEW o \in Ops, NEW p \in Ops \cup {NoOp},
             \/ AdmitScratch(o, w, p)
             \/ \E a \in {"internal", "external"} : AdmitPlain(o, w, p, a)
      PROVE  FlagsOK'
  BY <1>2 DEF AdmitScratch, AdmitPlain, reserve_owned_operation
<1>3. ASSUME NEW o \in Ops, CallerAborts(o) \/ OpStep(o)
      PROVE  FlagsOK'
  BY <1>3 DEF CallerAborts, OpStep, GuardianStarts, GuardianFails, WorkEnds, Joined,
     GuardianCloses, GuardianCloseFails, PlainEnds, PlainPending
<1>4. ASSUME NEW p \in Paths, reserve_storage_recovery(p) \/ RecoveryFinishes(p)
      PROVE  FlagsOK'
  BY <1>4 DEF reserve_storage_recovery, RecoveryFinishes
<1>5. ASSUME NEW why \in {"quit", "delete"}, NEW w \in Owners, NEW headless \in BOOLEAN,
             Prepare(why, w, headless)
      PROVE  FlagsOK'
  BY <1>5 DEF Prepare, freeze_storage_operations
<1>6. CASE FinishBegins
  BY <1>6 DEF FinishBegins, freeze_storage_operations
<1>7. CASE FinishSkipped \/ FinishReturns
  BY <1>7 DEF FinishSkipped, FinishReturns, ListPending, SomethingPending
<1>8. CASE Deadline \/ Reconciled \/ HookReturns
  BY <1>8 DEF Deadline, Reconciled, HookReturns
<1>9. ASSUME NEW a \in armed, FinisherSucceeds(a[1], a[2]) \/ FinisherFails(a[1], a[2])
      PROVE  FlagsOK'
  BY <1>9 DEF FinisherSucceeds, FinisherFails
<1>10. ASSUME NEW a \in armedPaths, NEW ok \in BOOLEAN, RecoveryRetried(a[1], a[2], ok)
       PROVE  FlagsOK'
  BY <1>10 DEF RecoveryRetried
<1>11. ASSUME NEW w \in Owners, NEW b \in BOOLEAN, Reconcile(w, b) \/ CleanScope(w, b)
       PROVE  FlagsOK'
  BY <1>11 DEF Reconcile, CleanScope
<1>12. CASE UNCHANGED vars
  BY <1>12 DEF vars
<1> HIDE DEF FlagsOK, registryVars, opVars, recoveryVars, finisherVars, hookVars
<1>13. CASE Next
  BY <1>13, <1>1, <1>2, <1>3, <1>4, <1>5, <1>6, <1>7, <1>8, <1>9, <1>10, <1>11, NextSteps
<1>14. QED
  BY <1>12, <1>13

(* Every action of an operation's life rewrites its entry in one of four ways *)
LEMMA EntrySteps ==
  ASSUME EntriesOK, NEW o \in Ops,
         \/ finish(o) /\ fired' = fired
         \/ pending(o) /\ fired' = fired
         \/ \E cancel \in BOOLEAN : phase[o] = "running" /\ join(o, cancel)
         \/ /\ phase[o] = "joining"
            /\ phase' = [phase EXCEPT ![o] = "closing"]
            /\ UNCHANGED <<kind, owner, parent, children, open, sources, retry, fired>>,
         phase[o] \in Live,
         scratch' \in [Ops -> {"none", "starting", "live", "absent"}]
  PROVE  EntriesOK'
<1> USE StorageAssumption DEF Phases, Live, Unsettled, EntriesOK
<1>1. CASE finish(o) /\ fired' = fired
  BY <1>1 DEF finish, Detach
<1>2. CASE pending(o) /\ fired' = fired
  BY <1>2 DEF pending, Detach
<1>3. ASSUME NEW cancel \in BOOLEAN, phase[o] = "running", join(o, cancel)
      PROVE  EntriesOK'
  BY <1>3 DEF join
<1>4. CASE /\ phase[o] = "joining"
           /\ phase' = [phase EXCEPT ![o] = "closing"]
           /\ UNCHANGED <<kind, owner, parent, children, open, sources, retry, fired>>
  BY <1>4
<1>5. QED
  BY <1>1, <1>2, <1>3, <1>4

(* The entries of the registry stay well typed and are exactly the operations *)
(* that have an owner; an entry has a retry exactly while it is pending.      *)
LEMMA EntriesInductive == EntriesOK /\ HookOK /\ [Next]_vars => EntriesOK'
<1> SUFFICES ASSUME EntriesOK, HookOK, [Next]_vars PROVE EntriesOK'
  OBVIOUS
<1> USE StorageAssumption
<1>1. ASSUME NEW w \in Owners,
             bind_storage_owner(w) \/ create_temp_directory(w) \/ SwitchAway(w)
      PROVE  EntriesOK'
  BY <1>1 DEF EntriesOK, bind_storage_owner, create_temp_directory, SwitchAway, opVars
<1>2. ASSUME NEW w \in Owners, NEW o \in Ops, NEW p \in Ops \cup {NoOp},
             \/ AdmitScratch(o, w, p)
             \/ \E a \in {"internal", "external"} : AdmitPlain(o, w, p, a)
      PROVE  EntriesOK'
  <2>1. CASE AdmitScratch(o, w, p)
    BY <2>1 DEF EntriesOK, AdmitScratch, reserve_owned_operation, Phases, Live, Unsettled
  <2>2. ASSUME NEW a \in {"internal", "external"}, AdmitPlain(o, w, p, a)
        PROVE  EntriesOK'
    BY <2>2 DEF EntriesOK, AdmitPlain, reserve_owned_operation, Phases, Live, Unsettled
  <2>3. QED
    BY <1>2, <2>1, <2>2
<1>3. ASSUME NEW o \in Ops, CallerAborts(o)
      PROVE  EntriesOK'
  BY <1>3 DEF EntriesOK, CallerAborts
<1>4. ASSUME NEW o \in Ops, OpStep(o)
      PROVE  EntriesOK'
  <2> USE DEF Live, Unsettled
  <2>1. CASE GuardianStarts(o)
    <3>1. CASE Aborted(o)
      BY <2>1, <3>1, EntrySteps DEF GuardianStarts, EntriesOK
    <3>2. CASE ~Aborted(o)
      BY <2>1, <3>2 DEF GuardianStarts, EntriesOK
    <3>3. QED
      BY <3>1, <3>2
  <2>2. CASE GuardianFails(o)
    BY <2>2, EntrySteps DEF GuardianFails, EntriesOK
  <2>3. ASSUME NEW failed \in BOOLEAN, WorkEnds(o, failed) PROVE EntriesOK'
    BY <2>3, EntrySteps DEF WorkEnds, EntriesOK
  <2>4. CASE Joined(o)
    BY <2>4, EntrySteps DEF Joined, EntriesOK
  <2>5. CASE GuardianCloses(o)
    BY <2>5, EntrySteps DEF GuardianCloses, EntriesOK
  <2>6. CASE GuardianCloseFails(o)
    BY <2>6, EntrySteps DEF GuardianCloseFails, EntriesOK
  <2>7. CASE PlainEnds(o) \/ PlainPending(o)
    BY <2>7, EntrySteps DEF PlainEnds, PlainPending, EntriesOK
  <2>8. QED
    BY <1>4, <2>1, <2>2, <2>3, <2>4, <2>5, <2>6, <2>7 DEF OpStep
<1>5. ASSUME NEW p \in Paths, reserve_storage_recovery(p) \/ RecoveryFinishes(p)
      PROVE  EntriesOK'
  BY <1>5 DEF EntriesOK, reserve_storage_recovery, RecoveryFinishes, opVars
<1>6. ASSUME NEW why \in {"quit", "delete"}, NEW w \in Owners, NEW headless \in BOOLEAN,
             Prepare(why, w, headless)
      PROVE  EntriesOK'
  BY <1>6 DEF EntriesOK, Prepare, opVars
<1>7. CASE FinishBegins
  BY <1>7 DEF EntriesOK, FinishBegins, Entries
<1>8. CASE FinishSkipped \/ FinishReturns \/ Deadline \/ Reconciled \/ HookReturns
  BY <1>8 DEF EntriesOK, FinishSkipped, FinishReturns, ListPending, Deadline, Reconciled,
     HookReturns, opVars
<1>9. ASSUME NEW a \in armed, FinisherSucceeds(a[1], a[2]) \/ FinisherFails(a[1], a[2])
      PROVE  EntriesOK'
  <2>1. a[2] \in Ops
    BY DEF HookOK
  <2>2. CASE FinisherSucceeds(a[1], a[2]) /\ retry[a[2]]
    BY <2>1, <2>2, EntrySteps DEF FinisherSucceeds, EntriesOK, Live
  <2>3. CASE ~retry[a[2]] \/ FinisherFails(a[1], a[2])
    BY <1>9, <2>3 DEF FinisherSucceeds, FinisherFails, EntriesOK, opVars
  <2>4. QED
    BY <1>9, <2>2, <2>3
<1>10. ASSUME NEW a \in armedPaths, NEW ok \in BOOLEAN, RecoveryRetried(a[1], a[2], ok)
       PROVE  EntriesOK'
  BY <1>10 DEF EntriesOK, RecoveryRetried, opVars
<1>11. ASSUME NEW w \in Owners, NEW b \in BOOLEAN, Reconcile(w, b) \/ CleanScope(w, b)
       PROVE  EntriesOK'
  BY <1>11 DEF EntriesOK, Reconcile, CleanScope, opVars
<1>12. CASE UNCHANGED vars
  BY <1>12 DEF EntriesOK, vars
<1>13. CASE Next
  BY <1>13, <1>1, <1>2, <1>3, <1>4, <1>5, <1>6, <1>7, <1>8, <1>9, <1>10, <1>11, NextSteps
<1>14. QED
  BY <1>12, <1>13

(* The registry's and the hook's own state stays well typed *)
LEMMA HookInductive == EntriesOK /\ HookOK /\ [Next]_vars => HookOK'
<1> SUFFICES ASSUME EntriesOK, HookOK, [Next]_vars PROVE HookOK'
  OBVIOUS
<1> USE StorageAssumption DEF Stages
<1>1. ASSUME NEW w \in Owners,
             bind_storage_owner(w) \/ create_temp_directory(w) \/ SwitchAway(w)
      PROVE  HookOK'
  BY <1>1 DEF HookOK, bind_storage_owner, create_temp_directory, SwitchAway, Touched,
     recoveryVars, finisherVars, hookVars
<1>2. ASSUME NEW w \in Owners, NEW o \in Ops, NEW p \in Ops \cup {NoOp},
             \/ AdmitScratch(o, w, p)
             \/ \E a \in {"internal", "external"} : AdmitPlain(o, w, p, a)
      PROVE  HookOK'
  BY <1>2 DEF HookOK, AdmitScratch, AdmitPlain, reserve_owned_operation, Touched,
     recoveryVars, finisherVars, hookVars
<1>3. ASSUME NEW o \in Ops, CallerAborts(o) \/ OpStep(o)
      PROVE  HookOK'
  BY <1>3 DEF HookOK, CallerAborts, OpStep, GuardianStarts, GuardianFails, WorkEnds,
     Joined, GuardianCloses, GuardianCloseFails, PlainEnds, PlainPending,
     registryVars, recoveryVars, finisherVars, hookVars
<1>4. ASSUME NEW p \in Paths, reserve_storage_recovery(p) \/ RecoveryFinishes(p)
      PROVE  HookOK'
  BY <1>4 DEF HookOK, reserve_storage_recovery, RecoveryFinishes, registryVars,
     finisherVars, hookVars
<1>5. ASSUME NEW why \in {"quit", "delete"}, NEW w \in Owners, NEW headless \in BOOLEAN,
             Prepare(why, w, headless)
      PROVE  HookOK'
  BY <1>5 DEF HookOK, Prepare, freeze_storage_operations, recoveryVars, finisherVars
<1>6. CASE FinishBegins
  BY <1>6 DEF HookOK, FinishBegins, Entries, freeze_storage_operations, registryVars,
     recoveryVars
<1>7. CASE FinishSkipped \/ FinishReturns
  <2>1. HookScopes \in SUBSET Owners
    BY <1>7 DEF HookOK, HookScopes, FinishSkipped, FinishReturns
  <2>2. QED
    BY <1>7, <2>1 DEF HookOK, FinishSkipped, FinishReturns, ListPending, registryVars,
       recoveryVars, finisherVars
<1>8. CASE Deadline \/ Reconciled \/ HookReturns
  BY <1>8 DEF HookOK, Deadline, Reconciled, HookReturns, registryVars, recoveryVars,
     finisherVars
<1>9. ASSUME NEW a \in armed, FinisherSucceeds(a[1], a[2]) \/ FinisherFails(a[1], a[2])
      PROVE  HookOK'
  BY <1>9 DEF HookOK, FinisherSucceeds, FinisherFails, registryVars, recoveryVars,
     hookVars
<1>10. ASSUME NEW a \in armedPaths, NEW ok \in BOOLEAN, RecoveryRetried(a[1], a[2], ok)
       PROVE  HookOK'
  BY <1>10 DEF HookOK, RecoveryRetried, registryVars, hookVars
<1>11. ASSUME NEW w \in Owners, NEW b \in BOOLEAN, Reconcile(w, b) \/ CleanScope(w, b)
       PROVE  HookOK'
  BY <1>11 DEF HookOK, Reconcile, CleanScope, registryVars, recoveryVars, finisherVars
<1>12. CASE UNCHANGED vars
  BY <1>12 DEF HookOK, vars
<1>13. CASE Next
  BY <1>13, <1>1, <1>2, <1>3, <1>4, <1>5, <1>6, <1>7, <1>8, <1>9, <1>10, <1>11, NextSteps
<1>14. QED
  BY <1>12, <1>13

(* Every reachable state is well typed, for any number of owners, operations  *)
(* and shells and any limits.                                                 *)
THEOREM TypeInvariant == Spec => []TypeOK
<1>1. Init => EntriesOK /\ HookOK
  BY StorageAssumption DEF Init, EntriesOK, HookOK, Stages, Phases, Live, Unsettled
<1>2. Init => FlagsOK
  BY DEF Init, FlagsOK
<1>3. TypeOK /\ [Next]_vars => TypeOK'
  BY FlagsInductive, EntriesInductive, HookInductive DEF TypeOK
<1>4. QED
  BY <1>1, <1>2, <1>3, PTL DEF Spec, TypeOK

(* The shape of the tree of operations.  Parent and child lists agree; only a *)
(* settled entry is without its parent; children hang from a scratch          *)
(* operation that still runs or joins them; a scratch operation accepts new   *)
(* ones only while it runs, and only it has a directory.                      *)
TreeInv ==
  /\ \A o \in Ops : phase[o] \notin Unsettled => parent[o] = NoOp
  /\ \A p, c \in Ops : c \in children[p] <=> parent[c] = p
  /\ \A p \in Ops : phase[p] \notin {"running", "joining"} => children[p] = {}
  /\ \A p \in Ops : kind[p] = "plain" => children[p] = {}
  /\ \A p \in Ops : kind[p] = "scratch" /\ phase[p] # "running" => ~open[p]
  /\ \A p \in Ops : phase[p] \in {"joining", "closing"} => kind[p] = "scratch"
  /\ \A p \in Ops : scratch[p] # "none" => kind[p] = "scratch" /\ phase[p] # "unused"

treeVars == <<phase, kind, parent, children, open, scratch>>

(* The tree keeps its shape when an entry settles: it is finished once it has *)
(* no directory left, or becomes pending, and no child hangs from it          *)
LEMMA SettleKeepsTree ==
  ASSUME EntriesOK, TreeInv, NEW o \in Ops, phase[o] \in Live, children[o] = {},
         \/ finish(o) /\ scratch' \in {scratch, [scratch EXCEPT ![o] = "none"]}
                      /\ scratch'[o] = "none"
         \/ pending(o) /\ scratch' = scratch
  PROVE  TreeInv'
<1> USE StorageAssumption DEF EntriesOK, TreeInv, Live, Unsettled, Phases
<1>1. CASE finish(o) /\ scratch' \in {scratch, [scratch EXCEPT ![o] = "none"]}
                     /\ scratch'[o] = "none"
  BY <1>1 DEF finish, Detach
<1>2. CASE pending(o) /\ scratch' = scratch
  BY <1>2 DEF pending, Detach
<1>3. QED
  BY <1>1, <1>2

(* ... and when a scratch operation stops running and joins its children *)
LEMMA JoinKeepsTree ==
  ASSUME EntriesOK, TreeInv, NEW o \in Ops, phase[o] = "running", kind[o] = "scratch",
         NEW cancel \in BOOLEAN, join(o, cancel),
         \A p \in Ops : p # o => scratch'[p] = scratch[p]
  PROVE  TreeInv'
BY StorageAssumption DEF join, EntriesOK, TreeInv, Live, Unsettled, Phases

LEMMA TreeInductive == EntriesOK /\ HookOK /\ TreeInv /\ [Next]_vars => TreeInv'
<1> SUFFICES ASSUME EntriesOK, HookOK, TreeInv, [Next]_vars PROVE TreeInv'
  OBVIOUS
<1> USE StorageAssumption
<1>0. ASSUME UNCHANGED treeVars PROVE TreeInv'
  BY <1>0 DEF TreeInv, treeVars
<1>1. ASSUME NEW w \in Owners,
             bind_storage_owner(w) \/ create_temp_directory(w) \/ SwitchAway(w)
      PROVE  TreeInv'
  BY <1>0, <1>1 DEF bind_storage_owner, create_temp_directory, SwitchAway, opVars, treeVars
<1>2. ASSUME NEW w \in Owners, NEW o \in Ops, NEW p \in Ops \cup {NoOp},
             \/ AdmitScratch(o, w, p)
             \/ \E a \in {"internal", "external"} : AdmitPlain(o, w, p, a)
      PROVE  TreeInv'
  <2> USE DEF EntriesOK, TreeInv, Phases, Live, Unsettled
  <2>1. phase[o] = "unused" /\ parent[o] = NoOp /\ children[o] = {}
    BY <1>2 DEF AdmitScratch, AdmitPlain
  <2>2. \A a \in {"internal", "external"} :
          PassesSignal(p) /\ Admissible(w, p, a) /\ p # NoOp
            => phase[p] = "running" /\ kind[p] = "scratch"
    BY DEF Admissible, PassesSignal
  <2>3. CASE AdmitScratch(o, w, p)
    <3>1. p # NoOp => phase[p] = "running" /\ kind[p] = "scratch"
      BY <2>2, <2>3 DEF AdmitScratch
    <3>2. QED
      BY <2>1, <2>3, <3>1 DEF AdmitScratch, reserve_owned_operation
  <2>4. ASSUME NEW a \in {"internal", "external"}, AdmitPlain(o, w, p, a)
        PROVE  TreeInv'
    <3>1. p # NoOp => phase[p] = "running" /\ kind[p] = "scratch"
      BY <2>2, <2>4 DEF AdmitPlain
    <3>2. scratch[o] = "none"
      BY <2>1, <2>4 DEF AdmitPlain
    <3>3. QED
      BY <2>1, <2>4, <3>1, <3>2 DEF AdmitPlain, reserve_owned_operation
  <2>5. QED
    BY <1>2, <2>3, <2>4
<1>3. ASSUME NEW o \in Ops, CallerAborts(o)
      PROVE  TreeInv'
  BY <1>0, <1>3 DEF CallerAborts, treeVars
<1>4. ASSUME NEW o \in Ops, OpStep(o)
      PROVE  TreeInv'
  <2> USE DEF Live, Unsettled
  <2>1. CASE GuardianStarts(o)
    <3>1. kind[o] = "scratch" /\ scratch' = [scratch EXCEPT ![o] = "live"]
      BY <2>1 DEF GuardianStarts, TreeInv
    <3>2. CASE Aborted(o)
      BY <2>1, <3>1, <3>2, JoinKeepsTree DEF GuardianStarts, EntriesOK
    <3>3. CASE ~Aborted(o)
      BY <2>1, <3>1, <3>3 DEF GuardianStarts, EntriesOK, TreeInv
    <3>4. QED
      BY <3>2, <3>3
  <2>2. CASE GuardianFails(o)
    <3>1. kind[o] = "scratch" /\ \A p \in Ops : p # o => scratch'[p] = scratch[p]
      BY <2>2 DEF GuardianFails, TreeInv, EntriesOK
    <3>2. QED
      BY <2>2, <3>1, JoinKeepsTree DEF GuardianFails
  <2>3. ASSUME NEW failed \in BOOLEAN, WorkEnds(o, failed) PROVE TreeInv'
    <3>1. kind[o] = "scratch"
      BY <2>3 DEF WorkEnds, TreeInv
    <3>2. QED
      BY <2>3, <3>1, JoinKeepsTree DEF WorkEnds
  <2>4. CASE Joined(o)
    <3>1. CASE scratch[o] = "none"
      BY <2>4, <3>1, SettleKeepsTree DEF Joined
    <3>2. CASE scratch[o] # "none"
      BY <2>4, <3>2 DEF Joined, TreeInv, EntriesOK
    <3>3. QED
      BY <3>1, <3>2
  <2>5. CASE GuardianCloses(o) \/ GuardianCloseFails(o)
    <3>1. children[o] = {}
      BY <2>5 DEF GuardianCloses, GuardianCloseFails, TreeInv
    <3>2. QED
      BY <2>5, <3>1, SettleKeepsTree DEF GuardianCloses, GuardianCloseFails, EntriesOK
  <2>6. CASE PlainEnds(o) \/ PlainPending(o)
    <3>1. children[o] = {} /\ scratch[o] = "none"
      BY <2>6 DEF PlainEnds, PlainPending, TreeInv
    <3>2. QED
      BY <2>6, <3>1, SettleKeepsTree DEF PlainEnds, PlainPending
  <2>7. QED
    BY <1>4, <2>1, <2>2, <2>3, <2>4, <2>5, <2>6 DEF OpStep
<1>5. ASSUME NEW p \in Paths, reserve_storage_recovery(p) \/ RecoveryFinishes(p)
      PROVE  TreeInv'
  BY <1>0, <1>5 DEF reserve_storage_recovery, RecoveryFinishes, opVars, treeVars
<1>6. ASSUME NEW why \in {"quit", "delete"}, NEW w \in Owners, NEW headless \in BOOLEAN,
             Prepare(why, w, headless)
      PROVE  TreeInv'
  BY <1>0, <1>6 DEF Prepare, opVars, treeVars
<1>7. CASE FinishBegins \/ FinishSkipped \/ FinishReturns \/ Deadline \/ Reconciled
           \/ HookReturns
  BY <1>0, <1>7 DEF FinishBegins, FinishSkipped, FinishReturns, ListPending, Deadline,
     Reconciled, HookReturns, opVars, treeVars
<1>8. ASSUME NEW a \in armed, FinisherSucceeds(a[1], a[2]) \/ FinisherFails(a[1], a[2])
      PROVE  TreeInv'
  <2>1. a[2] \in Ops
    BY DEF HookOK
  <2>2. CASE FinisherSucceeds(a[1], a[2]) /\ retry[a[2]]
    <3>1. children[a[2]] = {} /\ phase[a[2]] = "pending"
      BY <2>1, <2>2 DEF TreeInv, EntriesOK
    <3>2. QED
      BY <2>1, <2>2, <3>1, SettleKeepsTree DEF FinisherSucceeds, EntriesOK, Live
  <2>3. CASE ~retry[a[2]] \/ FinisherFails(a[1], a[2])
    BY <1>0, <1>8, <2>3 DEF FinisherSucceeds, FinisherFails, opVars, treeVars
  <2>4. QED
    BY <1>8, <2>2, <2>3
<1>9. ASSUME NEW a \in armedPaths, NEW ok \in BOOLEAN, RecoveryRetried(a[1], a[2], ok)
      PROVE  TreeInv'
  BY <1>0, <1>9 DEF RecoveryRetried, opVars, treeVars
<1>10. ASSUME NEW w \in Owners, NEW b \in BOOLEAN, Reconcile(w, b) \/ CleanScope(w, b)
       PROVE  TreeInv'
  BY <1>0, <1>10 DEF Reconcile, CleanScope, opVars, treeVars
<1>11. CASE UNCHANGED vars
  BY <1>0, <1>11 DEF treeVars, vars
<1>12. CASE Next
  BY <1>12, <1>1, <1>2, <1>3, <1>4, <1>5, <1>6, <1>7, <1>8, <1>9, <1>10, NextSteps
<1>13. QED
  BY <1>11, <1>12

(* with_session_scratch never closes its guardian, and so never has its       *)
(* directory deleted, while an operation admitted under it has not settled.   *)
THEOREM ScratchOutlives == Spec => []ScratchOutlivesChildren
<1>1. Init => TreeInv
  BY StorageAssumption DEF Init, TreeInv, Unsettled
<1>2. TypeOK /\ TreeInv /\ [Next]_vars => TreeInv'
  BY TreeInductive DEF TypeOK
<1>3. TypeOK /\ TreeInv => ScratchOutlivesChildren
  BY DEF TypeOK, EntriesOK, TreeInv, ScratchOutlivesChildren, Unsettled
<1>4. QED
  BY <1>1, <1>2, <1>3, TypeInvariant, PTL DEF Spec

-----------------------------------------------------------------------------
(* Cleanup.  From the listing that found nothing pending to the last release  *)
(* the hook awaits several times; what keeps its scope quiet meanwhile is     *)
(* that a quit holds the registry closed and a deletion its owner retired.    *)
Quieted ==
  \/ stage = "cleaning"
  \/ stage = "reconciling" /\ legacy /\ ~found

ClosedInv ==
  /\ stage \notin {"idle", "exited", "prepared"} /\ reason = "quit" /\ legacy => closing
  /\ stage \notin {"idle", "exited"} /\ reason = "delete" => accepting[target] = "retired"
  /\ stage = "cleaning" => legacy
  /\ Quieted => Entries(Scope) = {} /\ \A p \in recovery : PathOwner[p] \notin Scope

closedVars == <<closing, accepting, phase, owner, recovery, stage, reason, target,
                found, legacy>>

(* No step of an admitted operation adds to what is selected for cleanup *)
LEMMA StepsAddNoEntry ==
  ASSUME EntriesOK, NEW o \in Ops,
         OpStep(o) \/ \E r \in Nat : FinisherSucceeds(r, o) \/ FinisherFails(r, o)
  PROVE  \A W : Entries(W)' \subseteq Entries(W)
<1> SUFFICES /\ \A c \in Ops : phase'[c] \in Live => phase[c] \in Live
             /\ \A c \in Ops : phase'[c] \in Live => owner'[c] = owner[c]
  BY DEF Entries
<1> USE DEF EntriesOK, Live, Unsettled
<1>1. ASSUME phase[o] \in Live,
             \/ finish(o) \/ pending(o) \/ \E cancel \in BOOLEAN : join(o, cancel)
             \/ /\ phase' = [phase EXCEPT ![o] = "closing"]
                /\ owner' = owner
             \/ phase' = phase /\ owner' = owner
      PROVE  /\ \A c \in Ops : phase'[c] \in Live => phase[c] \in Live
             /\ \A c \in Ops : phase'[c] \in Live => owner'[c] = owner[c]
  BY <1>1 DEF finish, pending, join
<1>2. CASE OpStep(o)
  BY <1>1, <1>2 DEF OpStep, GuardianStarts, GuardianFails, WorkEnds, Joined,
     GuardianCloses, GuardianCloseFails, PlainEnds, PlainPending
<1>3. ASSUME NEW r \in Nat, FinisherSucceeds(r, o) \/ FinisherFails(r, o)
      PROVE  /\ \A c \in Ops : phase'[c] \in Live => phase[c] \in Live
             /\ \A c \in Ops : phase'[c] \in Live => owner'[c] = owner[c]
  BY <1>1, <1>3 DEF FinisherSucceeds, FinisherFails, opVars
<1>4. QED
  BY <1>2, <1>3

(* A quiet scope admits nothing: not for an owner in it, and not under one of *)
(* its operations, for it has none.                                           *)
LEMMA QuietRefuses ==
  ASSUME HookOK, ClosedInv, Quieted, NEW w \in Owners, NEW p \in Ops \cup {NoOp},
         NEW a, Admissible(w, p, a)
  PROVE  w \notin Scope
<1>1. CASE reason = "quit"
  BY <1>1 DEF ClosedInv, Quieted, Admissible
<1>2. CASE reason = "delete"
  <2>1. accepting[target] = "retired" /\ Entries({target}) = {} /\ Scope = {target}
    BY <1>2 DEF ClosedInv, Quieted, Scope
  <2>2. QED
    BY <2>1 DEF Admissible, Entries
<1>3. QED
  BY <1>1, <1>2 DEF HookOK, Quieted

LEMMA ClosedInductive == EntriesOK /\ HookOK /\ ClosedInv /\ [Next]_vars => ClosedInv'
<1> SUFFICES ASSUME EntriesOK, HookOK, ClosedInv, [Next]_vars PROVE ClosedInv'
  OBVIOUS
<1> USE StorageAssumption
<1>0. ASSUME UNCHANGED closedVars PROVE ClosedInv'
  BY <1>0 DEF ClosedInv, closedVars, Quieted, Scope, Entries
<1>a. ASSUME UNCHANGED <<closing, stage, reason, target, found, legacy>>,
             \A w \in Owners : accepting[w] = "retired" => accepting'[w] = "retired",
             Quieted => /\ Entries(Scope)' = {}
                        /\ \A p \in recovery' : PathOwner[p] \notin Scope
      PROVE  ClosedInv'
  <2>1. (Quieted' <=> Quieted) /\ Scope' = Scope
    BY <1>a DEF Quieted, Scope
  <2>2. QED
    BY <1>a, <2>1 DEF ClosedInv, HookOK
<1>1. ASSUME NEW w \in Owners, bind_storage_owner(w)
      PROVE  ClosedInv'
  <2>1. stage # "idle" => reason = "delete" /\ target # w
    BY <1>1 DEF bind_storage_owner, SessionStarts
  <2>2. (Quieted' <=> Quieted) /\ Scope' = Scope /\ Entries(Scope)' = Entries(Scope)
    BY <1>1 DEF bind_storage_owner, Quieted, Scope, Entries, opVars, hookVars
  <2>3. QED
    BY <1>1, <2>1, <2>2 DEF bind_storage_owner, ClosedInv, HookOK, opVars, recoveryVars,
       hookVars
<1>2. ASSUME NEW w \in Owners, create_temp_directory(w) \/ SwitchAway(w)
      PROVE  ClosedInv'
  <2>1. Entries(Scope)' = Entries(Scope)
    BY <1>2 DEF create_temp_directory, SwitchAway, Entries, Scope, opVars, hookVars
  <2>2. \A v \in Owners : accepting[v] = "retired" => accepting'[v] = "retired"
    BY <1>2 DEF create_temp_directory, SwitchAway, Touched, HookOK
  <2>3. Quieted => Entries(Scope)' = {} /\ \A p \in recovery : PathOwner[p] \notin Scope
    BY <2>1 DEF ClosedInv
  <2>4. UNCHANGED <<closing, stage, reason, target, found, legacy, recovery>>
    BY <1>2 DEF create_temp_directory, SwitchAway, recoveryVars, hookVars
  <2>5. QED
    BY <1>a, <2>2, <2>3, <2>4
<1>3. ASSUME NEW w \in Owners, NEW o \in Ops, NEW p \in Ops \cup {NoOp},
             \/ AdmitScratch(o, w, p)
             \/ \E a \in {"internal", "external"} : AdmitPlain(o, w, p, a)
      PROVE  ClosedInv'
  <2>1. Quieted => w \notin Scope
    BY <1>3, QuietRefuses DEF AdmitScratch, AdmitPlain
  <2>2. /\ \A c \in Ops \ {o} : phase'[c] = phase[c] /\ owner'[c] = owner[c]
        /\ owner'[o] = w
        /\ UNCHANGED <<closing, recovery, stage, reason, target, found, legacy>>
        /\ \A v \in Owners : accepting[v] = "retired" => accepting'[v] = "retired"
    BY <1>3 DEF AdmitScratch, AdmitPlain, reserve_owned_operation, EntriesOK, HookOK,
       Touched, recoveryVars, hookVars
  <2>3. Quieted => Entries(Scope)' = {}
    BY <2>1, <2>2 DEF ClosedInv, Entries, Scope
  <2>4. Quieted => \A q \in recovery' : PathOwner[q] \notin Scope
    BY <2>2 DEF ClosedInv
  <2>5. QED
    BY <1>a, <2>2, <2>3, <2>4
<1>4. ASSUME NEW o \in Ops, CallerAborts(o)
      PROVE  ClosedInv'
  BY <1>0, <1>4 DEF CallerAborts, registryVars, recoveryVars, hookVars, closedVars
<1>5. ASSUME NEW o \in Ops,
             OpStep(o) \/ \E r \in Nat : FinisherSucceeds(r, o) \/ FinisherFails(r, o)
      PROVE  ClosedInv'
  <2>1. UNCHANGED <<closing, accepting, recovery, stage, reason, target, found, legacy>>
    BY <1>5 DEF OpStep, GuardianStarts, GuardianFails, WorkEnds, Joined, GuardianCloses,
       GuardianCloseFails, PlainEnds, PlainPending, FinisherSucceeds, FinisherFails,
       registryVars, recoveryVars, hookVars
  <2>2. Entries(Scope)' \subseteq Entries(Scope)
    <3>1. Scope' = Scope
      BY <2>1 DEF Scope
    <3>2. \A W : Entries(W)' \subseteq Entries(W)
      BY <1>5, StepsAddNoEntry
    <3>3. QED
      BY <3>1, <3>2 DEF Entries
  <2>3. Quieted => Entries(Scope)' = {} /\ \A p \in recovery' : PathOwner[p] \notin Scope
    BY <2>1, <2>2 DEF ClosedInv
  <2>4. QED
    BY <1>a, <2>1, <2>3
<1>6. ASSUME NEW p \in Paths, reserve_storage_recovery(p)
      PROVE  ClosedInv'
  <2>1. Quieted => PathOwner[p] \notin Scope
    BY <1>6 DEF reserve_storage_recovery, SessionStarts, Quieted, Scope
  <2>2. UNCHANGED <<closing, accepting, phase, owner, stage, reason, target, found, legacy>>
    BY <1>6 DEF reserve_storage_recovery, registryVars, opVars, hookVars
  <2>3. Entries(Scope)' = Entries(Scope)
    BY <2>2 DEF Entries, Scope
  <2>4. recovery' \subseteq recovery \cup {p}
    BY <1>6 DEF reserve_storage_recovery
  <2>5. Quieted => Entries(Scope)' = {} /\ \A q \in recovery' : PathOwner[q] \notin Scope
    BY <2>1, <2>3, <2>4 DEF ClosedInv
  <2>6. QED
    BY <1>a, <2>2, <2>5
<1>7. ASSUME recovery' \subseteq recovery,
             UNCHANGED <<closing, accepting, phase, owner, stage, reason, target, found,
                         legacy>>
      PROVE  ClosedInv'
  BY <1>7 DEF ClosedInv, Quieted, Scope, Entries
<1>8. ASSUME NEW p \in Paths, RecoveryFinishes(p)
      PROVE  ClosedInv'
  BY <1>7, <1>8 DEF RecoveryFinishes, registryVars, opVars, hookVars
<1>9. ASSUME NEW a \in armedPaths, NEW ok \in BOOLEAN, RecoveryRetried(a[1], a[2], ok)
      PROVE  ClosedInv'
  BY <1>7, <1>9 DEF RecoveryRetried, registryVars, opVars, hookVars
<1>10. ASSUME NEW why \in {"quit", "delete"}, NEW w \in Owners, NEW headless \in BOOLEAN,
              Prepare(why, w, headless)
       PROVE  ClosedInv'
  BY <1>10 DEF Prepare, ClosedInv, Quieted, HookOK
<1>11. CASE FinishBegins
  BY <1>11 DEF FinishBegins, freeze_storage_operations, ClosedInv, Quieted, HookOK,
     registryVars
<1>12. CASE FinishSkipped
  BY <1>12 DEF FinishSkipped, ListPending, ClosedInv, Quieted, registryVars
<1>13. CASE FinishReturns
  <2>1. UNCHANGED <<closing, accepting, phase, owner, recovery, reason, target, legacy>>
    BY <1>13 DEF FinishReturns, ListPending, registryVars, opVars, recoveryVars
  <2>2. stage = "finishing" /\ stage' = "reconciling" /\ found' = SomethingPending(Scope)
    BY <1>13 DEF FinishReturns, ListPending
  <2>3. Entries(Scope)' = Entries(Scope) /\ Scope' = Scope
    BY <2>1 DEF Entries, Scope
  <2>4. Quieted' => Entries(Scope)' = {} /\ \A p \in recovery : PathOwner[p] \notin Scope
    BY <2>1, <2>2, <2>3 DEF Quieted, SomethingPending
  <2>5. QED
    BY <2>1, <2>2, <2>3, <2>4 DEF ClosedInv
<1>14. ASSUME UNCHANGED <<closing, accepting, phase, owner, recovery, reason, target, legacy>>,
              stage \notin {"idle", "exited", "prepared"}, Quieted' => Quieted,
              stage' = "cleaning" => legacy
       PROVE  ClosedInv'
  <2>1. Entries(Scope)' = Entries(Scope) /\ Scope' = Scope
    BY <1>14 DEF Entries, Scope
  <2>2. QED
    BY <1>14, <2>1 DEF ClosedInv
<1>15. CASE Reconciled \/ \E w \in Owners, b \in BOOLEAN : Reconcile(w, b) \/ CleanScope(w, b)
  BY <1>14, <1>15 DEF Reconciled, Reconcile, CleanScope, Quieted, ClosedInv, registryVars,
     opVars, recoveryVars
<1>16. CASE Deadline
  BY <1>0, <1>16 DEF Deadline, registryVars, opVars, recoveryVars, closedVars
<1>17. CASE HookReturns
  BY <1>17 DEF HookReturns, ClosedInv, Quieted
<1>18. CASE UNCHANGED vars
  BY <1>0, <1>18 DEF vars, closedVars
<1>19. ASSUME NEW a \in armed, FinisherSucceeds(a[1], a[2]) \/ FinisherFails(a[1], a[2])
       PROVE  ClosedInv'
  BY <1>5, <1>19 DEF HookOK
<1>20. CASE Next
  BY <1>20, <1>1, <1>2, <1>3, <1>4, <1>5, <1>6, <1>8, <1>9, <1>10, <1>11, <1>12, <1>13,
     <1>15, <1>16, <1>17, <1>19, NextSteps
<1>21. QED
  BY <1>18, <1>20

(* Automatic deletion never meets admitted work: from the hook's check to its *)
(* last release, its scope has no operation and no recovery of its own.       *)
THEOREM CleaningStaysQuiet == Spec => []CleaningIsQuiet
<1>1. Init => ClosedInv
  BY DEF Init, ClosedInv, Quieted
<1>2. TypeOK /\ ClosedInv /\ [Next]_vars => ClosedInv'
  BY ClosedInductive DEF TypeOK
<1>3. ClosedInv => CleaningIsQuiet
  BY DEF ClosedInv, Quieted, CleaningIsQuiet
<1>4. QED
  BY <1>1, <1>2, <1>3, TypeInvariant, PTL DEF Spec

-----------------------------------------------------------------------------
(* What a finish waits for was told to stop.  An entry listens to a           *)
(* controller of its own, which the finish aborts, and to all of its parent's; *)
(* what is admitted while the finish waits hangs from an entry that was told.  *)
AbortInv ==
  /\ \A o \in Ops : phase[o] \in Live => o \in sources[o]
  /\ stage \in {"idle", "prepared", "finishing"} => legacy
  /\ FinishAbortsEverything

abortVars == <<phase, owner, sources, fired, stage, reason, target, legacy>>

(* A step of admitted operations leaves the signals of the live ones alone *)
LEMMA StepsKeepSignals ==
  ASSUME EntriesOK, NEW o \in Ops,
         OpStep(o) \/ \E r \in Nat : FinisherSucceeds(r, o) \/ FinisherFails(r, o)
  PROVE  /\ fired \subseteq fired'
         /\ \A c \in Ops : phase'[c] \in Live =>
              phase[c] \in Live /\ owner'[c] = owner[c] /\ sources'[c] = sources[c]
<1> DEFINE Kept == /\ fired \subseteq fired'
                   /\ \A c \in Ops : phase'[c] \in Live =>
                        phase[c] \in Live /\ owner'[c] = owner[c] /\ sources'[c] = sources[c]
<1>1. ASSUME phase[o] \in Live,
             \/ (finish(o) \/ pending(o)) /\ fired' = fired
             \/ \E cancel \in BOOLEAN : join(o, cancel)
             \/ /\ phase' = [phase EXCEPT ![o] = "closing"]
                /\ owner' = owner /\ sources' = sources /\ fired' = fired
             \/ phase' = phase /\ owner' = owner /\ sources' = sources /\ fired' = fired
      PROVE  Kept
  BY <1>1 DEF finish, pending, join, EntriesOK, Live, Unsettled
<1>2. CASE OpStep(o)
  BY <1>1, <1>2 DEF OpStep, GuardianStarts, GuardianFails, WorkEnds, Joined,
     GuardianCloses, GuardianCloseFails, PlainEnds, PlainPending, Live, Unsettled
<1>3. ASSUME NEW r \in Nat, FinisherSucceeds(r, o) \/ FinisherFails(r, o)
      PROVE  Kept
  <2>1. CASE retry[o] /\ FinisherSucceeds(r, o)
    BY <1>1, <2>1 DEF FinisherSucceeds, EntriesOK, Live
  <2>2. CASE ~retry[o] \/ FinisherFails(r, o)
    BY <1>3, <2>2 DEF FinisherSucceeds, FinisherFails, opVars
  <2>3. QED
    BY <1>3, <2>1, <2>2
<1>4. QED
  BY <1>2, <1>3

LEMMA AbortInductive ==
  EntriesOK /\ HookOK /\ ClosedInv /\ AbortInv /\ [Next]_vars => AbortInv'
<1> SUFFICES ASSUME EntriesOK, HookOK, ClosedInv, AbortInv, [Next]_vars PROVE AbortInv'
  OBVIOUS
<1> USE StorageAssumption
<1>0. ASSUME UNCHANGED <<stage, reason, target, legacy>>, fired \subseteq fired',
             \A c \in Ops : phase'[c] \in Live =>
               phase[c] \in Live /\ owner'[c] = owner[c] /\ sources'[c] = sources[c]
      PROVE  AbortInv'
  <2>1. \A c \in Ops : phase'[c] \in Live => c \in sources'[c]
    BY <1>0 DEF AbortInv
  <2>2. ASSUME stage' = "finishing", NEW c \in Entries(Scope)' PROVE Aborted(c)'
    <3>1. c \in Entries(Scope) /\ sources'[c] = sources[c]
      BY <1>0, <2>2 DEF Entries, Scope
    <3>2. Aborted(c)
      BY <1>0, <2>2, <3>1 DEF AbortInv, FinishAbortsEverything
    <3>3. QED
      BY <1>0, <3>1, <3>2 DEF Aborted
  <2>3. QED
    BY <1>0, <2>1, <2>2 DEF AbortInv, FinishAbortsEverything
<1>1. ASSUME UNCHANGED abortVars PROVE AbortInv'
  BY <1>0, <1>1 DEF abortVars
<1>2. ASSUME NEW w \in Owners,
             bind_storage_owner(w) \/ create_temp_directory(w) \/ SwitchAway(w)
      PROVE  AbortInv'
  BY <1>1, <1>2 DEF bind_storage_owner, create_temp_directory, SwitchAway, opVars, hookVars,
     abortVars
<1>3. ASSUME NEW w \in Owners, NEW o \in Ops, NEW p \in Ops \cup {NoOp},
             \/ AdmitScratch(o, w, p)
             \/ \E a \in {"internal", "external"} : AdmitPlain(o, w, p, a)
      PROVE  AbortInv'
  <2>1. /\ \A c \in Ops \ {o} : /\ phase'[c] = phase[c] /\ owner'[c] = owner[c]
                                /\ sources'[c] = sources[c]
        /\ owner'[o] = w
        /\ sources'[o] = {o} \cup (IF p = NoOp THEN {} ELSE sources[p])
        /\ UNCHANGED <<fired, stage, reason, target, legacy>>
    BY <1>3 DEF AdmitScratch, AdmitPlain, reserve_owned_operation, EntriesOK, hookVars
  <2>2. ASSUME stage = "finishing", w \in Scope PROVE p # NoOp /\ p \in Entries(Scope)
    <3>1. \E a : Admissible(w, p, a)
      BY <1>3 DEF AdmitScratch, AdmitPlain
    <3>2. reason = "delete" /\ target = w /\ accepting[w] = "retired" /\ Scope = {w}
      BY <2>2, <3>1 DEF Admissible, ClosedInv, AbortInv, HookOK, Scope
    <3>3. QED
      BY <3>1, <3>2 DEF Admissible, Entries
  <2>3. \A c \in Ops : phase'[c] \in Live => c \in sources'[c]
    BY <2>1 DEF AbortInv
  <2>4. ASSUME stage' = "finishing", NEW c \in Entries(Scope)' PROVE Aborted(c)'
    <3>1. Scope' = Scope /\ c \in Ops /\ phase'[c] \in Live /\ owner'[c] \in Scope
      BY <2>1, <2>4 DEF Scope, Entries
    <3>2. CASE c = o
      <4>1. p # NoOp /\ Aborted(p)
        BY <2>1, <2>2, <2>4, <3>1, <3>2 DEF AbortInv, FinishAbortsEverything
      <4>2. QED
        BY <2>1, <3>2, <4>1 DEF Aborted
    <3>3. CASE c # o
      <4>1. c \in Entries(Scope)
        BY <2>1, <3>1, <3>3 DEF Entries
      <4>2. Aborted(c)
        BY <2>1, <2>4, <4>1 DEF AbortInv, FinishAbortsEverything
      <4>3. sources'[c] = sources[c] /\ fired' = fired
        BY <2>1, <3>1, <3>3
      <4>4. QED
        BY <4>2, <4>3 DEF Aborted
    <3>4. QED
      BY <3>2, <3>3
  <2>5. QED
    BY <2>1, <2>3, <2>4 DEF AbortInv, FinishAbortsEverything
<1>4. ASSUME NEW o \in Ops, CallerAborts(o) PROVE AbortInv'
  BY <1>0, <1>4 DEF CallerAborts, hookVars
<1>5. ASSUME NEW o \in Ops,
             OpStep(o) \/ \E r \in Nat : FinisherSucceeds(r, o) \/ FinisherFails(r, o)
      PROVE  AbortInv'
  <2>1. UNCHANGED <<stage, reason, target, legacy>>
    BY <1>5 DEF OpStep, GuardianStarts, GuardianFails, WorkEnds, Joined, GuardianCloses,
       GuardianCloseFails, PlainEnds, PlainPending, FinisherSucceeds, FinisherFails, hookVars
  <2>2. QED
    BY <1>0, <1>5, <2>1, StepsKeepSignals
<1>6. ASSUME NEW a \in armed, FinisherSucceeds(a[1], a[2]) \/ FinisherFails(a[1], a[2])
      PROVE  AbortInv'
  BY <1>5, <1>6 DEF HookOK
<1>7. ASSUME NEW p \in Paths, reserve_storage_recovery(p) \/ RecoveryFinishes(p)
      PROVE  AbortInv'
  BY <1>1, <1>7 DEF reserve_storage_recovery, RecoveryFinishes, opVars, hookVars, abortVars
<1>8. ASSUME NEW a \in armedPaths, NEW ok \in BOOLEAN, RecoveryRetried(a[1], a[2], ok)
      PROVE  AbortInv'
  BY <1>1, <1>8 DEF RecoveryRetried, opVars, hookVars, abortVars
<1>9. ASSUME NEW why \in {"quit", "delete"}, NEW w \in Owners, NEW headless \in BOOLEAN,
             Prepare(why, w, headless)
      PROVE  AbortInv'
  BY <1>9 DEF Prepare, AbortInv, FinishAbortsEverything, opVars
<1>10. CASE FinishBegins
  <2>1. /\ UNCHANGED <<phase, owner, sources, reason, target, legacy>>
        /\ fired' = fired \cup Entries(Scope)
        /\ stage = "prepared" /\ stage' = "finishing"
    BY <1>10 DEF FinishBegins
  <2>2. \A c \in Entries(Scope)' : c \in Entries(Scope) /\ c \in sources'[c]
    BY <2>1 DEF Entries, Scope, AbortInv
  <2>3. \A c \in Entries(Scope)' : Aborted(c)'
    BY <2>1, <2>2 DEF Aborted
  <2>4. QED
    BY <2>1, <2>3 DEF AbortInv, FinishAbortsEverything
<1>11. CASE FinishSkipped \/ FinishReturns
  BY <1>11 DEF FinishSkipped, FinishReturns, ListPending, AbortInv, FinishAbortsEverything,
     opVars
<1>12. CASE Reconciled \/ \E w \in Owners, b \in BOOLEAN : Reconcile(w, b) \/ CleanScope(w, b)
  BY <1>12 DEF Reconciled, Reconcile, CleanScope, AbortInv, FinishAbortsEverything, opVars
<1>13. CASE Deadline
  BY <1>1, <1>13 DEF Deadline, opVars, abortVars
<1>14. CASE HookReturns
  BY <1>14 DEF HookReturns, AbortInv, FinishAbortsEverything, opVars
<1>15. CASE UNCHANGED vars
  BY <1>1, <1>15 DEF vars, abortVars
<1>16. CASE Next
  BY <1>16, <1>2, <1>3, <1>4, <1>5, <1>6, <1>7, <1>8, <1>9, <1>10, <1>11, <1>12, <1>13,
     <1>14, NextSteps
<1>17. QED
  BY <1>15, <1>16

(* finish_storage_operations waits for nothing that was not told to stop,     *)
(* whatever was admitted after it selected what it waits for.                 *)
THEOREM FinishAborts == Spec => []FinishAbortsEverything
<1>1. Init => ClosedInv /\ AbortInv
  BY DEF Init, ClosedInv, Quieted, AbortInv, FinishAbortsEverything, Live, Unsettled
<1>2. TypeOK /\ ClosedInv /\ AbortInv /\ [Next]_vars => ClosedInv' /\ AbortInv'
  BY ClosedInductive, AbortInductive DEF TypeOK
<1>3. AbortInv => FinishAbortsEverything
  BY DEF AbortInv
<1>4. QED
  BY <1>1, <1>2, <1>3, TypeInvariant, PTL DEF Spec

-----------------------------------------------------------------------------
(* Deletion.  A session is deleted by a hook that visited its only scope, in  *)
(* cleaning, without finding anything; from then on its owner stays retired.  *)
GoneInv ==
  /\ stage \in {"idle", "prepared", "finishing"} => todo = {} /\ scopes = {}
  /\ reason = "delete" => target \notin gone /\ todo \subseteq {target} /\ scopes \subseteq {target}
  /\ stage = "reconciling" /\ reason = "delete" => target \in scopes
  /\ stage = "cleaning" /\ reason = "delete" /\ ~found => target \in todo \/ target \notin temp
  /\ stage = "listing" /\ reason = "delete" /\ legacy /\ ~found => late /\ target \in todo
  /\ stage # "idle" => reason # "none" \/ stage = "exited"
  /\ \A w \in gone : accepting[w] = "retired" /\ Entries({w}) = {} /\ w \notin temp

LEMMA GoneInductive ==
  EntriesOK /\ HookOK /\ ClosedInv /\ GoneInv /\ [Next]_vars => GoneInv'
<1> SUFFICES ASSUME EntriesOK, HookOK, ClosedInv, GoneInv, [Next]_vars PROVE GoneInv'
  OBVIOUS
<1> USE StorageAssumption
<1>0. ASSUME UNCHANGED <<hookVars, gone>>, temp' \subseteq temp,
             \A w \in gone : /\ accepting[w] = "retired" => accepting'[w] = "retired"
                             /\ Entries({w})' \subseteq Entries({w})
      PROVE  GoneInv'
  BY <1>0 DEF GoneInv, hookVars, HookOK
<1>1. ASSUME NEW w \in Owners, bind_storage_owner(w)
      PROVE  GoneInv'
  <2>1. \A v \in gone : accepting'[v] = accepting[v] /\ Entries({v})' = Entries({v})
    BY <1>1 DEF bind_storage_owner, SessionStarts, Entries, opVars, HookOK
  <2>2. QED
    BY <1>0, <1>1, <2>1 DEF bind_storage_owner
<1>2. ASSUME NEW w \in Owners, create_temp_directory(w)
      PROVE  GoneInv'
  <2>1. accepting[w] # "retired"
    BY <1>2 DEF create_temp_directory, Admissible
  <2>2. \A v \in gone : accepting'[v] = accepting[v] /\ Entries({v})' = Entries({v})
    BY <1>2, <2>1 DEF create_temp_directory, GoneInv, Entries, opVars, HookOK
  <2>3. w \notin gone
    BY <2>1 DEF GoneInv
  <2>4. stage = "cleaning" /\ reason = "delete" => target # w
    BY <2>1 DEF ClosedInv
  <2>5. QED
    BY <1>2, <2>2, <2>3, <2>4 DEF create_temp_directory, GoneInv, hookVars
<1>3. ASSUME NEW w \in Owners, SwitchAway(w)
      PROVE  GoneInv'
  <2>1. \A v \in gone : /\ accepting[v] = "retired" => accepting'[v] = "retired"
                        /\ Entries({v})' = Entries({v})
    BY <1>3 DEF SwitchAway, Entries, opVars, HookOK
  <2>2. QED
    BY <1>0, <1>3, <2>1 DEF SwitchAway
<1>4. ASSUME NEW w \in Owners, NEW o \in Ops, NEW p \in Ops \cup {NoOp},
             \/ AdmitScratch(o, w, p)
             \/ \E a \in {"internal", "external"} : AdmitPlain(o, w, p, a)
      PROVE  GoneInv'
  <2>1. \E a : Admissible(w, p, a)
    BY <1>4 DEF AdmitScratch, AdmitPlain
  <2>2. w \notin gone
    BY <2>1 DEF Admissible, GoneInv, Entries
  <2>3. /\ \A c \in Ops \ {o} : phase'[c] = phase[c] /\ owner'[c] = owner[c]
        /\ owner'[o] = w
        /\ \A v \in Owners : accepting[v] = "retired" => accepting'[v] = "retired"
        /\ UNCHANGED <<hookVars, gone>> /\ temp' = temp
    BY <1>4 DEF AdmitScratch, AdmitPlain, reserve_owned_operation, EntriesOK, HookOK,
       Touched
  <2>4. \A v \in gone : Entries({v})' \subseteq Entries({v})
    BY <2>2, <2>3 DEF Entries
  <2>5. QED
    BY <1>0, <2>3, <2>4 DEF HookOK
<1>5. ASSUME UNCHANGED <<hookVars, gone, temp, accepting, phase, owner>>
      PROVE  GoneInv'
  <2>1. \A w \in gone : Entries({w})' = Entries({w})
    BY <1>5 DEF Entries
  <2>2. QED
    BY <1>0, <1>5, <2>1
<1>6. ASSUME NEW o \in Ops, CallerAborts(o)
      PROVE  GoneInv'
  BY <1>5, <1>6 DEF CallerAborts, registryVars
<1>7. ASSUME NEW o \in Ops,
             OpStep(o) \/ \E r \in Nat : FinisherSucceeds(r, o) \/ FinisherFails(r, o)
      PROVE  GoneInv'
  <2>1. UNCHANGED <<hookVars, gone, temp, accepting>>
    BY <1>7 DEF OpStep, GuardianStarts, GuardianFails, WorkEnds, Joined, GuardianCloses,
       GuardianCloseFails, PlainEnds, PlainPending, FinisherSucceeds, FinisherFails,
       registryVars
  <2>2. \A w \in gone : Entries({w})' \subseteq Entries({w})
    BY <1>7, StepsAddNoEntry
  <2>3. QED
    BY <1>0, <2>1, <2>2
<1>8. ASSUME NEW a \in armed, FinisherSucceeds(a[1], a[2]) \/ FinisherFails(a[1], a[2])
      PROVE  GoneInv'
  BY <1>7, <1>8 DEF HookOK
<1>9. ASSUME NEW p \in Paths, reserve_storage_recovery(p) \/ RecoveryFinishes(p)
      PROVE  GoneInv'
  BY <1>5, <1>9 DEF reserve_storage_recovery, RecoveryFinishes, registryVars, opVars
<1>10. ASSUME NEW a \in armedPaths, NEW ok \in BOOLEAN, RecoveryRetried(a[1], a[2], ok)
       PROVE  GoneInv'
  BY <1>5, <1>10 DEF RecoveryRetried, registryVars, opVars
<1>11. ASSUME UNCHANGED <<opVars, temp, gone>>,
              \A w \in gone : accepting[w] = "retired" => accepting'[w] = "retired"
       PROVE  \A w \in gone' : accepting'[w] = "retired" /\ Entries({w})' = {} /\ w \notin temp'
  BY <1>11 DEF GoneInv, Entries, opVars
<1>12. ASSUME NEW why \in {"quit", "delete"}, NEW w \in Owners, NEW headless \in BOOLEAN,
              Prepare(why, w, headless)
       PROVE  GoneInv'
  <2>1. \A v \in gone : accepting[v] = "retired" => accepting'[v] = "retired"
    BY <1>12 DEF Prepare, freeze_storage_operations, HookOK
  <2>2. UNCHANGED <<opVars, temp, gone>>
    BY <1>12 DEF Prepare
  <2>3. \A v \in gone' : accepting'[v] = "retired" /\ Entries({v})' = {} /\ v \notin temp'
    BY <1>11, <2>1, <2>2
  <2>4. QED
    BY <1>12, <2>3 DEF Prepare, GoneInv
<1>13. CASE FinishBegins
  <2>1. \A v \in gone : accepting[v] = "retired" => accepting'[v] = "retired"
    BY <1>13 DEF FinishBegins, freeze_storage_operations, HookOK, registryVars
  <2>2. \A v \in gone : Entries({v})' = Entries({v})
    BY <1>13 DEF FinishBegins, Entries
  <2>3. QED
    BY <1>13, <2>1, <2>2 DEF FinishBegins, GoneInv
<1>14. CASE FinishSkipped \/ FinishReturns
  <2>1. ListPending /\ stage \in {"prepared", "finishing"}
    BY <1>14 DEF FinishSkipped, FinishReturns
  <2>2. \A v \in gone' : accepting'[v] = "retired" /\ Entries({v})' = {} /\ v \notin temp'
    BY <1>11, <2>1 DEF ListPending, registryVars
  <2>3. reason = "delete" => HookScopes = {target}
    BY DEF HookScopes
  <2>4. QED
    BY <2>1, <2>2, <2>3 DEF ListPending, GoneInv
<1>15. CASE Deadline \/ Reconciled \/ \E w \in Owners, b \in BOOLEAN : Reconcile(w, b)
  <2>1. \A v \in gone' : accepting'[v] = "retired" /\ Entries({v})' = {} /\ v \notin temp'
    BY <1>11, <1>15 DEF Deadline, Reconciled, Reconcile, registryVars
  <2>2. CASE Deadline
    BY <2>1, <2>2 DEF Deadline, GoneInv
  <2>3. CASE Reconciled
    BY <2>1, <2>3 DEF Reconciled, GoneInv
  <2>4. CASE \E w \in Owners, b \in BOOLEAN : Reconcile(w, b)
    BY <2>1, <2>4 DEF Reconcile, GoneInv
  <2>5. QED
    BY <1>15, <2>2, <2>3, <2>4
<1>16. ASSUME NEW w \in Owners, NEW b \in BOOLEAN, CleanScope(w, b)
       PROVE  GoneInv'
  <2>1. \A v \in gone' : accepting'[v] = "retired" /\ Entries({v})' = {} /\ v \notin temp'
    BY <1>16 DEF CleanScope, GoneInv, Entries, registryVars, opVars
  <2>2. late' = late /\ gone' = gone /\ stage' = stage /\ reason' = reason /\ target' = target
        /\ scopes' = scopes /\ legacy' = legacy /\ stage \in {"cleaning", "listing"} /\ w \in todo
    BY <1>16 DEF CleanScope
  <2>3. CASE late /\ todo' = {} /\ found' = TRUE
    BY <2>1, <2>2, <2>3 DEF GoneInv
  <2>4. CASE /\ ~late
             /\ temp' = IF stage = "cleaning" /\ b THEN temp \ {w} ELSE temp
             /\ todo' = todo \ {w}
             /\ found' = (found \/ w \in temp')
    BY <2>1, <2>2, <2>4 DEF GoneInv
  <2>5. QED
    BY <1>16, <2>3, <2>4 DEF CleanScope
<1>17. CASE HookReturns
  <2>1. CASE legacy /\ ~found /\ reason = "delete"
    <3>1. stage = "cleaning" /\ target \notin temp
      BY <1>17, <2>1 DEF HookReturns, GoneInv
    <3>2. accepting[target] = "retired" /\ Entries({target}) = {}
      BY <2>1, <3>1 DEF ClosedInv, Quieted, Scope
    <3>3. gone' = gone \cup {target} /\ UNCHANGED <<accepting, temp, phase, owner>>
      BY <1>17, <2>1 DEF HookReturns, registryVars, opVars
    <3>4. \A v \in gone' : accepting'[v] = "retired" /\ Entries({v})' = {} /\ v \notin temp'
      BY <3>1, <3>2, <3>3 DEF GoneInv, Entries
    <3>5. QED
      BY <1>17, <3>4 DEF HookReturns, GoneInv
  <2>2. CASE ~(legacy /\ ~found /\ reason = "delete")
    <3>1. \A v \in gone' : accepting'[v] = "retired" /\ Entries({v})' = {} /\ v \notin temp'
      BY <1>11, <1>17, <2>2 DEF HookReturns, registryVars
    <3>2. QED
      BY <1>17, <3>1 DEF HookReturns, GoneInv
  <2>3. QED
    BY <2>1, <2>2
<1>18. CASE UNCHANGED vars
  BY <1>5, <1>18 DEF vars, hookVars
<1>19. CASE Next
  BY <1>19, <1>1, <1>2, <1>3, <1>4, <1>6, <1>7, <1>8, <1>9, <1>10, <1>12, <1>13, <1>14,
     <1>15, <1>16, <1>17, NextSteps
<1>20. QED
  BY <1>18, <1>19

(* A deleted session stays deleted: nothing is admitted for its owner again   *)
(* and no temporary directory is left or created in its name.                 *)
THEOREM DeletedStays == Spec => []DeletedStaysQuiet
<1>1. Init => ClosedInv /\ GoneInv
  BY DEF Init, ClosedInv, Quieted, GoneInv
<1>2. TypeOK /\ ClosedInv /\ GoneInv /\ [Next]_vars => ClosedInv' /\ GoneInv'
  BY ClosedInductive, GoneInductive DEF TypeOK
<1>3. GoneInv => DeletedStaysQuiet
  BY DEF GoneInv, DeletedStaysQuiet
<1>4. QED
  BY <1>1, <1>2, <1>3, TypeInvariant, PTL DEF Spec

-----------------------------------------------------------------------------
(* What a quit leaves.  A guardian's directory belongs to an admitted scratch *)
(* operation, and a temporary directory to a session the registry knows; the  *)
(* hook visits every known session, and it keeps the registry closed from the *)
(* freeze to the exit, so nothing is added to what it has still to visit.     *)
ScratchHeld ==
  \A o \in Ops : scratch[o] # "none" => phase[o] \in Live /\ kind[o] = "scratch"

LEMMA HeldInductive == EntriesOK /\ HookOK /\ ScratchHeld /\ [Next]_vars => ScratchHeld'
<1> SUFFICES ASSUME EntriesOK, HookOK, ScratchHeld, [Next]_vars PROVE ScratchHeld'
  OBVIOUS
<1>1. ASSUME UNCHANGED <<scratch, phase, kind>> PROVE ScratchHeld'
  BY <1>1 DEF ScratchHeld
<1>2. ASSUME NEW w \in Owners, NEW o \in Ops, NEW p \in Ops \cup {NoOp},
             \/ AdmitScratch(o, w, p)
             \/ \E a \in {"internal", "external"} : AdmitPlain(o, w, p, a)
      PROVE  ScratchHeld'
  <2> USE DEF ScratchHeld, EntriesOK, Live, Unsettled
  <2>1. CASE AdmitScratch(o, w, p)
    BY <2>1 DEF AdmitScratch
  <2>2. ASSUME NEW a \in {"internal", "external"}, AdmitPlain(o, w, p, a)
        PROVE  ScratchHeld'
    BY <2>2 DEF AdmitPlain
  <2>3. QED
    BY <1>2, <2>1, <2>2
<1>3. ASSUME NEW o \in Ops, OpStep(o)
      PROVE  ScratchHeld'
  <2> USE DEF ScratchHeld, EntriesOK, Live, Unsettled
  <2>1. CASE GuardianStarts(o) \/ GuardianFails(o)
    BY <2>1 DEF GuardianStarts, GuardianFails, join
  <2>2. CASE \E failed \in BOOLEAN : WorkEnds(o, failed)
    BY <2>2 DEF WorkEnds, join
  <2>3. CASE Joined(o)
    BY <2>3 DEF Joined, finish
  <2>4. CASE GuardianCloses(o) \/ GuardianCloseFails(o)
    BY <2>4 DEF GuardianCloses, GuardianCloseFails, finish, pending
  <2>5. CASE PlainEnds(o) \/ PlainPending(o)
    BY <2>5 DEF PlainEnds, PlainPending, finish, pending
  <2>6. QED
    BY <1>3, <2>1, <2>2, <2>3, <2>4, <2>5 DEF OpStep
<1>4. ASSUME NEW o \in Ops, NEW r \in Nat, FinisherSucceeds(r, o) \/ FinisherFails(r, o)
      PROVE  ScratchHeld'
  BY <1>1, <1>4 DEF FinisherSucceeds, FinisherFails, finish, opVars, ScratchHeld, EntriesOK
<1>5. ASSUME NEW a \in armed, FinisherSucceeds(a[1], a[2]) \/ FinisherFails(a[1], a[2])
      PROVE  ScratchHeld'
  BY <1>4, <1>5 DEF HookOK
<1>6. ASSUME NEW w \in Owners, NEW b \in BOOLEAN,
             \/ bind_storage_owner(w) \/ create_temp_directory(w) \/ SwitchAway(w)
             \/ Reconcile(w, b) \/ CleanScope(w, b)
             \/ \E why \in {"quit", "delete"} : Prepare(why, w, b)
      PROVE  ScratchHeld'
  BY <1>1, <1>6 DEF bind_storage_owner, create_temp_directory, SwitchAway, Reconcile,
     CleanScope, Prepare, opVars
<1>7. ASSUME NEW p \in Paths, reserve_storage_recovery(p) \/ RecoveryFinishes(p)
      PROVE  ScratchHeld'
  BY <1>1, <1>7 DEF reserve_storage_recovery, RecoveryFinishes, opVars
<1>8. ASSUME NEW a \in armedPaths, NEW ok \in BOOLEAN, RecoveryRetried(a[1], a[2], ok)
      PROVE  ScratchHeld'
  BY <1>1, <1>8 DEF RecoveryRetried, opVars
<1>9. CASE FinishBegins \/ FinishSkipped \/ FinishReturns \/ Deadline \/ Reconciled
           \/ HookReturns
  BY <1>1, <1>9 DEF FinishBegins, FinishSkipped, FinishReturns, ListPending, Deadline,
     Reconciled, HookReturns, opVars
<1>10. ASSUME NEW o \in Ops, CallerAborts(o) PROVE ScratchHeld'
  BY <1>1, <1>10 DEF CallerAborts
<1>11. CASE UNCHANGED vars
  BY <1>1, <1>11 DEF vars
<1>12. CASE Next
  BY <1>12, <1>2, <1>3, <1>5, <1>6, <1>7, <1>8, <1>9, <1>10, NextSteps
<1>13. QED
  BY <1>11, <1>12

ExitInv ==
  /\ \A w \in temp : accepting[w] # "unknown"
  /\ stage = "reconciling" => target \in scopes
  /\ stage = "reconciling" /\ reason = "quit" /\ legacy => temp \subseteq scopes
  /\ stage = "cleaning" /\ reason = "quit" /\ ~found => temp \subseteq todo
  /\ stage = "listing" /\ reason = "quit" /\ legacy /\ ~found => late /\ todo # {}
  /\ ExitLeavesNothing

LEMMA ExitInductive ==
  EntriesOK /\ HookOK /\ ClosedInv /\ ScratchHeld /\ ExitInv /\ [Next]_vars => ExitInv'
<1> SUFFICES ASSUME EntriesOK, HookOK, ClosedInv, ScratchHeld, ExitInv, [Next]_vars
    PROVE ExitInv'
  OBVIOUS
<1>0. ASSUME UNCHANGED hookVars, temp' \subseteq temp, stage # "exited",
             \A w \in Owners : accepting[w] # "unknown" => accepting'[w] # "unknown"
      PROVE  ExitInv'
  BY <1>0 DEF ExitInv, hookVars, HookOK, ExitLeavesNothing
<1>1. ASSUME NEW w \in Owners, stage # "exited", bind_storage_owner(w) \/ SwitchAway(w)
      PROVE  ExitInv'
  BY <1>0, <1>1 DEF bind_storage_owner, SwitchAway, HookOK
<1>2. ASSUME NEW w \in Owners, stage # "exited", create_temp_directory(w)
      PROVE  ExitInv'
  <2>1. ~closing
    BY <1>2 DEF create_temp_directory, Admissible
  <2>2. ~(stage \in {"reconciling", "cleaning"} /\ reason = "quit" /\ legacy)
    BY <2>1 DEF ClosedInv
  <2>3. ~(stage = "cleaning" /\ reason = "quit")
    BY <2>2 DEF ClosedInv
  <2>4. \A v \in temp' : accepting'[v] # "unknown"
    BY <1>2 DEF create_temp_directory, ExitInv, HookOK, Touched
  <2>5. QED
    BY <1>2, <2>2, <2>3, <2>4 DEF create_temp_directory, ExitInv, hookVars, ExitLeavesNothing
<1>3. ASSUME NEW w \in Owners, NEW o \in Ops, NEW p \in Ops \cup {NoOp}, stage # "exited",
             \/ AdmitScratch(o, w, p)
             \/ \E a \in {"internal", "external"} : AdmitPlain(o, w, p, a)
      PROVE  ExitInv'
  BY <1>0, <1>3 DEF AdmitScratch, AdmitPlain, reserve_owned_operation, HookOK, Touched
<1>4. ASSUME UNCHANGED <<hookVars, temp, accepting>>, stage # "exited"
      PROVE  ExitInv'
  BY <1>0, <1>4
<1>5. ASSUME NEW o \in Ops, stage # "exited",
             CallerAborts(o) \/ OpStep(o)
               \/ \E r \in Nat : FinisherSucceeds(r, o) \/ FinisherFails(r, o)
      PROVE  ExitInv'
  BY <1>4, <1>5 DEF CallerAborts, OpStep, GuardianStarts, GuardianFails, WorkEnds, Joined,
     GuardianCloses, GuardianCloseFails, PlainEnds, PlainPending, FinisherSucceeds,
     FinisherFails, registryVars
<1>6. ASSUME NEW a \in armed, stage # "exited",
             FinisherSucceeds(a[1], a[2]) \/ FinisherFails(a[1], a[2])
      PROVE  ExitInv'
  BY <1>5, <1>6 DEF HookOK
<1>7. ASSUME NEW p \in Paths, stage # "exited", reserve_storage_recovery(p) \/ RecoveryFinishes(p)
      PROVE  ExitInv'
  BY <1>4, <1>7 DEF reserve_storage_recovery, RecoveryFinishes, registryVars
<1>8. ASSUME NEW a \in armedPaths, NEW ok \in BOOLEAN, stage # "exited",
             RecoveryRetried(a[1], a[2], ok)
      PROVE  ExitInv'
  BY <1>4, <1>8 DEF RecoveryRetried, registryVars
<1>9. ASSUME NEW why \in {"quit", "delete"}, NEW w \in Owners, NEW headless \in BOOLEAN,
             Prepare(why, w, headless)
      PROVE  ExitInv'
  <2>1. \A v \in Owners : accepting[v] # "unknown" => accepting'[v] # "unknown"
    BY <1>9 DEF Prepare, freeze_storage_operations, HookOK
  <2>2. stage' = "prepared" /\ temp' = temp
    BY <1>9 DEF Prepare
  <2>3. QED
    BY <2>1, <2>2 DEF ExitInv, HookOK, ExitLeavesNothing
<1>10. CASE FinishBegins
  <2>1. \A v \in Owners : accepting[v] # "unknown" => accepting'[v] # "unknown"
    BY <1>10 DEF FinishBegins, freeze_storage_operations, HookOK, registryVars
  <2>2. stage' = "finishing" /\ temp' = temp
    BY <1>10 DEF FinishBegins
  <2>3. QED
    BY <2>1, <2>2 DEF ExitInv, HookOK, ExitLeavesNothing
<1>11. CASE FinishSkipped \/ FinishReturns
  <2>1. ListPending
    BY <1>11 DEF FinishSkipped, FinishReturns
  <2>2. target \in HookScopes /\ (reason = "quit" => temp \subseteq HookScopes)
    BY DEF HookScopes, ExitInv, HookOK
  <2>3. QED
    BY <2>1, <2>2 DEF ListPending, ExitInv, ExitLeavesNothing, registryVars
<1>12. CASE Deadline
  BY <1>12 DEF Deadline, ExitInv, ExitLeavesNothing, registryVars
<1>13. CASE Reconciled
  BY <1>13 DEF Reconciled, ExitInv, ExitLeavesNothing, registryVars
<1>14. ASSUME NEW w \in Owners, NEW b \in BOOLEAN, Reconcile(w, b)
       PROVE  ExitInv'
  BY <1>14 DEF Reconcile, ExitInv, ExitLeavesNothing, registryVars
<1>15. ASSUME NEW w \in Owners, NEW b \in BOOLEAN, CleanScope(w, b)
       PROVE  ExitInv'
  <2>1. UNCHANGED <<accepting, stage, reason, target, scopes, late, legacy>>
        /\ stage \in {"cleaning", "listing"} /\ temp' \subseteq temp
    BY <1>15 DEF CleanScope, registryVars
  <2>2. CASE late /\ todo' = {} /\ found' = TRUE
    BY <2>1, <2>2 DEF ExitInv, ExitLeavesNothing
  <2>3. CASE /\ ~late
             /\ todo' = todo \ {w}
             /\ found' = (found \/ w \in temp')
    BY <2>1, <2>3 DEF ExitInv, ExitLeavesNothing
  <2>4. QED
    BY <1>15, <2>2, <2>3 DEF CleanScope
<1>16. CASE HookReturns
  <2>1. CASE legacy /\ ~found /\ reason = "quit"
    <3>1. stage = "cleaning" /\ temp = {}
      BY <1>16, <2>1 DEF HookReturns, ExitInv
    <3>2. Entries(Owners) = {} /\ \A p \in recovery : PathOwner[p] \notin Owners
      BY <2>1, <3>1 DEF ClosedInv, Quieted, Scope
    <3>3. recovery = {}
      BY <3>2, StorageAssumption DEF HookOK
    <3>4. \A o \in Ops : scratch[o] = "none"
      BY <3>2 DEF ScratchHeld, Entries, EntriesOK
    <3>5. UNCHANGED <<phase, owner, scratch, recovery, temp, accepting>> /\ stage' = "exited"
      BY <1>16, <2>1 DEF HookReturns, registryVars, opVars, recoveryVars
    <3>6. ExitLeavesNothing'
      BY <3>1, <3>2, <3>3, <3>4, <3>5 DEF ExitLeavesNothing, Entries
    <3>7. QED
      BY <3>5, <3>6 DEF ExitInv
  <2>2. CASE ~(legacy /\ ~found /\ reason = "quit")
    BY <1>16, <2>2 DEF HookReturns, ExitInv, ExitLeavesNothing, registryVars
  <2>3. QED
    BY <2>1, <2>2
<1>17. CASE UNCHANGED vars
  BY <1>17 DEF vars, ExitInv, ExitLeavesNothing, Entries
<1>18. CASE Next
  BY <1>18, <1>1, <1>2, <1>3, <1>5, <1>6, <1>7, <1>8, <1>9, <1>10, <1>11, <1>12, <1>13,
     <1>14, <1>15, <1>16, NextSteps DEF Next, Running
<1>19. QED
  BY <1>17, <1>18

(* A quit that exits leaves nothing behind: no admitted operation, recovery,  *)
(* guardian or temporary directory of any session, whatever was admitted,     *)
(* aborted or retried while the hook awaited.                                 *)
THEOREM ExitIsClean == Spec => []ExitLeavesNothing
<1>1. Init => ClosedInv /\ ScratchHeld /\ ExitInv
  BY DEF Init, ClosedInv, Quieted, ScratchHeld, ExitInv, ExitLeavesNothing
<1>2. TypeOK /\ ClosedInv /\ ScratchHeld /\ ExitInv /\ [Next]_vars
        => ClosedInv' /\ ScratchHeld' /\ ExitInv'
  BY ClosedInductive, HeldInductive, ExitInductive DEF TypeOK
<1>3. ExitInv => ExitLeavesNothing
  BY DEF ExitInv
<1>4. QED
  BY <1>1, <1>2, <1>3, TypeInvariant, PTL DEF Spec

=============================================================================
