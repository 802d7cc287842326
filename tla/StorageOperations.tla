-------------------------- MODULE StorageOperations --------------------------
(***************************************************************************)
(* The registry of owned storage operations of one host process            *)
(* (packages/harness/src/lib/storage/operations.ts), its clients (scratch  *)
(* directories of scratch.ts, shells and subagent runs) and the session    *)
(* cleanup hook that closes the registry and deletes a session's temporary *)
(* directories (lifecycle.ts).                                             *)
(*                                                                         *)
(* Everything runs on one event loop: an action is one synchronous section *)
(* of the code, and the places where the code awaits are the places where  *)
(* other actions come between.  An operation is an element of Ops, used    *)
(* once, as a random UUID is.                                              *)
(***************************************************************************)
EXTENDS Integers, FiniteSets

CONSTANTS
  Owners,          \* session owners (session_id, session_dir)
  Ops,             \* identities of owned operations
  Paths,           \* state paths of shells that may need recovery
  PathOwner,       \* the session each of those shells belongs to
  MaxOperations,   \* MAX_OPERATIONS, 64 in the code
  MaxRecoveries,   \* MAX_OWNERS as the bound on recoveries, 1024 in the code
  MaxRounds,       \* bound of the model: calls of the cleanup hook's finish
  NoOp,            \* absence of a parent operation
  NoOwner          \* absence of an owner

ASSUME StorageAssumption ==
  /\ PathOwner \in [Paths -> Owners]
  /\ MaxOperations \in Nat
  /\ MaxRecoveries \in Nat
  /\ MaxRounds \in Nat
  /\ NoOp \notin Ops
  /\ NoOwner \notin Owners

VARIABLES
  closing,      \* registry.closing
  draining,     \* registry.draining
  accepting,    \* owners' admission: "unknown" (no OwnerState), "open", "retired"
  phase,        \* where each operation is in its life
  kind,         \* "scratch": with_session_scratch; "plain": a shell or a run
  owner,        \* operation.owner
  parent,       \* the entry found through registry.signals, or NoOp
  children,     \* entry.children
  open,         \* entry.accepting_children
  retry,        \* entry.retry is set
  sources,      \* AbortSignal.any: the controllers that abort operation.signal
  fired,        \* controllers (or the caller's signal) that have been aborted
  scratch,      \* the guardian's directory: "none" (no guardian, or closed),
                \* "starting", "live", or "absent" when the start failed without it
  recovery,     \* entries of registry.recoveries, by state path
  overflow,     \* registry.recovery_overflow is set
  armed,        \* <<round, operation>>: a finisher awaits entry.settled or entry.retry
  armedPaths,   \* <<round, path>>: a finisher awaits a recovery's retry
  temp,         \* owners that have a managed scratch temporary directory
  stage,        \* how far the session cleanup hook has come
  reason,       \* event.reason: "quit" or "delete"; "none" when idle
  target,       \* the owner the event names
  round,        \* calls of the hook so far
  scopes, todo, \* the owners it reconciles, and those it has still to visit
  found,        \* result.pending is not empty
  late,         \* the event's signal has aborted: the host's deadline passed
  legacy,       \* event.legacy_completed
  gone          \* owners whose session was deleted with nothing pending

registryVars == <<closing, draining, accepting>>
opVars == <<phase, kind, owner, parent, children, open, retry, sources, fired, scratch>>
recoveryVars == <<recovery, overflow>>
finisherVars == <<armed, armedPaths>>
hookVars == <<stage, reason, target, round, scopes, todo, found, late, legacy>>
vars == <<closing, draining, accepting, phase, kind, owner, parent, children,
          open, retry, sources, fired, scratch, recovery, overflow, armed,
          armedPaths, temp, stage, reason, target, round, scopes, todo, found,
          late, legacy, gone>>

Phases == {"unused", "running", "joining", "closing", "pending", "done"}
Unsettled == {"running", "joining", "closing"}
Live == Unsettled \cup {"pending"}

Stages == {"idle", "prepared", "finishing", "reconciling", "cleaning", "listing", "exited"}

Entries(W) == {o \in Ops : phase[o] \in Live /\ owner[o] \in W}

Aborted(o) == sources[o] \cap fired # {}

(* The owners whose work a finish ends: the deleted one, or all *)
Scope == IF reason = "delete" THEN {target} ELSE Owners

(* pending_storage_operations: entries, recoveries and the sticky overflow *)
SomethingPending(W) ==
  \/ Entries(W) # {}
  \/ \E p \in recovery : PathOwner[p] \in W
  \/ overflow

(* owner_state: an owner is entered, accepting, when it is first asked for *)
Touched(w) == IF accepting[w] = "unknown" THEN "open" ELSE accepting[w]

Init ==
  /\ closing = FALSE
  /\ draining = FALSE
  /\ accepting = [w \in Owners |-> "unknown"]
  /\ phase = [o \in Ops |-> "unused"]
  /\ kind = [o \in Ops |-> "plain"]
  /\ owner = [o \in Ops |-> NoOwner]
  /\ parent = [o \in Ops |-> NoOp]
  /\ children = [o \in Ops |-> {}]
  /\ open = [o \in Ops |-> FALSE]
  /\ retry = [o \in Ops |-> FALSE]
  /\ sources = [o \in Ops |-> {}]
  /\ fired = {}
  /\ scratch = [o \in Ops |-> "none"]
  /\ recovery = {}
  /\ overflow = FALSE
  /\ armed = {}
  /\ armedPaths = {}
  /\ temp = {}
  /\ stage = "idle"
  /\ reason = "none"
  /\ target = NoOwner
  /\ round = 0
  /\ scopes = {}
  /\ todo = {}
  /\ found = FALSE
  /\ late = FALSE
  /\ legacy = TRUE
  /\ gone = {}

-----------------------------------------------------------------------------
(* Admission *)

(* The host does not start a session while it quits, nor one that is being   *)
(* deleted or was deleted; session_start ends before its session is closed.  *)
SessionStarts(w) ==
  /\ w \notin gone
  /\ stage # "idle" => reason = "delete" /\ target # w

(* session_start binds the session's owner *)
bind_storage_owner(w) ==
  /\ SessionStarts(w)
  /\ closing' = FALSE
  /\ draining' = FALSE
  /\ accepting' = [accepting EXCEPT ![w] = "open"]
  /\ UNCHANGED <<opVars, recoveryVars, finisherVars, temp, hookVars, gone>>

(* Mutants of Admissible: the parent's state or the owner's retirement is   *)
(* not checked.                                                              *)
AdmissibleAfterJoin(w, p, admission) ==
  /\ ~closing
  /\ ~(draining /\ admission = "external")
  /\ p # NoOp => phase[p] \in Live /\ owner[p] = w
  /\ p = NoOp => accepting[w] # "retired"
  /\ Cardinality(Entries(Owners)) < MaxOperations

AdmissibleWhenRetired(w, p, admission) ==
  /\ ~closing
  /\ ~(draining /\ admission = "external")
  /\ p # NoOp => open[p] /\ phase[p] \in Live /\ owner[p] = w
  /\ Cardinality(Entries(Owners)) < MaxOperations

(* The guards of reserve_owned_operation, for a caller whose signal belongs *)
(* to the entry of operation p (NoOp when it belongs to none).              *)
Admissible(w, p, admission) ==
  /\ ~closing
  /\ ~(draining /\ admission = "external")
  /\ p # NoOp => open[p] /\ phase[p] \in Live /\ owner[p] = w
  /\ p = NoOp => accepting[w] # "retired"
  /\ Cardinality(Entries(Owners)) < MaxOperations

(* Mutant: the child's signal does not follow its parent's *)
ReserveUnlinkedSignal(o, w, p, accepts_children) ==
  /\ accepting' = [accepting EXCEPT ![w] = Touched(w)]
  /\ owner' = [owner EXCEPT ![o] = w]
  /\ parent' = [parent EXCEPT ![o] = p]
  /\ sources' = [sources EXCEPT ![o] = {o}]
  /\ children' = IF p = NoOp THEN children
                 ELSE [children EXCEPT ![p] = @ \cup {o}]
  /\ open' = [open EXCEPT ![o] = accepts_children]
  /\ UNCHANGED <<closing, draining, retry, fired>>

(* reserve_owned_operation: the new entry, its signal and its parent link. *)
(* An operation born aborted stops accepting children in the same section.  *)
reserve_owned_operation(o, w, p, accepts_children) ==
  /\ accepting' = [accepting EXCEPT ![w] = Touched(w)]
  /\ owner' = [owner EXCEPT ![o] = w]
  /\ parent' = [parent EXCEPT ![o] = p]
  /\ sources' = [sources EXCEPT ![o] = {o} \cup (IF p = NoOp THEN {} ELSE sources[p])]
  /\ children' = IF p = NoOp THEN children
                 ELSE [children EXCEPT ![p] = @ \cup {o}]
  /\ open' = [open EXCEPT ![o] = accepts_children]
  /\ UNCHANGED <<closing, draining, retry, fired>>

(* Only with_session_scratch hands its signal on, to its work callback; code *)
(* the callback started may use it at any time, even after the work ended.   *)
PassesSignal(p) == p # NoOp => kind[p] = "scratch" /\ phase[p] # "unused"

(* A shell or a subagent run: internal when a tool of this host starts it,   *)
(* external when it arrives over the subagent RPC or for sh_repeat.          *)
AdmitPlain(o, w, p, admission) ==
  /\ phase[o] = "unused"
  /\ PassesSignal(p)
  /\ p # NoOp => admission = "internal"
  /\ Admissible(w, p, admission)
  /\ reserve_owned_operation(o, w, p, TRUE)
  /\ phase' = [phase EXCEPT ![o] = "running"]
  /\ kind' = [kind EXCEPT ![o] = "plain"]
  /\ UNCHANGED <<scratch, recoveryVars, finisherVars, temp, hookVars, gone>>

(* with_session_scratch up to its first await.  An operation born aborted   *)
(* throws before it has a guardian and goes straight to its join.           *)
AdmitScratch(o, w, p) ==
  LET born_aborted == p # NoOp /\ Aborted(p)
  IN  /\ phase[o] = "unused"
      /\ PassesSignal(p)
      /\ Admissible(w, p, "internal")
      /\ reserve_owned_operation(o, w, p, ~born_aborted)
      /\ phase' = [phase EXCEPT ![o] = IF born_aborted THEN "joining" ELSE "running"]
      /\ kind' = [kind EXCEPT ![o] = "scratch"]
      /\ scratch' = [scratch EXCEPT ![o] = IF born_aborted THEN "none" ELSE "starting"]
      /\ UNCHANGED <<recoveryVars, finisherVars, temp, hookVars, gone>>

(* create_temp_directory: its body never awaits, so its external operation   *)
(* begins and ends inside one step.                                          *)
create_temp_directory(w) ==
  /\ Admissible(w, NoOp, "external")
  /\ accepting' = [accepting EXCEPT ![w] = Touched(w)]
  /\ temp' = temp \cup {w}
  /\ UNCHANGED <<closing, draining, opVars, recoveryVars, finisherVars, hookVars, gone>>

(* The caller of an operation aborts its own signal (a user interrupt, a     *)
(* probe's timeout).                                                         *)
CallerAborts(o) ==
  /\ phase[o] \in Live
  /\ ~Aborted(o)
  /\ fired' = fired \cup {o}
  /\ UNCHANGED <<registryVars, phase, kind, owner, parent, children, open, retry,
                 sources, scratch, recoveryVars, finisherVars, temp, hookVars, gone>>

-----------------------------------------------------------------------------
(* The life of an admitted operation *)

(* Mutant of Detach: the parent keeps waiting for a settled child *)
DetachNotFromParent(o) ==
  /\ open' = [open EXCEPT ![o] = FALSE]
  /\ parent' = [parent EXCEPT ![o] = NoOp]
  /\ UNCHANGED children

(* operation.finish and operation.pending settle the entry and take it out   *)
(* of its parent's children.                                                 *)
Detach(o) ==
  /\ open' = [open EXCEPT ![o] = FALSE]
  /\ parent' = [parent EXCEPT ![o] = NoOp]
  /\ children' = IF parent[o] = NoOp THEN children
                 ELSE [children EXCEPT ![parent[o]] = @ \ {o}]

(* Mutant of finish: the entry is settled but stays in the registry *)
FinishKeepsEntry(o) ==
  /\ phase' = [phase EXCEPT ![o] = "done"]
  /\ Detach(o)
  /\ UNCHANGED <<kind, owner, sources, retry>>

(* finish also removes the entry; what only the entry held is forgotten *)
finish(o) ==
  /\ phase' = [phase EXCEPT ![o] = "done"]
  /\ Detach(o)
  /\ kind' = [kind EXCEPT ![o] = "plain"]
  /\ owner' = [owner EXCEPT ![o] = NoOwner]
  /\ sources' = [sources EXCEPT ![o] = {}]
  /\ retry' = [retry EXCEPT ![o] = FALSE]

pending(o) ==
  /\ phase' = [phase EXCEPT ![o] = "pending"]
  /\ Detach(o)
  /\ retry' = [retry EXCEPT ![o] = TRUE]
  /\ UNCHANGED <<kind, owner, sources>>

(* operation.join(cancel) up to its await *)
join(o, cancel) ==
  /\ phase' = [phase EXCEPT ![o] = "joining"]
  /\ open' = [open EXCEPT ![o] = FALSE]
  /\ fired' = IF cancel THEN fired \cup children[o] ELSE fired
  /\ UNCHANGED <<kind, owner, parent, children, retry, sources>>

(* guardian.start resolves; an abort that came meanwhile is thrown here *)
GuardianStarts(o) ==
  /\ phase[o] = "running"
  /\ scratch[o] = "starting"
  /\ scratch' = [scratch EXCEPT ![o] = "live"]
  /\ IF Aborted(o) THEN join(o, TRUE)
     ELSE UNCHANGED <<phase, kind, owner, parent, children, open, retry, sources, fired>>
  /\ UNCHANGED <<registryVars, recoveryVars, finisherVars, temp, hookVars, gone>>

(* guardian.start rejects; the directory may be there ("live") or not *)
GuardianFails(o) ==
  /\ phase[o] = "running"
  /\ scratch[o] = "starting"
  /\ scratch' \in {[scratch EXCEPT ![o] = "live"], [scratch EXCEPT ![o] = "absent"]}
  /\ join(o, TRUE)
  /\ UNCHANGED <<registryVars, recoveryVars, finisherVars, temp, hookVars, gone>>

(* The work callback returns, or throws and cancels its children *)
WorkEnds(o, failed) ==
  /\ phase[o] = "running"
  /\ scratch[o] = "live"
  /\ join(o, failed)
  /\ UNCHANGED <<registryVars, scratch, recoveryVars, finisherVars, temp, hookVars, gone>>

(* Every child has settled: guardian.close begins, or, when the operation    *)
(* never had a guardian, the operation finishes.                             *)
Joined(o) ==
  /\ phase[o] = "joining"
  /\ children[o] = {}
  /\ IF scratch[o] = "none"
     THEN finish(o)
     ELSE /\ phase' = [phase EXCEPT ![o] = "closing"]
          /\ UNCHANGED <<kind, owner, parent, children, open, sources, retry>>
  /\ UNCHANGED <<registryVars, fired, scratch, recoveryVars, finisherVars,
                 temp, hookVars, gone>>

GuardianCloses(o) ==
  /\ phase[o] = "closing"
  /\ scratch' = [scratch EXCEPT ![o] = "none"]
  /\ finish(o)
  /\ UNCHANGED <<registryVars, fired, recoveryVars, finisherVars, temp, hookVars, gone>>

GuardianCloseFails(o) ==
  /\ phase[o] = "closing"
  /\ pending(o)
  /\ UNCHANGED <<registryVars, fired, scratch, recoveryVars, finisherVars, temp, hookVars, gone>>

(* A shell is released or a run's worker exits; a shell whose signal could   *)
(* not be sent is pending and can still be detached.                         *)
PlainEnds(o) ==
  /\ kind[o] = "plain"
  /\ phase[o] \in {"running", "pending"}
  /\ finish(o)
  /\ UNCHANGED <<registryVars, fired, scratch, recoveryVars, finisherVars,
                 temp, hookVars, gone>>

PlainPending(o) ==
  /\ kind[o] = "plain"
  /\ phase[o] = "running"
  /\ pending(o)
  /\ UNCHANGED <<registryVars, fired, scratch, recoveryVars, finisherVars, temp, hookVars, gone>>

(* reserve_storage_recovery, called while session_start resumes the shells   *)
(* of the bound session: one entry per shell; past the limit the caller gets *)
(* an error and cleanup stays blocked.                                       *)
reserve_storage_recovery(p) ==
  /\ SessionStarts(PathOwner[p])
  /\ accepting[PathOwner[p]] = "open"
  /\ p \notin recovery
  /\ IF Cardinality(recovery) >= MaxRecoveries
     THEN overflow' = TRUE /\ UNCHANGED recovery
     ELSE recovery' = recovery \cup {p} /\ UNCHANGED overflow
  /\ UNCHANGED <<registryVars, opVars, finisherVars, temp, hookVars, gone>>

(* The shell is reattached: hold.finish *)
RecoveryFinishes(p) ==
  /\ p \in recovery
  /\ recovery' = recovery \ {p}
  /\ UNCHANGED <<registryVars, opVars, overflow, finisherVars, temp, hookVars, gone>>

-----------------------------------------------------------------------------
(* The session cleanup hook *)

freeze_storage_operations ==
  /\ closing' = TRUE
  /\ draining' = FALSE
  /\ accepting' = [w \in Owners |->
                    IF accepting[w] = "unknown" THEN "unknown" ELSE "retired"]

(* phase "prepare" of a quit, which drains when headless and else freezes,   *)
(* and of a deletion, which retires the session's owner.                     *)
Prepare(why, w, headless) ==
  /\ stage = "idle"
  /\ round < MaxRounds
  /\ w \notin gone
  /\ \/ /\ why = "quit"
        /\ headless
        /\ draining' = TRUE
        /\ UNCHANGED <<closing, accepting>>
     \/ /\ why = "quit"
        /\ ~headless
        /\ freeze_storage_operations
     \/ /\ why = "delete"
        /\ accepting' = [accepting EXCEPT ![w] = "retired"]
        /\ UNCHANGED <<closing, draining>>
  /\ stage' = "prepared"
  /\ reason' = why
  /\ target' = w
  /\ round' = round + 1
  /\ UNCHANGED <<opVars, recoveryVars, finisherVars, temp, scopes, todo, found,
                 late, legacy, gone>>

(* phase "prepare" when another session takes over: nothing follows it *)
SwitchAway(w) ==
  /\ stage = "idle"
  /\ w \notin gone
  /\ accepting' = [accepting EXCEPT ![w] = "retired"]
  /\ UNCHANGED <<closing, draining, opVars, recoveryVars, finisherVars, temp,
                 hookVars, gone>>

(* Mutant of HookScopes: a quit looks at the session the event names alone *)
HookScopesOfEvent == {target}

(* The scopes the hook reconciles: the deleted owner, or every known one *)
HookScopes ==
  IF reason = "delete" THEN {target}
  ELSE {target} \cup {w \in Owners : accepting[w] # "unknown"}
                \cup {PathOwner[p] : p \in recovery}

(* phase other than "prepare", when the session's handlers completed: freeze *)
(* for a quit, abort every selected entry and arm one finisher per entry and *)
(* per recovery.                                                             *)
FinishBegins ==
  LET selected == Entries(Scope)
      paths == {p \in recovery : PathOwner[p] \in Scope}
  IN  /\ stage = "prepared"
      /\ IF reason = "quit" THEN freeze_storage_operations
         ELSE UNCHANGED registryVars
      /\ fired' = fired \cup selected
      /\ armed' = armed \cup ({round} \X selected)
      /\ armedPaths' = armedPaths \cup ({round} \X paths)
      /\ stage' = "finishing"
      /\ UNCHANGED <<phase, kind, owner, parent, children, open, retry, sources,
                     scratch, recoveryVars, temp, reason, target, round, scopes,
                     todo, found, late, legacy, gone>>

(* What is still pending is listed, and the scopes are fixed *)
ListPending ==
  /\ stage' = "reconciling"
  /\ scopes' = HookScopes
  /\ todo' = HookScopes
  /\ found' = SomethingPending(Scope)
  /\ UNCHANGED <<registryVars, opVars, recoveryVars, finisherVars, temp, reason,
                 target, round, late, gone>>

(* The handlers did not complete: nothing is finished *)
FinishSkipped ==
  /\ stage = "prepared"
  /\ legacy' = FALSE
  /\ ListPending

(* A finisher whose entry has settled: it retries what is pending and        *)
(* finishes it, or finds nothing to retry.  Finishers outlive the hook that  *)
(* armed them when its deadline passes.                                      *)
FinisherSucceeds(r, o) ==
  /\ <<r, o>> \in armed
  /\ phase[o] \notin Unsettled
  /\ armed' = armed \ {<<r, o>>}
  /\ IF retry[o]
     THEN /\ finish(o)
          /\ scratch' = [scratch EXCEPT ![o] = "none"]
          /\ UNCHANGED fired
     ELSE UNCHANGED opVars
  /\ UNCHANGED <<registryVars, recoveryVars, armedPaths, temp, hookVars, gone>>

FinisherFails(r, o) ==
  /\ <<r, o>> \in armed
  /\ phase[o] \notin Unsettled
  /\ retry[o]
  /\ armed' = armed \ {<<r, o>>}
  /\ UNCHANGED <<registryVars, opVars, recoveryVars, armedPaths, temp, hookVars, gone>>

RecoveryRetried(r, p, ok) ==
  /\ <<r, p>> \in armedPaths
  /\ armedPaths' = armedPaths \ {<<r, p>>}
  /\ recovery' = IF ok THEN recovery \ {p} ELSE recovery
  /\ UNCHANGED <<registryVars, opVars, overflow, armed, temp, hookVars, gone>>

(* The host's deadline aborts the hook's signal *)
Deadline ==
  /\ stage \in {"finishing", "reconciling", "cleaning", "listing"}
  /\ ~late
  /\ late' = TRUE
  /\ UNCHANGED <<registryVars, opVars, recoveryVars, finisherVars, temp, stage,
                 reason, target, round, scopes, todo, found, legacy, gone>>

(* finish_storage_operations returns: all joined, or the deadline passed *)
FinishReturns ==
  /\ stage = "finishing"
  /\ late \/ \A a \in armed \cup armedPaths : a[1] # round
  /\ ListPending
  /\ UNCHANGED legacy

(* pending_guardian_records of one scope: records of this host that are not  *)
(* closed, and whatever other hosts or unreadable files add (elsewhere).     *)
Reconcile(w, elsewhere) ==
  /\ stage = "reconciling"
  /\ w \in todo
  /\ \/ /\ late
        /\ todo' = {}
        /\ found' = TRUE
     \/ /\ ~late
        /\ todo' = todo \ {w}
        /\ found' = (\/ found
                     \/ elsewhere
                     \/ \E o \in Ops : owner[o] = w /\ scratch[o] = "live")
  /\ UNCHANGED <<registryVars, opVars, recoveryVars, finisherVars, temp, stage,
                 reason, target, round, scopes, late, legacy, gone>>

(* can_cleanup *)
Reconciled ==
  /\ stage = "reconciling"
  /\ todo = {}
  /\ todo' = scopes
  /\ stage' = IF legacy /\ ~found /\ ~late THEN "cleaning" ELSE "listing"
  /\ UNCHANGED <<registryVars, opVars, recoveryVars, finisherVars, temp, reason,
                 target, round, scopes, found, late, legacy, gone>>

(* Mutant of CleanScope: a failed release is not reported *)
CleanScopeUnreported(w, released) ==
  /\ stage \in {"cleaning", "listing"}
  /\ w \in todo
  /\ temp' = IF stage = "cleaning" /\ released THEN temp \ {w} ELSE temp
  /\ todo' = todo \ {w}
  /\ UNCHANGED <<registryVars, opVars, recoveryVars, finisherVars, stage, reason,
                 target, round, scopes, found, late, legacy, gone>>

(* cleanup_temp_directories or pending_temp_directories of one scope *)
CleanScope(w, released) ==
  /\ stage \in {"cleaning", "listing"}
  /\ w \in todo
  /\ \/ /\ late
        /\ todo' = {}
        /\ found' = TRUE
        /\ UNCHANGED temp
     \/ /\ ~late
        /\ temp' = IF stage = "cleaning" /\ released THEN temp \ {w} ELSE temp
        /\ todo' = todo \ {w}
        /\ found' = (found \/ w \in temp')
  /\ UNCHANGED <<registryVars, opVars, recoveryVars, finisherVars, stage, reason,
                 target, round, scopes, late, legacy, gone>>

(* The hook returns its pending list.  The host deletes the session file, or *)
(* exits, only when its handlers completed and nothing is pending.           *)
HookReturns ==
  /\ stage \in {"cleaning", "listing"}
  /\ todo = {}
  /\ LET accepted == legacy /\ ~found
     IN  /\ gone' = IF accepted /\ reason = "delete" THEN gone \cup {target} ELSE gone
         /\ stage' = IF accepted /\ reason = "quit" THEN "exited" ELSE "idle"
  /\ reason' = "none"
  /\ target' = NoOwner
  /\ scopes' = {}
  /\ found' = FALSE
  /\ late' = FALSE
  /\ legacy' = TRUE
  /\ UNCHANGED <<registryVars, opVars, recoveryVars, finisherVars, temp, round, todo>>

-----------------------------------------------------------------------------
OpStep(o) ==
  \/ GuardianStarts(o) \/ GuardianFails(o)
  \/ \E failed \in BOOLEAN : WorkEnds(o, failed)
  \/ Joined(o) \/ GuardianCloses(o) \/ GuardianCloseFails(o)
  \/ PlainEnds(o) \/ PlainPending(o)

Admission ==
  \E w \in Owners :
    \/ bind_storage_owner(w)
    \/ create_temp_directory(w)
    \/ \E o \in Ops, p \in Ops \cup {NoOp} :
         \/ AdmitScratch(o, w, p)
         \/ \E admission \in {"internal", "external"} : AdmitPlain(o, w, p, admission)

Finisher ==
  \/ \E a \in armed : FinisherSucceeds(a[1], a[2]) \/ FinisherFails(a[1], a[2])
  \/ \E a \in armedPaths, ok \in BOOLEAN : RecoveryRetried(a[1], a[2], ok)

Hook ==
  \/ FinishReturns \/ Reconciled \/ HookReturns
  \/ \E w \in Owners, b \in BOOLEAN : Reconcile(w, b) \/ CleanScope(w, b)

Running == stage # "exited"

Next ==
  /\ Running
  /\ \/ Admission
     \/ \E o \in Ops : OpStep(o) \/ CallerAborts(o)
     \/ \E p \in Paths : reserve_storage_recovery(p) \/ RecoveryFinishes(p)
     \/ \E w \in Owners :
          \/ SwitchAway(w)
          \/ \E why \in {"quit", "delete"}, headless \in BOOLEAN : Prepare(why, w, headless)
     \/ FinishBegins \/ FinishSkipped
     \/ Finisher
     \/ Deadline
     \/ Hook

Spec == Init /\ [][Next]_vars

(* What the event loop owes: awaited calls resolve (guardian waits are timed *)
(* out), aborted work ends, finishers and the hook run on.  Nothing is owed  *)
(* by work that nobody aborted, and the host's deadline may never come.      *)
OpProgress(o) ==
  \/ GuardianStarts(o) \/ GuardianFails(o)
  \/ Aborted(o) /\ (PlainEnds(o) \/ PlainPending(o)
                      \/ \E failed \in BOOLEAN : WorkEnds(o, failed))
  \/ Joined(o) \/ GuardianCloses(o) \/ GuardianCloseFails(o)

FairSpec ==
  /\ Spec
  /\ \A o \in Ops : WF_vars(OpProgress(o))
  /\ WF_vars(Running /\ Finisher)
  /\ WF_vars(Hook)

-----------------------------------------------------------------------------
FlagsOK ==
  /\ closing \in BOOLEAN
  /\ draining \in BOOLEAN
  /\ overflow \in BOOLEAN
  /\ found \in BOOLEAN
  /\ late \in BOOLEAN
  /\ legacy \in BOOLEAN

EntriesOK ==
  /\ phase \in [Ops -> Phases]
  /\ kind \in [Ops -> {"scratch", "plain"}]
  /\ owner \in [Ops -> Owners \cup {NoOwner}]
  /\ \A o \in Ops : phase[o] \in Live <=> owner[o] # NoOwner
  /\ parent \in [Ops -> Ops \cup {NoOp}]
  /\ children \in [Ops -> SUBSET Ops]
  /\ open \in [Ops -> BOOLEAN]
  /\ retry \in [Ops -> BOOLEAN]
  /\ \A o \in Ops : retry[o] <=> phase[o] = "pending"
  /\ sources \in [Ops -> SUBSET Ops]
  /\ fired \in SUBSET Ops
  /\ scratch \in [Ops -> {"none", "starting", "live", "absent"}]

HookOK ==
  /\ accepting \in [Owners -> {"unknown", "open", "retired"}]
  /\ recovery \in SUBSET Paths
  /\ armed \in SUBSET (Nat \X Ops)
  /\ armedPaths \in SUBSET (Nat \X Paths)
  /\ temp \in SUBSET Owners
  /\ stage \in Stages
  /\ reason \in {"none", "quit", "delete"}
  /\ target \in Owners \cup {NoOwner}
  /\ stage \notin {"idle", "exited"} => target \in Owners /\ reason # "none"
  /\ round \in Nat
  /\ scopes \in SUBSET Owners
  /\ todo \in SUBSET Owners
  /\ gone \in SUBSET Owners

TypeOK == FlagsOK /\ EntriesOK /\ HookOK

(* A scratch directory outlives every operation that was given it: while an  *)
(* admitted child of a scratch operation has not settled, the guardian has   *)
(* not been told to close (scratch.ts joins before guardian.close, and       *)
(* reserve_owned_operation refuses children of an operation that joined).    *)
ScratchOutlivesChildren ==
  \A c \in Ops :
    phase[c] \in Unsettled /\ parent[c] # NoOp
      => phase[parent[c]] \in {"running", "joining"}

(* Temporary directories are released automatically only when the scope is   *)
(* quiet, and it stays quiet until the hook returns although the hook awaits *)
(* between its check of pending work and the last release.                   *)
CleaningIsQuiet ==
  stage = "cleaning" =>
    /\ Entries(Scope) = {}
    /\ \A p \in recovery : PathOwner[p] \notin Scope

(* A deleted session never has admitted work, a held recovery that was not   *)
(* seen, or a temporary directory again.                                     *)
DeletedStaysQuiet ==
  \A w \in gone : Entries({w}) = {} /\ w \notin temp

(* While finish_storage_operations waits, everything it waits for has been   *)
(* told to stop, operations admitted after it took its selection included.   *)
FinishAbortsEverything ==
  stage = "finishing" =>
    \A o \in Entries(Scope) : Aborted(o)

(* finish_storage_operations returns although its deadline never comes: a    *)
(* parent waits for its children, every child it waits for is aborted, and   *)
(* nothing waits for its parent.                                             *)
FinishEnds == stage = "finishing" ~> stage # "finishing"

(* A process that exits after a quit leaves nothing behind, of any session   *)
(* it had known: no admitted operation, no shell to recover, no guardian     *)
(* with its scratch directory and no temporary directory, although the hook  *)
(* awaits between the freeze, its listing and each release.                  *)
ExitLeavesNothing ==
  stage = "exited" =>
    /\ Entries(Owners) = {}
    /\ recovery = {}
    /\ temp = {}
    /\ \A o \in Ops : scratch[o] = "none"

=============================================================================
