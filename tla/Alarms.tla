---------------------------------- MODULE Alarms ----------------------------------
(***************************************************************************)
(* The alarm tool (packages/harness/src/alarm.ts): one-shot alarms kept in *)
(* memory, in timers, and as entries of the session's tree.  Each change   *)
(* appends an entry with all alarms; a start, a reload and a move in the   *)
(* tree take the alarms from the newest entry of the branch and arm them   *)
(* again.                                                                  *)
(*                                                                         *)
(* An entry that this process wrote or read holds the alarm objects        *)
(* themselves: an alarm that fires is marked in older entries too, until   *)
(* the process restarts and reads what was saved.  The n-th alarm that was *)
(* set is serial n; its object is <<n, 0>> in the process that set it, and *)
(* <<n, e>> as read from entry e.                                          *)
(***************************************************************************)
EXTENDS Naturals, Sequences

CONSTANTS
  Ids,          \* names of alarms
  MaxTime,      \* bound on the clock
  MaxSets,      \* bound on alarms set
  MaxCancels,   \* bound on cancellations
  MaxMoves,     \* bound on moves in the tree
  MaxStarts,    \* bound on starts and reloads after the first
  MaxAlarm,     \* MAX_ALARM_SECONDS
  TimerLimit    \* the longest delay of a timer; a longer one counts as the shortest

VARIABLES
  now,
  phase,     \* "off", "arming" (rescheduleFromState), "on"
  made,      \* the alarms set so far: [id, target]
  alarms,    \* objects in memory
  fired,     \* objects that are marked as fired
  timers,    \* armed timers: [object, due]
  toArm,     \* objects the loop of rescheduleFromState has still to look at
  unsaved,   \* a cancellation persists when the loop ends
  entries,   \* alarm-state entries: [parent, refs, saved]
  leaf,      \* the newest entry of the branch, 0 before the first
  fires,     \* notifications: [serial, entry, at]
  budget     \* what has been done of the bounded operations

loopVars == <<phase, toArm, unsaved>>
sessionVars == <<entries, leaf>>
vars == <<now, loopVars, made, alarms, fired, timers, sessionVars, fires, budget>>

Init ==
  /\ now = 0 /\ phase = "on"
  /\ made = <<>> /\ alarms = {} /\ fired = {} /\ timers = {}
  /\ toArm = {} /\ unsaved = FALSE
  /\ entries = <<>> /\ leaf = 0
  /\ fires = {}
  /\ budget = [sets |-> 0, cancels |-> 0, moves |-> 0, starts |-> 0]

Spend(what, limit) ==
  /\ budget[what] < limit
  /\ budget' = [budget EXCEPT ![what] = @ + 1]

Serial(object) == object[1]
Alarm(object) == made[Serial(object)]
Named(objects, names) == {o \in objects : Alarm(o).id \in names}

(* reconstructAlarms, on the branch that ends in entry e *)
Refs(e) == IF e = 0 THEN {} ELSE entries[e].refs
Saved(e) == IF e = 0 THEN {} ELSE entries[e].saved

-----------------------------------------------------------------------------
(* persistAlarms of the alarms live, of which done are marked *)
Persist(live, done) ==
  /\ entries' = Append(entries, [parent |-> leaf, refs |-> live,
                                 saved |-> {[serial |-> Serial(o), fired |-> o \in done] : o \in live}])
  /\ leaf' = Len(entries')

(* setTimeout, of the delay that scheduleAlarm asks for *)
Due(target) ==
  LET delay == IF target - now > MaxAlarm THEN MaxAlarm ELSE target - now
  IN IF delay > TimerLimit THEN now ELSE now + delay

OtherTimers(id) == {t \in timers : Alarm(t.object).id # id}
Notified(o) == [serial |-> Serial(o), entry |-> Len(entries) + 1, at |-> now]

(* Mutant of FireAlarm: the alarms are persisted before this one is marked *)
FireAlarmUnmarked(o) ==
  /\ fired' = fired \cup {o}
  /\ timers' = OtherTimers(Alarm(o).id)
  /\ Persist(alarms, fired)
  /\ fires' = fires \cup {Notified(o)}

(* fireAlarm *)
FireAlarm(o) ==
  /\ fired' = fired \cup {o}
  /\ timers' = OtherTimers(Alarm(o).id)
  /\ Persist(alarms, fired')
  /\ fires' = fires \cup {Notified(o)}

-----------------------------------------------------------------------------
Tick ==
  /\ phase # "arming" /\ now < MaxTime
  /\ now' = now + 1
  /\ UNCHANGED <<loopVars, made, alarms, fired, timers, sessionVars, fires, budget>>

(* The tool sets an alarm; one of the same name is replaced *)
SetAlarm(id, target) ==
  LET o == <<Len(made) + 1, 0>>
  IN /\ phase = "on" /\ target > now
     /\ Spend("sets", MaxSets)
     /\ made' = Append(made, [id |-> id, target |-> target])
     /\ alarms' = (Refs(leaf) \ Named(Refs(leaf), {id})) \cup {o}
     /\ timers' = OtherTimers(id) \cup {[object |-> o, due |-> Due(target)]}
     /\ Persist(alarms', fired)
     /\ UNCHANGED <<now, loopVars, fired, fires>>

(* The tool cancels one alarm, or all *)
Cancel(names) ==
  /\ phase = "on" /\ Named(Refs(leaf), names) # {}
  /\ Spend("cancels", MaxCancels)
  /\ alarms' = Refs(leaf) \ Named(Refs(leaf), names)
  /\ timers' = {}
  /\ phase' = "arming" /\ toArm' = alarms' /\ unsaved' = TRUE
  /\ UNCHANGED <<now, made, fired, sessionVars, fires>>

(* The callback of a timer, at its time or later *)
TimerFires(t) ==
  /\ phase = "on" /\ t.due <= now
  /\ IF t.object \in fired
     THEN timers' = timers \ {t} /\ UNCHANGED <<fired, sessionVars, fires>>
     ELSE FireAlarm(t.object)
  /\ UNCHANGED <<now, loopVars, made, alarms, budget>>

-----------------------------------------------------------------------------
(* rescheduleFromState, which lets no time pass *)

(* scheduleAlarm *)
ArmOne(o) ==
  /\ phase = "arming"
  /\ toArm' = toArm \ {o}
  /\ IF o \notin fired /\ Alarm(o).target <= now
     THEN FireAlarm(o)
     ELSE /\ timers' = IF o \in fired THEN timers
                       ELSE OtherTimers(Alarm(o).id) \cup {[object |-> o, due |-> Due(Alarm(o).target)]}
          /\ UNCHANGED <<fired, sessionVars, fires>>
  /\ UNCHANGED <<now, phase, unsaved, made, alarms, budget>>

ArmEnds ==
  /\ phase = "arming" /\ toArm = {}
  /\ phase' = "on" /\ unsaved' = FALSE
  /\ IF unsaved THEN Persist(alarms, fired) ELSE UNCHANGED sessionVars
  /\ UNCHANGED <<now, toArm, made, alarms, fired, timers, fires, budget>>

(* session_tree: the user goes to another place of the tree *)
SessionTree(e) ==
  /\ phase = "on" /\ e # leaf
  /\ Spend("moves", MaxMoves)
  /\ leaf' = e
  /\ alarms' = Refs(e) /\ toArm' = Refs(e)
  /\ timers' = {}
  /\ phase' = "arming"
  /\ UNCHANGED <<now, unsaved, made, fired, entries, fires>>

-----------------------------------------------------------------------------
(* session_shutdown of a reload: onAbort of the hold source *)
Shutdown ==
  /\ phase = "on" /\ budget.starts < MaxStarts
  /\ phase' = "off"
  /\ alarms' = {} /\ timers' = {}
  /\ UNCHANGED <<now, toArm, unsaved, made, fired, sessionVars, fires, budget>>

(* The process ends and another reads the entries from the file *)
Restart ==
  /\ phase \in {"on", "off"} /\ budget.starts < MaxStarts
  /\ phase' = "off"
  /\ alarms' = {} /\ timers' = {}
  /\ entries' = [e \in DOMAIN entries |->
                   [entries[e] EXCEPT !.refs = {<<s.serial, e>> : s \in entries[e].saved}]]
  /\ fired' = UNION {{<<s.serial, e>> : s \in {t \in entries[e].saved : t.fired}} : e \in DOMAIN entries}
  /\ UNCHANGED <<now, toArm, unsaved, made, leaf, fires, budget>>

(* Mutant of SessionStart: the alarms are there, and not armed *)
SessionStartUnarmed ==
  /\ phase = "off"
  /\ Spend("starts", MaxStarts)
  /\ alarms' = Refs(leaf) /\ toArm' = {}
  /\ phase' = "arming"
  /\ UNCHANGED <<now, unsaved, made, fired, timers, sessionVars, fires>>

(* session_start *)
SessionStart ==
  /\ phase = "off"
  /\ Spend("starts", MaxStarts)
  /\ alarms' = Refs(leaf) /\ toArm' = Refs(leaf)
  /\ phase' = "arming"
  /\ UNCHANGED <<now, unsaved, made, fired, timers, sessionVars, fires>>

Next ==
  \/ Tick \/ ArmEnds \/ Shutdown \/ Restart \/ SessionStart
  \/ \E id \in Ids, target \in 1 .. MaxTime : SetAlarm(id, target)
  \/ \E names \in SUBSET Ids : Cancel(names)
  \/ \E t \in timers : TimerFires(t)
  \/ \E o \in toArm : ArmOne(o)
  \/ \E e \in 0 .. Len(entries) : SessionTree(e)

Spec == Init /\ [][Next]_vars

(* The clock, the process and the event loop go on *)
Fairness ==
  /\ WF_vars(Tick) /\ WF_vars(ArmEnds) /\ WF_vars(SessionStart)
  /\ WF_vars(\E o \in toArm : ArmOne(o))
  /\ \A id \in Ids : WF_vars(\E t \in timers : Alarm(t.object).id = id /\ TimerFires(t))

FairSpec == Spec /\ Fairness

-----------------------------------------------------------------------------
(* Properties *)

Unfired(e) == {s.serial : s \in {t \in Saved(e) : ~t.fired}}

(* The entries from the root to entry e *)
Branch[e \in 0 .. Len(entries)] == IF e = 0 THEN {} ELSE {e} \cup Branch[entries[e].parent]

(* Types; the clock stands while the alarms are armed; memory holds what the branch does,
   and one alarm of a name *)
TypeOK ==
  /\ now \in 0 .. MaxTime /\ phase \in {"off", "arming", "on"}
  /\ leaf \in 0 .. Len(entries)
  /\ toArm \subseteq alarms
  /\ toArm # {} \/ unsaved => phase = "arming"
  /\ phase = "on" => alarms = Refs(leaf)
  /\ \A o, p \in alarms : Alarm(o).id = Alarm(p).id => o = p

(* A notification is of an alarm that is pending at that place of the tree, not of one that
   was cancelled, replaced or set on another branch *)
FiresWhereArmed == \A n \in fires : n.serial \in Unfired(entries[n.entry].parent)

(* An alarm fires once on a branch, whatever moves and restarts come between *)
OncePerBranch ==
  \A n, m \in fires : n.serial = m.serial /\ n.entry \in Branch[m.entry] => n = m

(* A pending alarm has its timer, and a timer its pending alarm: the hold source waits for
   nothing that will not come, and what was cancelled or belongs to another branch is not
   waited for *)
ArmedHasTimer ==
  phase = "on" => {t.object : t \in timers} = alarms \ fired

(* An alarm does not fire before its time *)
NeverEarly == \A n \in fires : n.at >= made[n.serial].target

(* A pending alarm whose time comes fires, unless it is cancelled, replaced or left behind
   with its branch *)
AlarmFires ==
  \A id \in Ids :
    (\E o \in alarms \ fired : Alarm(o).id = id)
      ~> (\A o \in alarms : Alarm(o).id = id => o \in fired)

=============================================================================
