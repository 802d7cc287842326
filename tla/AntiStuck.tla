------------------------------- MODULE AntiStuck -------------------------------
(***************************************************************************)
(* The anti-stuck check (packages/harness/src/lib/anti-stuck.ts and its    *)
(* callers in core.ts).  While the agent waits for background work, a      *)
(* timer asks a probe, a forked agent, whether to go on waiting.  Timer,   *)
(* probe and the beginning of the wait are state of the process; the       *)
(* timer's callback keeps the context of the session that armed it, also   *)
(* across the await of the probe's answer.                                 *)
(***************************************************************************)
EXTENDS Integers, FiniteSets

CONSTANTS
  MaxSession,  \* bound on sessions of the process, one after the other
  MaxProbes    \* bound on probes

VARIABLES
  session,     \* the current session
  phase,       \* its agent: "busy", "waiting" for background work, or "idle"
  waiting,     \* waitSinceMs is set
  timer,       \* the session whose context the armed timer has, 0 without a timer
  controller,  \* the probe of probeController, 0 for null
  probes,      \* probes whose tick awaits their answer: [id, of, aborted]
  made,        \* probes made so far
  resumed      \* the session that the last step resumed, 0 if it resumed none

vars == <<session, phase, waiting, timer, controller, probes, made, resumed>>

Sessions == 1 .. MaxSession
Probes == [id : 1 .. MaxProbes, of : Sessions, aborted : BOOLEAN]

Init ==
  /\ session = 1
  /\ phase = "idle"
  /\ waiting = FALSE
  /\ timer = 0
  /\ controller = 0
  /\ probes = {}
  /\ made = 0
  /\ resumed = 0

(* cancelProbe: its answer, when it comes, will not count *)
Cancelled == {IF p.id = controller THEN [p EXCEPT !.aborted = TRUE] ELSE p : p \in probes}

(* Mutant of Reset: the probe goes on *)
ResetTimerOnly ==
  /\ waiting' = FALSE
  /\ timer' = 0
  /\ controller' = 0
  /\ probes' = probes

(* resetAntiStuck and disarmAntiStuckTimer *)
Reset ==
  /\ waiting' = FALSE
  /\ timer' = 0
  /\ controller' = 0
  /\ probes' = Cancelled

-----------------------------------------------------------------------------
(* core.ts *)

AgentStart ==
  /\ phase # "busy"
  /\ phase' = "busy"
  /\ Reset
  /\ resumed' = 0
  /\ UNCHANGED <<session, made>>

(* agent_end with something pending, not an alarm and not a passive source: the wait
   begins and the timer is armed *)
AgentEndWaits ==
  /\ phase = "busy"
  /\ phase' = "waiting"
  /\ waiting' = TRUE
  /\ timer' = session
  /\ resumed' = 0
  /\ UNCHANGED <<session, controller, probes, made>>

AgentEnd ==
  /\ phase = "busy"
  /\ phase' = "idle"
  /\ resumed' = 0
  /\ UNCHANGED <<session, waiting, timer, controller, probes, made>>

(* A headless hold ends, or the run was aborted *)
WaitEnds ==
  /\ phase = "waiting"
  /\ phase' = "idle"
  /\ Reset
  /\ resumed' = 0
  /\ UNCHANGED <<session, made>>

(* session_start, after a switch *)
SessionStart ==
  /\ session < MaxSession
  /\ session' = session + 1
  /\ phase' = "idle"
  /\ Reset
  /\ resumed' = 0
  /\ UNCHANGED made

-----------------------------------------------------------------------------
(* tickAntiStuck *)

(* A context of a session that is over cannot be used: the tick dies *)
TickOfPast ==
  /\ timer \in Sessions \ {session}
  /\ timer' = 0
  /\ resumed' = 0
  /\ UNCHANGED <<session, phase, waiting, controller, probes, made>>

(* Nothing is waited for, or only passive sources are left *)
TickIdle ==
  /\ timer = session
  /\ resumed' = 0
  /\ \/ ~waiting /\ timer' = 0 /\ UNCHANGED <<waiting, controller, probes>>
     \/ waiting /\ Reset
  /\ UNCHANGED <<session, phase, made>>

(* Too early, an alarm is armed, or a probe is under way: the timer is armed again *)
TickAgain ==
  /\ timer = session /\ waiting
  /\ resumed' = 0
  /\ UNCHANGED <<session, phase, waiting, timer, controller, probes, made>>

(* A goal is active: goalStuckResume *)
TickGoal ==
  /\ timer = session /\ waiting
  /\ Reset
  /\ resumed' = timer
  /\ UNCHANGED <<session, phase, made>>

TickProbe ==
  /\ timer = session /\ waiting /\ controller = 0
  /\ made < MaxProbes
  /\ made' = made + 1
  /\ controller' = made'
  /\ probes' = probes \cup {[id |-> made', of |-> timer, aborted |-> FALSE]}
  /\ timer' = 0
  /\ resumed' = 0
  /\ UNCHANGED <<session, phase, waiting>>

(* The end of a probe clears its own controller, not a later one's *)
Without(p) ==
  /\ probes' = probes \ {p}
  /\ controller' = IF controller = p.id THEN 0 ELSE controller

(* The probe says to go on waiting, failed or was cancelled: the tick arms the timer
   again if anything is waited for by now *)
ProbeWaits(p) ==
  /\ p \in probes
  /\ Without(p)
  /\ timer' = IF waiting THEN p.of ELSE timer
  /\ resumed' = 0
  /\ UNCHANGED <<session, phase, waiting, made>>

(* The probe says ABORT in time: a reminder resumes the agent *)
ProbeResumes(p) ==
  /\ p \in probes /\ ~p.aborted
  /\ waiting' = FALSE
  /\ UNCHANGED timer
  /\ Without(p)
  /\ resumed' = p.of
  /\ UNCHANGED <<session, phase, made>>

-----------------------------------------------------------------------------
Next ==
  \/ AgentStart \/ AgentEndWaits \/ AgentEnd \/ WaitEnds \/ SessionStart
  \/ TickOfPast \/ TickIdle \/ TickAgain \/ TickGoal \/ TickProbe
  \/ \E p \in probes : ProbeWaits(p) \/ ProbeResumes(p)

Spec == Init /\ [][Next]_vars

(* Types, and the controller is that of the one probe whose answer still counts *)
TypeOK ==
  /\ session \in Sessions
  /\ phase \in {"busy", "waiting", "idle"}
  /\ waiting \in BOOLEAN
  /\ timer \in 0 .. MaxSession
  /\ {p.id : p \in {q \in probes : ~q.aborted}} = {controller} \ {0}
  /\ probes \subseteq Probes
  /\ made \in 0 .. MaxProbes
  /\ resumed \in 0 .. MaxSession

(* A stale answer never wakes the session that is active by now: the agent is resumed
   only from the wait that the answer is about *)
NoStaleAnswer == resumed # 0 => resumed = session /\ phase = "waiting"

(* A wait that has a clock is being checked: a timer is armed or a probe will answer.
   It is stated of the first session of the process only: after a switch during a probe
   the tick of the earlier session may take over the timer and die with it *)
CheckGoesOn ==
  waiting /\ session = 1 => timer # 0 \/ \E p \in probes : ~p.aborted

=============================================================================
