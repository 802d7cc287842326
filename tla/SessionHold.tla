------------------------------ MODULE SessionHold ------------------------------
(***************************************************************************)
(* How a headless session waits for its background work                    *)
(* (packages/harness/src/core.ts, lib/session-hold.ts,                     *)
(* lib/external-events.ts).  When the agent has nothing more to say, the   *)
(* handler of agent_end holds the run as long as a hold source has         *)
(* something pending: shells, alarms, and the event sources that producers *)
(* register.  A notification is a message queued in the agent; a hold that *)
(* does not end keeps it from being read.                                  *)
(*                                                                         *)
(* The agent itself is not in this repository: it runs turns, reads queued *)
(* messages while it is busy, looks at its queue for the last time shortly *)
(* before agent_end, and starts again if it finds messages after it.  The  *)
(* goal's probe, which is a source too, is in GoalLoop, and the timer of   *)
(* the anti-stuck check in AntiStuck.                                      *)
(***************************************************************************)
EXTENDS Integers, FiniteSets

CONSTANTS
  Shells,      \* background shells
  Alarms,      \* alarms
  Producers,   \* ids of external event sources
  MaxSources,  \* EVENT_SOURCE_LIMITS.sources, 32 in the code
  MaxQueued,   \* EVENT_SOURCE_LIMITS.queued, 64 in the code
  MaxMail      \* bound on queued messages of a kind

Kinds == {"shell", "alarm", "external", "reminder"}

VARIABLES
  phase,     \* the agent: "idle", "busy", "drained", "holding" or "ended"
  stopped,   \* the user aborted the run: ctx.signal.aborted
  mail,      \* messages queued in the agent, by kind
  running,   \* shells that run: shell's hasPending
  armed,     \* alarms that have not fired: alarm's hasPending
  sources,   \* external sources that are registered (live)
  pending,   \* producers that have something pending
  queued,    \* external notifications submitted and not yet started
  bound,     \* the abort listener of the external events is attached to the run
  watched,   \* external sources at the time of agent_end
  count,     \* pending sources when the hold began
  woken,     \* the promise of the hold is resolved
  news,      \* kinds of the messages that came during this hold
  missed     \* those of them that a poll has passed over

agentVars == <<phase, stopped, mail>>
workVars == <<running, armed, pending>>
eventVars == <<sources, queued, bound>>
holdVars == <<watched, count, woken, news, missed>>
vars == <<agentVars, workVars, eventVars, holdVars>>

Init ==
  /\ phase = "idle"
  /\ stopped = FALSE
  /\ mail = [k \in Kinds |-> 0]
  /\ running = {}
  /\ armed = {}
  /\ sources = {}
  /\ pending = {}
  /\ queued = 0
  /\ bound = FALSE
  /\ watched = {}
  /\ count = 0
  /\ woken = FALSE
  /\ news = {}
  /\ missed = {}

Active == phase \notin {"idle"}
HasMail == \E k \in Kinds : mail[k] > 0

(* Mutant of HasQueued: only messages of the user count *)
HasQueuedNever == FALSE

(* external_events.hasQueued *)
HasQueued == queued > 0

(* signalHoldEvent: the hold in progress, if there is one, is over *)
Signalled == IF phase = "holding" THEN woken' = TRUE ELSE UNCHANGED woken

(* Sources of a hold that have something pending: the shells, the alarms, and each
   external source among those given that is live *)
Pending(among) ==
  (IF running # {} THEN 1 ELSE 0) + (IF armed # {} THEN 1 ELSE 0)
  + Cardinality(among \cap sources \cap pending)

-----------------------------------------------------------------------------
(* The agent *)

(* agent_start, on a prompt or on a message that triggers a turn *)
AgentStart ==
  /\ phase \in {"idle", "ended"}
  /\ phase = "ended" => HasMail /\ ~stopped
  /\ phase' = "busy"
  /\ stopped' = FALSE
  /\ bound' = (sources # {})
  /\ UNCHANGED <<mail, workVars, sources, queued, holdVars>>

(* Mutant of ReadMessage: a message that was read still counts as queued *)
ReadMessageQuietly(k) ==
  /\ phase = "busy" /\ mail[k] > 0
  /\ mail' = [mail EXCEPT ![k] = @ - 1]
  /\ UNCHANGED <<phase, stopped, queued, workVars, sources, bound, holdVars>>

(* A queued message is read.  message_start tells the external events of theirs *)
ReadMessage(k) ==
  /\ phase = "busy" /\ mail[k] > 0
  /\ mail' = [mail EXCEPT ![k] = @ - 1]
  /\ queued' = IF k = "external" /\ queued > 0 THEN queued - 1 ELSE queued
  /\ UNCHANGED <<phase, stopped, workVars, sources, bound, holdVars>>

(* The last look at the queue before agent_end *)
Drained ==
  /\ phase = "busy" /\ ~HasMail
  /\ phase' = "drained"
  /\ UNCHANGED <<stopped, mail, workVars, eventVars, holdVars>>

(* The handler of agent_end and the beginning of awaitHoldInterval.  A run may have
   ended in an error, or a message of the user may wait, which is not in `mail` *)
AgentEnd ==
  /\ phase = "drained"
  /\ \/ /\ \/ stopped \/ HasQueued \/ Pending(sources) = 0
        /\ phase' = "ended"
        /\ UNCHANGED holdVars
     \/ /\ phase' = "ended"      \* error, or the user's message
        /\ UNCHANGED holdVars
     \/ /\ ~stopped /\ ~HasQueued /\ Pending(sources) > 0
        /\ phase' = "holding"
        /\ watched' = sources
        /\ count' = Pending(sources)
        /\ woken' = FALSE
        /\ news' = {}
        /\ missed' = {}
  /\ UNCHANGED <<stopped, mail, workVars, eventVars>>

(* Mutant of Tick: the interval's end counts no sources but waits on *)
TickOnward ==
  /\ phase = "holding" /\ ~woken
  /\ \/ /\ HasQueued \/ Pending(watched) < count
        /\ woken' = TRUE
        /\ UNCHANGED <<count, missed>>
     \/ /\ ~HasQueued
        /\ count' = Pending(watched)
        /\ missed' = news
        /\ UNCHANGED woken
  /\ UNCHANGED <<agentVars, workVars, eventVars, watched, news>>

(* tick, every 100 ms; when the interval is over the next one, twice as long, counts
   the pending sources again *)
Tick ==
  /\ phase = "holding" /\ ~woken
  /\ \/ /\ HasQueued \/ Pending(watched) < count \/ Pending(watched) = 0
        /\ woken' = TRUE
        /\ UNCHANGED <<count, missed>>
     \/ /\ ~HasQueued /\ Pending(watched) >= count /\ Pending(watched) > 0
        /\ missed' = news
        /\ UNCHANGED <<woken, count>>
     \/ /\ ~HasQueued     \* the interval's end comes before the count
        /\ count' = Pending(watched)
        /\ woken' = (Pending(watched) = 0)
        /\ missed' = news
  /\ UNCHANGED <<agentVars, workVars, eventVars, watched, news>>

HoldEnds ==
  /\ phase = "holding" /\ woken
  /\ phase' = "ended"
  /\ UNCHANGED <<stopped, mail, workVars, eventVars, holdVars>>

(* agent_settled.  An aborted run takes its sources and its queue along *)
Settle ==
  /\ phase = "ended" /\ (stopped \/ ~HasMail)
  /\ phase' = "idle"
  /\ stopped' = FALSE
  /\ bound' = FALSE
  /\ IF stopped
     THEN /\ mail' = [k \in Kinds |-> 0]
          /\ sources' = {} /\ pending' = {} /\ queued' = 0
     ELSE UNCHANGED <<mail, sources, pending, queued>>
  /\ UNCHANGED <<running, armed, holdVars>>

(* The user aborts the run: the listener disposes of the external sources, and a hold
   ends *)
Abort ==
  /\ Active /\ ~stopped
  /\ stopped' = TRUE
  /\ IF bound
     THEN sources' = {} /\ pending' = pending \ sources /\ queued' = 0
     ELSE UNCHANGED <<sources, pending, queued>>
  /\ bound' = FALSE
  /\ Signalled
  /\ UNCHANGED <<phase, mail, running, armed, watched, count, news, missed>>

-----------------------------------------------------------------------------
(* Work that goes on behind the agent.  Tools start it while the agent is busy *)

Send(k) ==
  /\ mail[k] < MaxMail
  /\ mail' = [mail EXCEPT ![k] = @ + 1]
  /\ news' = IF phase = "holding" THEN news \cup {k} ELSE news
  /\ UNCHANGED missed

Shell(s) ==
  /\ phase = "busy" /\ s \notin running
  /\ running' = running \cup {s}
  /\ UNCHANGED <<agentVars, armed, pending, eventVars, holdVars>>

(* The completion hook: signalHoldEvent() and a notification *)
ShellCompletes(s) ==
  /\ s \in running
  /\ running' = running \ {s}
  /\ Send("shell")
  /\ Signalled
  /\ UNCHANGED <<phase, stopped, armed, pending, eventVars, watched, count>>

SetAlarm(a) ==
  /\ phase = "busy" /\ a \notin armed
  /\ armed' = armed \cup {a}
  /\ UNCHANGED <<agentVars, running, pending, eventVars, holdVars>>

(* fireAlarm: a notification *)
AlarmFires(a) ==
  /\ a \in armed
  /\ armed' = armed \ {a}
  /\ Send("alarm")
  /\ UNCHANGED <<phase, stopped, running, pending, eventVars, watched, count, woken>>

(* The anti-stuck check resumes the agent: not while an alarm is armed, nor for
   external sources alone *)
Resume ==
  /\ phase = "holding" /\ running # {} /\ armed = {}
  /\ Send("reminder")
  /\ Signalled
  /\ UNCHANGED <<phase, stopped, workVars, eventVars, watched, count>>

-----------------------------------------------------------------------------
(* External event sources *)

(* register: refused in an aborted run *)
Register(p) ==
  /\ p \notin sources
  /\ ~(Active /\ stopped)
  /\ Cardinality(sources) < MaxSources
  /\ sources' = sources \cup {p}
  /\ pending' \in {pending \cup {p}, pending \ {p}}
  /\ bound' = Active
  /\ UNCHANGED <<agentVars, running, armed, queued, holdVars>>

(* dispose, by the producer or because its callbacks throw *)
Dispose(p) ==
  /\ p \in sources
  /\ sources' = sources \ {p}
  /\ pending' = pending \ {p}
  /\ bound' = (bound /\ sources' # {})
  /\ Signalled
  /\ UNCHANGED <<agentVars, running, armed, queued, watched, count, news, missed>>

(* notify *)
Notify(p) ==
  /\ p \in sources
  /\ ~(Active /\ stopped)
  /\ queued < MaxQueued
  /\ Send("external")
  /\ queued' = queued + 1
  /\ Signalled
  /\ UNCHANGED <<phase, stopped, workVars, sources, bound, watched, count>>

(* What the producer observes changes; it may or may not call changed() *)
Observe(p) ==
  /\ p \in sources
  /\ \/ /\ p \notin pending
        /\ pending' = pending \cup {p}
        /\ UNCHANGED woken
     \/ /\ p \in pending
        /\ pending' = pending \ {p}
        /\ Signalled \/ UNCHANGED woken
  /\ UNCHANGED <<agentVars, running, armed, eventVars, watched, count, news, missed>>

(* session_start: another session, or the same one reloaded *)
SessionStart ==
  /\ phase = "idle"
  /\ sources' = {} /\ pending' = {} /\ queued' = 0 /\ bound' = FALSE
  /\ mail' = [k \in Kinds |-> 0]
  /\ UNCHANGED <<phase, stopped, running, armed, holdVars>>

-----------------------------------------------------------------------------
Agent ==
  \/ (\E k \in Kinds : ReadMessage(k))
  \/ Drained \/ AgentEnd \/ Tick \/ HoldEnds \/ Settle

Next ==
  \/ AgentStart \/ Agent \/ Abort \/ SessionStart \/ Resume
  \/ \E s \in Shells : Shell(s) \/ ShellCompletes(s)
  \/ \E a \in Alarms : SetAlarm(a) \/ AlarmFires(a)
  \/ \E p \in Producers : Register(p) \/ Dispose(p) \/ Notify(p) \/ Observe(p)

(* The event loop runs the handlers and the poll; nothing is assumed of shells, alarms
   and producers *)
Spec == Init /\ [][Next]_vars /\ WF_vars(Tick) /\ WF_vars(HoldEnds)

-----------------------------------------------------------------------------
(* Properties *)

(* Types; and what hasQueued counts is in the agent's queue: a notification that was read
   leaves no wake behind for a later hold *)
TypeOK ==
  /\ phase \in {"idle", "busy", "drained", "holding", "ended"}
  /\ stopped \in BOOLEAN
  /\ mail \in [Kinds -> 0 .. MaxMail]
  /\ running \subseteq Shells
  /\ armed \subseteq Alarms
  /\ sources \subseteq Producers /\ Cardinality(sources) <= MaxSources
  /\ pending \subseteq sources
  /\ queued \in 0 .. MaxQueued /\ queued <= mail["external"]
  /\ bound \in BOOLEAN
  /\ watched \subseteq Producers
  /\ count \in Nat
  /\ woken \in BOOLEAN
  /\ news \subseteq Kinds /\ missed \subseteq Kinds

(* A notification of an external source is not stranded behind a hold, even if it came
   between the agent's last look at its queue and agent_end *)
ExternalNotStranded == phase = "holding" /\ ~woken => mail["external"] = 0

(* A run that was aborted has no external sources left, whichever of them were there
   when it started, registered since, or disposed of *)
AbortedHasNoSources == Active /\ stopped => sources = {}

(* Both *)
HoldSafe == ExternalNotStranded /\ AbortedHasNoSources

(* A hold with nothing left to wait for ends, even if no producer says so *)
IdleHoldEnds ==
  (phase = "holding" /\ Pending(watched) = 0) ~> (phase # "holding" \/ Pending(watched) > 0)

(* A hold ends on an event (docs/session-events.md): no poll passes over a message that
   came during the hold *)
HoldEndsOnEvent == phase = "holding" /\ ~woken => missed = {}

=============================================================================
