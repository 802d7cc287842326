---------------------------- MODULE BackgroundShells ----------------------------
(***************************************************************************)
(* Background shells of a session and the notices of their completion      *)
(* (packages/harness/src/shell/: exec.ts, background-lifecycle.ts,         *)
(* persistence.ts, completion-delivery.ts, orphan.ts, shutdown.ts).  The   *)
(* commands run in the Ghostmux daemon and outlive the harness.  The       *)
(* harness follows them with a poll of their status files, keeps a record  *)
(* of each in the session file, and tells the agent once of each           *)
(* completion: by the tool's result, by a message queued in the agent, or, *)
(* after a restart, by a message before the next prompt.  A record is      *)
(* acknowledged when the session file holds the message.                   *)
(*                                                                         *)
(* One session.  To leave it for another one is, for its shells, to quit.  *)
(***************************************************************************)
EXTENDS Naturals, FiniteSets

CONSTANTS
  Shells,
  MaxCrashes,  \* bound on deaths of the harness
  MaxLeaves,   \* bound on quits and switches away
  MaxReloads   \* bound on reloads of the extensions

Statuses == {"none", "running", "ended", "detached", "shutdown", "lost"}
Records == [status : Statuses, acked : BOOLEAN, suppressed : BOOLEAN]
NoRecord == [status |-> "none", acked |-> FALSE, suppressed |-> FALSE]

VARIABLES
  process,     \* what the daemon knows: "none", "running", "exited", "gone" (no status);
               \* "launched" while runShell has yet to record what it launched
  phase,       \* session_start: "off", "surfacing", "resuming", "ready", "reloading"
  via,         \* the last session_start was a "start" or a "reload"
  todo,        \* records the loop under way has still to look at
  file,        \* records in the session file
  cache,       \* records in memory
  unwritten,   \* state.pending: records whose write waits for the end of a reload
  fore,        \* shells that runShell waits for
  bg,          \* tracked background shells
  silenced,    \* entries with signaled set
  steer,       \* notices queued in the agent
  before,      \* notices queued for the next prompt of the user
  told,        \* notices in the session file
  interrupted, \* shells whose interruption is told in the session file
  returned,    \* shells whose end a tool's result told
  budget       \* crashes, leaves and reloads so far

recordVars == <<file, cache, unwritten>>
entryVars == <<fore, bg, silenced>>
noticeVars == <<steer, before, told, interrupted, returned>>
startVars == <<phase, via, todo>>
vars == <<process, startVars, recordVars, entryVars, noticeVars, budget>>

Nothing == [s \in Shells |-> 0]

Init ==
  /\ process = [s \in Shells |-> "none"]
  /\ phase = "off" /\ via = "start" /\ todo = {}
  /\ file = [s \in Shells |-> NoRecord]
  /\ cache = file
  /\ unwritten = {}
  /\ fore = {} /\ bg = {} /\ silenced = {}
  /\ steer = Nothing /\ before = Nothing /\ told = Nothing
  /\ interrupted = {} /\ returned = {}
  /\ budget = [crashes |-> 0, leaves |-> 0, reloads |-> 0]

Running(records) == {s \in Shells : records[s].status = "running"}

(* What the loop over running records has still to wait for: it passes the tracked ones
   without a pause *)
Waiting(records, tracked) == IF records \subseteq tracked THEN {} ELSE records

Spend(what, limit) ==
  /\ budget[what] < limit
  /\ budget' = [budget EXCEPT ![what] = @ + 1]

-----------------------------------------------------------------------------
(* Records *)

(* Mutant of Write: nothing is kept for after the reload *)
WriteNow(s, record) ==
  /\ cache' = [cache EXCEPT ![s] = record]
  /\ file' = IF phase = "reloading" THEN file ELSE [file EXCEPT ![s] = record]
  /\ UNCHANGED unwritten

(* writeShellRecord *)
Write(s, record) ==
  /\ cache' = [cache EXCEPT ![s] = record]
  /\ IF phase = "reloading"
     THEN unwritten' = unwritten \cup {s} /\ UNCHANGED file
     ELSE unwritten' = unwritten \ {s} /\ file' = [file EXCEPT ![s] = record]

(* recordShellEnd *)
RecordEnd(s, status, ack) ==
  IF cache[s].status = "running"
  THEN Write(s, [cache[s] EXCEPT !.status = status, !.acked = @ \/ ack])
  ELSE UNCHANGED recordVars

(* acknowledgeShellNotifications and surfaceSessionShutdowns, for one record *)
Acknowledged(s, record) ==
  [record EXCEPT !.acked = @ \/ (record.status \notin {"none", "running"} /\ told[s] > 0)
                             \/ record.status = "shutdown"]

-----------------------------------------------------------------------------
(* The daemon *)

ProcessExits(s) ==
  /\ process[s] = "running"
  /\ process' = [process EXCEPT ![s] = "exited"]
  /\ UNCHANGED <<startVars, recordVars, entryVars, noticeVars, budget>>

(* The daemon dies and leaves no exit status *)
DaemonDies(s) ==
  /\ process[s] = "running"
  /\ process' = [process EXCEPT ![s] = "gone"]
  /\ UNCHANGED <<startVars, recordVars, entryVars, noticeVars, budget>>

-----------------------------------------------------------------------------
(* The sh tool and the tools for background shells *)

(* runShell: launchMonitor *)
Launch(s) ==
  /\ phase = "ready" /\ process[s] = "none"
  /\ process' = [process EXCEPT ![s] = "launched"]
  /\ UNCHANGED <<startVars, recordVars, entryVars, noticeVars, budget>>

(* The daemon has answered: recordShellStart.  A command that ended meanwhile is seen to end
   after it *)
RecordStart(s) ==
  /\ phase = "ready" /\ process[s] = "launched"
  /\ process' = [process EXCEPT ![s] = "running"]
  /\ Write(s, [status |-> "running", acked |-> FALSE, suppressed |-> FALSE])
  /\ fore' = fore \cup {s}
  /\ UNCHANGED <<startVars, bg, silenced, noticeVars, budget>>

(* It has not, or names another process: the shell is reaped, and the tool fails *)
StartFails(s) ==
  /\ process[s] = "launched"
  /\ process' = [process EXCEPT ![s] = "gone"]
  /\ UNCHANGED <<startVars, recordVars, entryVars, noticeVars, budget>>

(* No sh tool is at work *)
NoTool == fore = {} /\ \A s \in Shells : process[s] # "launched"

(* waitfor is over *)
Background(s) ==
  /\ s \in fore
  /\ fore' = fore \ {s}
  /\ bg' = bg \cup {s}
  /\ UNCHANGED <<process, startVars, recordVars, silenced, noticeVars, budget>>

(* sh_signal with SIGKILL: signalChild, silenceChild *)
Kill(s) ==
  /\ phase = "ready" /\ s \in bg
  /\ silenced' = silenced \cup {s}
  /\ Write(s, [cache[s] EXCEPT !.suppressed = TRUE])
  /\ UNCHANGED <<process, startVars, fore, bg, noticeVars, budget>>

(* sh_detach: detachBackground *)
Detach(s) ==
  /\ phase = "ready" /\ s \in bg
  /\ bg' = bg \ {s} /\ silenced' = silenced \ {s}
  /\ RecordEnd(s, "detached", TRUE)
  /\ UNCHANGED <<process, startVars, fore, noticeVars, budget>>

-----------------------------------------------------------------------------
(* The poll of a shell that is followed *)

(* The completion hook of an extension that is being reloaded may belong to an instance
   whose calls fail *)
Notify(s) ==
  \/ steer' = [steer EXCEPT ![s] = @ + 1]
  \/ phase = "reloading" /\ UNCHANGED steer

(* Mutant of Finished: the tool's result does not count *)
FinishedUnread(s, status) ==
  /\ RecordEnd(s, status, s \in silenced)
  /\ IF s \in bg /\ s \notin silenced THEN Notify(s) ELSE UNCHANGED steer
  /\ returned' = IF s \in fore THEN returned \cup {s} ELSE returned
  /\ fore' = fore \ {s} /\ bg' = bg \ {s} /\ silenced' = silenced \ {s}

(* completeBackground and stopBackground *)
Finished(s, status) ==
  /\ RecordEnd(s, status, s \in silenced \/ s \in fore)
  /\ IF s \in bg /\ s \notin silenced THEN Notify(s) ELSE UNCHANGED steer
  /\ returned' = IF s \in fore THEN returned \cup {s} ELSE returned
  /\ fore' = fore \ {s} /\ bg' = bg \ {s} /\ silenced' = silenced \ {s}

(* The poll finds an exit status *)
ExitEvent(s) ==
  /\ s \in fore \cup bg /\ process[s] = "exited"
  /\ Finished(s, "ended")
  /\ UNCHANGED <<process, startVars, before, told, interrupted, budget>>

(* The poll fails: the daemon is gone, or has not answered *)
CloseEvent(s) ==
  /\ s \in fore \cup bg /\ process[s] # "exited"
  /\ Finished(s, "lost")
  /\ UNCHANGED <<process, startVars, before, told, interrupted, budget>>

-----------------------------------------------------------------------------
(* Notices reach the session file *)

(* The agent reads a queued notice *)
Deliver(s) ==
  /\ phase = "ready" /\ steer[s] > 0
  /\ steer' = [steer EXCEPT ![s] = @ - 1]
  /\ told' = [told EXCEPT ![s] = @ + 1]
  /\ UNCHANGED <<process, startVars, recordVars, entryVars, before, interrupted, returned, budget>>

(* drainBeforeUser: those that the session file already tells are dropped *)
Prompt ==
  /\ phase = "ready" /\ before # Nothing
  /\ told' = [s \in Shells |-> IF told[s] > 0 THEN told[s] ELSE before[s]]
  /\ before' = Nothing
  /\ UNCHANGED <<process, startVars, recordVars, entryVars, steer, interrupted, returned, budget>>

(* turn_end and agent_settled: acknowledgeShellNotifications *)
Acknowledge ==
  LET due == {s \in Shells : /\ cache[s].status \notin {"none", "running"}
                             /\ ~cache[s].acked /\ told[s] > 0}
  IN /\ phase = "ready" /\ due # {}
     /\ cache' = [s \in Shells |-> [cache[s] EXCEPT !.acked = @ \/ s \in due]]
     /\ file' = [s \in Shells |-> IF s \in due THEN cache'[s] ELSE file[s]]
     /\ UNCHANGED <<process, startVars, unwritten, entryVars, noticeVars, budget>>

-----------------------------------------------------------------------------
(* session_start *)

(* bindShellPersistence, acknowledgeShellNotifications, surface_shell_shutdowns.  A reload
   goes on without surfaceCompletedShells *)
Start ==
  /\ phase \in {"off", "reloading"}
  /\ via' = IF phase = "off" THEN "start" ELSE "reload"
  /\ cache' = [s \in Shells |->
                 Acknowledged(s, IF s \in unwritten \/ file[s] = NoRecord THEN cache[s] ELSE file[s])]
  /\ file' = cache'
  /\ unwritten' = {}
  /\ interrupted' = interrupted \cup {s \in Shells : cache'[s].status = "shutdown"}
  /\ phase' = IF phase = "off" THEN "surfacing" ELSE "resuming"
  /\ todo' = IF phase = "off" THEN Running(cache') ELSE Waiting(Running(cache'), bg)
  /\ UNCHANGED <<process, entryVars, steer, before, told, returned, budget>>

(* Mutant of Surface: whether the notice is suppressed is not looked at *)
SurfaceLoudly(s) ==
  /\ phase = "surfacing" /\ s \in todo
  /\ todo' = todo \ {s}
  /\ \/ process[s] = "exited" /\ Write(s, [cache[s] EXCEPT !.status = "ended"])
     \/ UNCHANGED recordVars
  /\ UNCHANGED <<process, phase, via, entryVars, noticeVars, budget>>

(* surfaceCompletedShells: a shell that ended is recorded, unless its files cannot be read *)
Surface(s) ==
  /\ phase = "surfacing" /\ s \in todo
  /\ todo' = todo \ {s}
  /\ \/ /\ process[s] = "exited"
        /\ Write(s, [cache[s] EXCEPT !.status = "ended", !.acked = cache[s].suppressed])
     \/ UNCHANGED recordVars
  /\ UNCHANGED <<process, phase, via, entryVars, noticeVars, budget>>

Unread == {s \in Shells : cache[s].status = "ended" /\ ~cache[s].acked}

(* pendingCompletedRecords and queueMessage, which keeps one of a kind.  The next loop
   begins *)
SurfaceEnds ==
  /\ phase = "surfacing" /\ todo = {}
  /\ before' = [s \in Shells |-> IF s \in Unread /\ told[s] = 0 THEN 1 ELSE before[s]]
  /\ cache' = [s \in Shells |-> [cache[s] EXCEPT !.acked = @ \/ (s \in Unread /\ told[s] > 0)]]
  /\ file' = [s \in Shells |-> IF s \in Unread THEN cache'[s] ELSE file[s]]
  /\ phase' = "resuming"
  /\ todo' = Running(cache)
  /\ UNCHANGED <<process, via, unwritten, entryVars, steer, told, interrupted, returned, budget>>

(* resumeBackgroundShells: a shell that is not tracked is followed again, unless its
   daemon does not know it or its files cannot be read.  The records are those that were
   running when the loop began *)
Resume(s) ==
  /\ phase = "resuming" /\ s \in todo
  /\ \/ /\ s \notin bg /\ process[s] # "gone"
        /\ bg' = bg \cup {s}
        /\ silenced' = IF cache[s].suppressed THEN silenced \cup {s} ELSE silenced
     \/ UNCHANGED <<bg, silenced>>
  /\ todo' = Waiting(todo \ {s}, bg')
  /\ UNCHANGED <<process, phase, via, recordVars, fore, noticeVars, budget>>

ResumeEnds ==
  /\ phase = "resuming" /\ todo = {}
  /\ phase' = "ready"
  /\ UNCHANGED <<process, via, todo, recordVars, entryVars, noticeVars, budget>>

-----------------------------------------------------------------------------
(* session_shutdown, and death *)

(* suspendShellWrites *)
Reload ==
  /\ phase = "ready" /\ NoTool
  /\ Spend("reloads", MaxReloads)
  /\ phase' = "reloading"
  /\ UNCHANGED <<process, via, todo, recordVars, entryVars, noticeVars>>

(* killAll.  The agent's queue is lost; the memory of the process may live on *)
Leave ==
  /\ phase = "ready" /\ NoTool
  /\ Spend("leaves", MaxLeaves)
  /\ phase' = "off"
  /\ file' = [s \in Shells |-> IF s \in bg /\ cache[s].status = "running"
                               THEN [cache[s] EXCEPT !.status = "shutdown"] ELSE file[s]]
  /\ \/ cache' = file' /\ UNCHANGED before
     \/ cache' = [s \in Shells |-> NoRecord] /\ before' = Nothing
  /\ bg' = {} /\ silenced' = {}
  /\ steer' = Nothing
  /\ UNCHANGED <<process, via, todo, unwritten, fore, told, interrupted, returned>>

(* What was launched and not recorded runs on, and nobody knows of it *)
Crash ==
  /\ phase # "off"
  /\ Spend("crashes", MaxCrashes)
  /\ phase' = "off" /\ todo' = {}
  /\ cache' = [s \in Shells |-> NoRecord] /\ unwritten' = {}
  /\ fore' = {} /\ bg' = {} /\ silenced' = {}
  /\ steer' = Nothing /\ before' = Nothing
  /\ process' = [s \in Shells |-> IF process[s] = "launched" THEN "running" ELSE process[s]]
  /\ UNCHANGED <<via, file, told, interrupted, returned>>

-----------------------------------------------------------------------------
Next ==
  \/ Start \/ SurfaceEnds \/ ResumeEnds \/ Reload \/ Leave \/ Crash
  \/ Prompt \/ Acknowledge
  \/ \E s \in Shells :
       \/ ProcessExits(s) \/ DaemonDies(s)
       \/ Launch(s) \/ RecordStart(s) \/ StartFails(s)
       \/ Background(s) \/ Kill(s) \/ Detach(s)
       \/ ExitEvent(s) \/ CloseEvent(s) \/ Deliver(s)
       \/ Surface(s) \/ Resume(s)

Spec == Init /\ [][Next]_vars

-----------------------------------------------------------------------------
(* Properties *)

(* Types; a write waits only for the end of a reload, and what is not waiting is in the
   session file *)
TypeOK ==
  /\ process \in [Shells -> {"none", "launched", "running", "exited", "gone"}]
  /\ phase \in {"off", "surfacing", "resuming", "ready", "reloading"}
  /\ via \in {"start", "reload"}
  /\ todo \subseteq Shells
  /\ file \in [Shells -> Records] /\ cache \in [Shells -> Records]
  /\ phase # "off" => \A s \in Shells \ unwritten : cache[s] = file[s]
  /\ unwritten # {} => phase = "reloading"
  /\ fore \cap bg = {} /\ fore \subseteq Shells /\ silenced \subseteq bg
  /\ steer \in [Shells -> Nat] /\ before \in [Shells -> 0 .. 1] /\ told \in [Shells -> Nat]
  /\ interrupted \subseteq Shells /\ returned \subseteq Shells

(* A record is acknowledged only for a reason: the session file tells of the shell, a
   tool's result did, or nobody wants to know *)
AcknowledgedIsTold ==
  \A s \in Shells : file[s].acked =>
    \/ told[s] > 0 \/ s \in interrupted \cup returned
    \/ file[s].suppressed \/ file[s].status = "detached"

(* Of each completion the agent is, or will be, told: after a start the notice of a shell
   that ended without it is in the session file or on its way there *)
NothingForgotten ==
  phase = "ready" /\ via = "start" =>
    \A s \in Unread : told[s] + steer[s] + before[s] > 0

(* "completion wakes the agent with a notification" (docs/background-work.md), also of a
   completion during a reload, which keeps the tracked shells *)
CompletionWakes ==
  phase = "ready" => \A s \in Unread : told[s] + steer[s] + before[s] > 0

(* The agent is told of a completion once, by a tool's result or by one notice, whatever
   crashes, quits and switches come between.  Not after a reload: its loop may follow again
   a tracked shell that finished while the loop waited for another record *)
ToldOnce ==
  budget.reloads = 0 => \A s \in Shells : told[s] + (IF s \in returned THEN 1 ELSE 0) <= 1

(* SIGKILL suppresses the notice, also when the harness comes back from a crash, a quit or
   a switch *)
SuppressedIsQuiet ==
  [][\A s \in Shells : budget.reloads = 0 /\ cache[s].suppressed =>
       steer'[s] <= steer[s] /\ before'[s] <= before[s]]_vars

(* A detached shell is left alone: neither followed again nor told of *)
DetachedIsLeftAlone ==
  \A s \in Shells : file[s].status = "detached" =>
    s \notin bg /\ told[s] + steer[s] + before[s] = 0

(* The agent is told of each completion, once, and of none that was acknowledged or belongs
   to a detached shell *)
ToldExactly == AcknowledgedIsTold /\ NothingForgotten /\ ToldOnce /\ DetachedIsLeftAlone

=============================================================================
