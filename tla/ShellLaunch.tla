----------------------------- MODULE ShellLaunch -----------------------------
(***************************************************************************)
(* One launch of a shell: the harness, the Ghostmux client it runs, and    *)
(* the daemon that starts the child.                                       *)
(*                                                                         *)
(* The launch may be aborted at any time, the client may be stopped with   *)
(* its request already sent, and the daemon may be busy, stop or be        *)
(* killed.  All three sides meet in the status file, which both the daemon *)
(* and a clean-up create exclusively: who comes first decides whether      *)
(* there is going to be a child.                                           *)
(***************************************************************************)

VARIABLES
  launch,     \* where launchMonitor is
  aborted,    \* its signal has fired
  pidKnown,   \* the response named the child
  client,     \* the run of the client: its answer, when it has one
  reap,       \* where reapLaunch is
  onAbort,    \* the abort listener started it
  reaped,     \* some reapLaunch has returned without an error
  file,       \* the status file
  daemon,     \* the daemon: what it is doing, or that it is not there
  request,    \* the request for the session
  kill,       \* the request to kill it
  listed,     \* the daemon has the session in its list
  child

harnessVars == <<launch, aborted, pidKnown, reap, onAbort, reaped>>
daemonVars == <<daemon, listed, child>>
vars == <<harnessVars, client, file, daemonVars, request, kill>>

TypeOK ==
  /\ launch \in {"new", "listening", "runs", "named", "reads", "cleans",
                 "ready", "rejected", "pending"}
  /\ client \in {"none", "sends", "waits", "ok", "error", "stopped"}
  /\ reap \in {"none", "mark", "sends", "waits", "confirm", "done", "failed"}
  /\ \A flag \in {aborted, pidKnown, onAbort, reaped, listed} : flag \in BOOLEAN
  /\ file \in {"none", "reserved", "live", "final", "cancelled"}
  /\ daemon \in {"down", "idle", "reserved", "spawned"}
  /\ request \in {"none", "queued"}
  /\ kill \in {"none", "queued", "killed", "unknown"}
  /\ child \in {"none", "alive", "ended"}
  /\ listed => file \in {"live", "final"}

Init ==
  /\ launch = "new" /\ aborted = FALSE /\ pidKnown = FALSE /\ client = "none"
  /\ reap = "none" /\ onAbort = FALSE /\ reaped = FALSE
  /\ file = "none" /\ daemon \in {"down", "idle"}
  /\ request = "none" /\ kill = "none" /\ listed = FALSE /\ child = "none"

-----------------------------------------------------------------------------
(* launchMonitor *)

Goes(place) == launch' = place

\* The error path: the clean-up the abort started is awaited, or one begins.
Cleans ==
  /\ Goes("cleans")
  /\ reap' = IF onAbort THEN reap ELSE "mark"

\* The listener is there while the launch is under way.
Abort ==
  /\ ~aborted
  /\ launch \in {"new", "listening", "runs", "named", "reads"}
  /\ aborted' = TRUE
  /\ IF launch \in {"runs", "named", "reads"}
       THEN onAbort' = TRUE /\ reap' = "mark"
       ELSE UNCHANGED <<onAbort, reap>>
  /\ UNCHANGED <<launch, pidKnown, reaped, client, file, daemonVars, request, kill>>

\* Finds no status, and writes the record of the launch.
Prepare ==
  /\ launch = "new"
  /\ Goes(IF aborted \/ file # "none" THEN "rejected" ELSE "listening")
  /\ UNCHANGED <<aborted, pidKnown, reap, onAbort, reaped, client, file, daemonVars,
                 request, kill>>

Execute ==
  /\ launch = "listening"
  /\ IF aborted THEN Cleans /\ UNCHANGED client
                ELSE Goes("runs") /\ client' = "sends" /\ UNCHANGED reap
  /\ UNCHANGED <<aborted, pidKnown, onAbort, reaped, file, daemonVars, request, kill>>

\* The client has ended, with a response or without.
Executed ==
  /\ launch = "runs"
  /\ client \in {"ok", "error", "stopped"}
  /\ pidKnown' = (client = "ok")
  /\ IF client = "ok" /\ ~aborted THEN Goes("named") /\ UNCHANGED reap ELSE Cleans
  /\ UNCHANGED <<aborted, onAbort, reaped, client, file, daemonVars, request, kill>>

\* The index by process id is written, or not.
Index ==
  /\ launch = "named"
  /\ (Goes("reads") /\ UNCHANGED reap) \/ Cleans
  /\ UNCHANGED <<aborted, pidKnown, onAbort, reaped, client, file, daemonVars, request, kill>>

\* The status says what the response said.
ReadBack ==
  /\ launch = "reads"
  /\ IF file \in {"live", "final"} /\ ~aborted
       THEN Goes("ready") /\ UNCHANGED reap
       ELSE Cleans
  /\ UNCHANGED <<aborted, pidKnown, onAbort, reaped, client, file, daemonVars, request, kill>>

\* The error is reported; if the clean-up failed, with a way to try it again.
Reject ==
  /\ launch = "cleans"
  /\ \/ reap = "done" /\ Goes("rejected")
     \/ reap = "failed" /\ Goes("pending")
  /\ UNCHANGED <<aborted, pidKnown, reap, onAbort, reaped, client, file, daemonVars,
                 request, kill>>

\* A retry of a failed clean-up, or SIGKILL for a shell that runs.
ReapLater ==
  /\ launch \in {"ready", "pending"}
  /\ reap \in {"none", "done", "failed"}
  /\ reap' = "mark"
  /\ UNCHANGED <<launch, aborted, pidKnown, onAbort, reaped, client, file, daemonVars,
                 request, kill>>

-----------------------------------------------------------------------------
(* reapLaunch *)

Returns == reap' = "done" /\ reaped' = TRUE

\* Whatever is in the file, it is replaced.
MarkOver ==
  /\ reap = "mark"
  /\ file' = "cancelled"
  /\ IF ~pidKnown THEN Returns ELSE reap' = "sends" /\ UNCHANGED reaped
  /\ UNCHANGED <<launch, aborted, pidKnown, onAbort, client, daemonVars, request, kill>>

\* Creates the status file, unless there is one; or cannot.
Mark ==
  /\ reap = "mark"
  /\ \/ /\ file' = IF file = "none" THEN "cancelled" ELSE file
        /\ IF file' = "cancelled" /\ ~pidKnown
             THEN Returns
             ELSE reap' = "sends" /\ UNCHANGED reaped
     \/ file = "none" /\ reap' = "failed" /\ UNCHANGED <<file, reaped>>
  /\ UNCHANGED <<launch, aborted, pidKnown, onAbort, client, daemonVars, request, kill>>

SendKill ==
  /\ reap = "sends"
  /\ IF daemon = "down" THEN reap' = "confirm" /\ UNCHANGED kill
                        ELSE reap' = "waits" /\ kill' = "queued"
  /\ UNCHANGED <<launch, aborted, pidKnown, onAbort, reaped, client, file, daemonVars, request>>

\* The response, or ten seconds without one; the request may still be handled.
KillAnswered ==
  /\ reap = "waits"
  /\ IF kill = "killed" THEN Returns
                        ELSE reap' = "confirm" /\ UNCHANGED reaped
  /\ kill' = IF kill = "queued" THEN kill ELSE "none"
  /\ UNCHANGED <<launch, aborted, pidKnown, onAbort, client, file, daemonVars, request>>

\* The final status of this child proves its end.
Confirm ==
  /\ reap = "confirm"
  /\ IF file = "final" THEN Returns ELSE reap' = "failed" /\ UNCHANGED reaped
  /\ UNCHANGED <<launch, aborted, pidKnown, onAbort, client, file, daemonVars, request, kill>>

-----------------------------------------------------------------------------
(* The client and the daemon *)

\* The client starts a daemon if there is none.
ClientSends ==
  /\ client = "sends"
  /\ client' = "waits" /\ request' = "queued"
  /\ daemon' = IF daemon = "down" THEN "idle" ELSE daemon
  /\ UNCHANGED <<harnessVars, file, listed, child, kill>>

\* Thirty seconds are over, or it finds no daemon.
ClientStops ==
  /\ client \in {"sends", "waits"}
  /\ client' = "stopped"
  /\ UNCHANGED <<harnessVars, file, daemonVars, request, kill>>

Answers(answer) == client' = IF client = "waits" THEN answer ELSE client

\* new-session: the status file is created, as nobody else's.
Reserve ==
  /\ daemon = "idle" /\ request = "queued"
  /\ request' = "none"
  /\ IF file = "none" THEN file' = "reserved" /\ daemon' = "reserved" /\ UNCHANGED client
                      ELSE Answers("error") /\ UNCHANGED <<file, daemon>>
  /\ UNCHANGED <<harnessVars, listed, child, kill>>

Spawn ==
  /\ daemon = "reserved"
  /\ \/ /\ child' = "alive" /\ daemon' = "spawned"
        /\ UNCHANGED <<file, client>>
     \/ /\ file' = "none" /\ daemon' = "idle" /\ Answers("error")
        /\ UNCHANGED child
  /\ UNCHANGED <<harnessVars, listed, request, kill>>

\* The status is published and the threads start; a failure of either stops the child.
Publish ==
  /\ daemon = "spawned"
  /\ daemon' = "idle"
  /\ \/ file' = "live" /\ listed' = TRUE /\ Answers("ok") /\ UNCHANGED child
     \/ file' \in {"none", "live", "final"} /\ child' = "ended" /\ Answers("error")
        /\ UNCHANGED listed
  /\ UNCHANGED <<harnessVars, request, kill>>

\* kill-session, if the daemon has the session: stopped, published and removed.  When the
\* status cannot be written the session stays for the next tick.
Kill ==
  /\ daemon = "idle" /\ kill = "queued"
  /\ child' = IF listed THEN "ended" ELSE child
  /\ \/ listed /\ file' = "final" /\ listed' = FALSE /\ kill' = "killed"
     \/ kill' = "unknown" /\ UNCHANGED <<file, listed>>
  /\ UNCHANGED <<harnessVars, client, daemon, request>>

ChildEnds ==
  /\ child = "alive"
  /\ child' = "ended"
  /\ UNCHANGED <<harnessVars, client, file, daemon, listed, request, kill>>

\* A tick finds that the child has ended.
Tick ==
  /\ daemon = "idle" /\ listed /\ child = "ended"
  /\ file' = "final" /\ listed' = FALSE
  /\ UNCHANGED <<harnessVars, client, daemon, child, request, kill>>

\* The daemon stops as it should, and its sessions with it; their status may not get out.
DaemonStops ==
  /\ daemon = "idle"
  /\ daemon' = "down" /\ listed' = FALSE
  /\ child' = IF listed THEN "ended" ELSE child
  /\ file' \in (IF listed THEN {file, "final"} ELSE {file})
  /\ request' = "none" /\ kill' = IF kill = "queued" THEN "none" ELSE kill
  /\ Answers("error")
  /\ UNCHANGED harnessVars

\* It is killed; the child may go on.
DaemonKilled ==
  /\ daemon # "down"
  /\ daemon' = "down" /\ listed' = FALSE
  /\ child' \in (IF child = "alive" THEN {"alive", "ended"} ELSE {child})
  /\ request' = "none" /\ kill' = IF kill = "queued" THEN "none" ELSE kill
  /\ Answers("error")
  /\ UNCHANGED <<harnessVars, file>>

Harness ==
  \/ Abort \/ Prepare \/ Execute \/ Executed \/ Index \/ ReadBack \/ Reject \/ ReapLater
  \/ Mark \/ SendKill \/ KillAnswered \/ Confirm

Ghostmux ==
  \/ ClientSends \/ ClientStops \/ Reserve \/ Spawn \/ Publish \/ Kill \/ ChildEnds \/ Tick
  \/ DaemonStops \/ DaemonKilled

Next == Harness \/ Ghostmux

Spec == Init /\ [][Next]_vars

-----------------------------------------------------------------------------
(* Once a clean-up has returned, there is no child and there will be none; *)
(* so a launch that is over has a child only if it is ready, or its owner  *)
(* has been told that the clean-up is pending.                             *)
NoChildLeft ==
  /\ reaped => child # "alive"
  /\ launch = "rejected" => child # "alive"

=============================================================================
