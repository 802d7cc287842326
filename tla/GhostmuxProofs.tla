--------------------------- MODULE GhostmuxProofs ---------------------------
(***************************************************************************)
(* Proofs about Ghostmux: for any number of clients, servers, connections  *)
(* and monitors, any amount of output, and any size of the ring, of a read *)
(* that the ring has room for, and of a queue.                             *)
(***************************************************************************)
EXTENDS Ghostmux, FiniteSetTheorems, SequenceTheorems, TLAPS

-----------------------------------------------------------------------------
(* One launch of a shell                                                       *)

(* TypeOK of ShellLaunch, and its flags one by one *)
LaunchFlags ==
  /\ launchAborted \in BOOLEAN /\ pidKnown \in BOOLEAN /\ onAbort \in BOOLEAN
  /\ reaped \in BOOLEAN /\ listed \in BOOLEAN

LaunchTyped ==
  /\ launch \in {"new", "listening", "runs", "named", "reads", "cleans",
                 "ready", "rejected", "pending"}
  /\ launchClient \in {"none", "sends", "waits", "ok", "error", "stopped"}
  /\ launchReap \in {"none", "mark", "sends", "waits", "confirm", "done", "failed"}
  /\ file \in {"none", "reserved", "live", "final", "cancelled"}
  /\ daemon \in {"down", "idle", "reserved", "spawned"}
  /\ request \in {"none", "queued"}
  /\ kill \in {"none", "queued", "killed", "unknown"}
  /\ launched \in {"none", "alive", "ended"}
  /\ listed => file \in {"live", "final"}

(* The status file decides whether there is going to be a child: a daemon that will start
   one, or has, holds it, and a clean-up returns only when it says that there is none and
   nobody can take it any more *)
RequestInv ==
  /\ launchClient \in {"none", "sends"} => request = "none"
  /\ launchClient \in {"none", "sends"} \/ request = "queued" =>
       launched = "none" /\ daemon \in {"down", "idle"} /\ ~listed
  /\ daemon \in {"reserved", "spawned"} => file = "reserved" /\ ~listed
  /\ daemon = "reserved" => launched = "none"

ReapInv ==
  /\ launched = "alive" => file \in {"reserved", "live"}
  /\ kill = "killed" => file = "final"
  /\ reaped => file \in {"cancelled", "final"}
  /\ launchReap = "done" => reaped

OwnerInv ==
  /\ launch \in {"new", "listening"} => launchClient = "none"
  /\ launch = "rejected" => reaped \/ launchClient = "none"

LaunchInv == LaunchTyped /\ RequestInv /\ ReapInv /\ OwnerInv

LEMMA LaunchInit == Launch!Init => LaunchInv
BY DEF Launch!Init, LaunchInv, LaunchTyped, RequestInv, ReapInv, OwnerInv

(* The steps of the harness *)
LEMMA HarnessKeeps == ASSUME LaunchInv, Launch!Harness PROVE LaunchInv'
<1> USE DEF LaunchInv, LaunchTyped, RequestInv, ReapInv, OwnerInv,
            Launch!harnessVars, Launch!daemonVars, Launch!Goes, Launch!Cleans, Launch!Returns
<1>1. CASE Launch!Abort
  BY <1>1 DEF Launch!Abort
<1>2. CASE Launch!Prepare
  BY <1>2 DEF Launch!Prepare
<1>3. CASE Launch!Execute
  BY <1>3 DEF Launch!Execute
<1>4. CASE Launch!Executed
  BY <1>4 DEF Launch!Executed
<1>5. CASE Launch!Index
  BY <1>5 DEF Launch!Index
<1>6. CASE Launch!ReadBack
  BY <1>6 DEF Launch!ReadBack
<1>7. CASE Launch!Reject
  BY <1>7 DEF Launch!Reject
<1>8. CASE Launch!ReapLater
  BY <1>8 DEF Launch!ReapLater
<1>9. CASE Launch!Mark
  BY <1>9 DEF Launch!Mark
<1>10. CASE Launch!SendKill
  BY <1>10 DEF Launch!SendKill
<1>11. CASE Launch!KillAnswered
  BY <1>11 DEF Launch!KillAnswered
<1>12. CASE Launch!Confirm
  BY <1>12 DEF Launch!Confirm
<1>13. QED
  BY <1>1, <1>2, <1>3, <1>4, <1>5, <1>6, <1>7, <1>8, <1>9, <1>10, <1>11, <1>12
     DEF Launch!Harness

(* The steps of the client, of the daemon and of the child *)
LEMMA GhostmuxKeeps == ASSUME LaunchInv, Launch!Ghostmux PROVE LaunchInv'
<1> USE DEF LaunchInv, LaunchTyped, RequestInv, ReapInv, OwnerInv,
            Launch!harnessVars, Launch!daemonVars, Launch!Answers
<1>1. CASE Launch!ClientSends
  BY <1>1 DEF Launch!ClientSends
<1>2. CASE Launch!ClientStops
  BY <1>2 DEF Launch!ClientStops
<1>3. CASE Launch!Reserve
  BY <1>3 DEF Launch!Reserve
<1>4. CASE Launch!Spawn
  BY <1>4 DEF Launch!Spawn
<1>5. CASE Launch!Publish
  BY <1>5 DEF Launch!Publish
<1>6. CASE Launch!Kill
  BY <1>6 DEF Launch!Kill
<1>7. CASE Launch!ChildEnds
  BY <1>7 DEF Launch!ChildEnds
<1>8. CASE Launch!Tick
  BY <1>8 DEF Launch!Tick
<1>9. CASE Launch!DaemonStops
  BY <1>9 DEF Launch!DaemonStops
<1>10. CASE Launch!DaemonKilled
  BY <1>10 DEF Launch!DaemonKilled
<1>11. QED
  BY <1>1, <1>2, <1>3, <1>4, <1>5, <1>6, <1>7, <1>8, <1>9, <1>10 DEF Launch!Ghostmux

LEMMA LaunchStep == LaunchInv /\ [Launch!Next]_(Launch!vars) => LaunchInv'
<1> SUFFICES ASSUME LaunchInv, [Launch!Next]_(Launch!vars) PROVE LaunchInv'
  OBVIOUS
<1>1. CASE UNCHANGED Launch!vars
  BY <1>1 DEF LaunchInv, LaunchTyped, RequestInv, ReapInv, OwnerInv, Launch!vars,
     Launch!harnessVars, Launch!daemonVars
<1>2. QED
  BY <1>1, HarnessKeeps, GhostmuxKeeps DEF Launch!Next

(* A flag is set, reset, left alone or the answer to a question *)
LEMMA LaunchFlagsStay == LaunchFlags /\ [Launch!Next]_(Launch!vars) => LaunchFlags'
<1> SUFFICES ASSUME LaunchFlags, [Launch!Next]_(Launch!vars) PROVE LaunchFlags'
  OBVIOUS
<1> USE DEF LaunchFlags, Launch!harnessVars, Launch!daemonVars
<1>1. CASE Launch!Abort
  BY <1>1, Zenon DEF Launch!Abort
<1>2. CASE Launch!Prepare
  BY <1>2, Zenon DEF Launch!Prepare
<1>3. CASE Launch!Execute
  BY <1>3, Zenon DEF Launch!Execute, Launch!Cleans
<1>4. CASE Launch!Executed
  BY <1>4, Zenon DEF Launch!Executed, Launch!Cleans
<1>5. CASE Launch!Index
  BY <1>5, Zenon DEF Launch!Index, Launch!Cleans
<1>6. CASE Launch!ReadBack
  BY <1>6, Zenon DEF Launch!ReadBack, Launch!Cleans
<1>7. CASE Launch!Reject
  BY <1>7, Zenon DEF Launch!Reject
<1>8. CASE Launch!ReapLater
  BY <1>8, Zenon DEF Launch!ReapLater
<1>9. CASE Launch!Mark
  BY <1>9, Zenon DEF Launch!Mark, Launch!Returns
<1>10. CASE Launch!SendKill
  BY <1>10, Zenon DEF Launch!SendKill
<1>11. CASE Launch!KillAnswered
  BY <1>11, Zenon DEF Launch!KillAnswered, Launch!Returns
<1>12. CASE Launch!Confirm
  BY <1>12, Zenon DEF Launch!Confirm, Launch!Returns
<1>13. CASE Launch!ClientSends
  BY <1>13, Zenon DEF Launch!ClientSends
<1>14. CASE Launch!ClientStops
  BY <1>14, Zenon DEF Launch!ClientStops
<1>15. CASE Launch!Reserve
  BY <1>15, Zenon DEF Launch!Reserve
<1>16. CASE Launch!Spawn
  BY <1>16, Zenon DEF Launch!Spawn
<1>17. CASE Launch!Publish
  BY <1>17, Zenon DEF Launch!Publish
<1>18. CASE Launch!Kill
  BY <1>18, Zenon DEF Launch!Kill
<1>19. CASE Launch!ChildEnds
  BY <1>19, Zenon DEF Launch!ChildEnds
<1>20. CASE Launch!Tick
  BY <1>20, Zenon DEF Launch!Tick
<1>21. CASE Launch!DaemonStops
  BY <1>21, Zenon DEF Launch!DaemonStops
<1>22. CASE Launch!DaemonKilled
  BY <1>22, Zenon DEF Launch!DaemonKilled
<1>23. CASE UNCHANGED Launch!vars
  BY <1>23 DEF Launch!vars
<1>24. QED
  BY <1>1, <1>2, <1>3, <1>4, <1>5, <1>6, <1>7, <1>8, <1>9, <1>10, <1>11, <1>12, <1>13, <1>14, <1>15, <1>16, <1>17, <1>18, <1>19, <1>20, <1>21, <1>22, <1>23
     DEF Launch!Next, Launch!Harness, Launch!Ghostmux

(* The types of a launch, and that a process is listed only with a status that has one *)
THEOREM LaunchTypes == Launch!Spec => []Launch!TypeOK
<1>1. LaunchInv /\ LaunchFlags => Launch!TypeOK
  BY DEF LaunchInv, LaunchTyped, LaunchFlags, Launch!TypeOK
<1>0. Launch!Init => LaunchFlags
  BY DEF Launch!Init, LaunchFlags
<1>2. QED
  BY <1>0, <1>1, LaunchFlagsStay, LaunchInit, LaunchStep, PTL DEF Launch!Spec

(* However an abort, a clean-up and a daemon that is slow, stops or is killed fall together:
   a launch that was rejected, or its end confirmed, has no child and will have none *)
THEOREM LaunchLeavesNoChild == Launch!Spec => []Launch!NoChildLeft
<1>1. LaunchInv => Launch!NoChildLeft
  BY DEF LaunchInv, Launch!NoChildLeft, RequestInv, ReapInv, OwnerInv
<1>2. QED
  BY <1>1, LaunchInit, LaunchStep, PTL DEF Launch!Spec

-----------------------------------------------------------------------------
(* A repeat monitor                                                            *)

(* TypeOK of RepeatMonitor, and its flags one by one *)
RepeatFlags ==
  /\ running \in BOOLEAN /\ breached \in BOOLEAN /\ failed \in BOOLEAN
  /\ observing \in BOOLEAN /\ joined \in BOOLEAN /\ follower \in BOOLEAN
  /\ cleanup \in BOOLEAN /\ signalSent \in BOOLEAN /\ offered \in BOOLEAN
  /\ aborted \in BOOLEAN /\ finished \in BOOLEAN /\ told \in BOOLEAN

Tasks ==
  {"loop", "launching", "stats", "subscribing", "follows", "waiting",
   "failing", "closing", "cancelled", "over"} \cup {"joins", "joined", "refused"}

RepeatTyped ==
  /\ task \in Tasks
  /\ starting \in {"none", "flying", "ok", "failed"}
  /\ woken \in {"no", "null", "zero", "nonzero"}
  /\ timer \in {"off", "breach", "next"}
  /\ stopSignal \in {"none", "KILL", "other"} /\ sending \in {"none", "KILL", "other"}
  /\ reap \in {"none", "launching", "cleaning", "reaping"}
  /\ place \in [Repeat!Others -> {"none", "joins", "awaits", "closing", "done", "failed"}]
  /\ child \in {"none", "alive", "ended"}

(* A child that lives is one the monitor knows to be its own; until a launch has settled,
   there is none.  A join that has come past the launch knows them all *)
NativeInv ==
  /\ starting # "none" => task = "launching"
  /\ starting = "flying" => ~Repeat!Unjoined
  /\ child = "alive" => Repeat!Unjoined \/ starting = "ok"
  /\ reap = "reaping" /\ cleanup => child # "alive"
  /\ task = "launching" => ~joined /\ reap \in {"none", "launching"}

(* Whoever but the loop begins a join has ended the loop's runs before *)
JoinInv ==
  /\ reap # "none" /\ running /\ ~breached => task = "joins"
  /\ sending # "none" => ~running
  /\ aborted => ~running

(* Before a run, and from when the log is closed on, no child is left *)
LeftInv ==
  /\ task \in {"loop", "waiting", "closing", "cancelled"} => ~Repeat!Unjoined
  /\ task = "joined" => joined /\ ~cleanup
  /\ \A o \in Repeat!Others : place[o] = "closing" => task = "over" /\ ~Repeat!Unjoined
  /\ finished => task = "over" /\ ~Repeat!Unjoined
  /\ finished /\ stopSignal = "other" => told

RepeatInv == RepeatTyped /\ NativeInv /\ JoinInv /\ LeftInv

LEMMA RepeatInit == Repeat!Init => RepeatInv
BY DEF Repeat!Init, RepeatInv, RepeatTyped, Tasks, NativeInv, JoinInv, LeftInv,
   Repeat!Unjoined, Repeat!Others

(* The steps of the loop *)
LEMMA IterationKeeps ==
  ASSUME RepeatInv, Repeat!Iteration
  PROVE  RepeatInv'
<1> USE DEF RepeatInv, RepeatTyped, Tasks, NativeInv, JoinInv, LeftInv, Repeat!Unjoined,
            Repeat!Others, Repeat!loopVars, Repeat!childVars, Repeat!signalVars,
            Repeat!storageVars, Repeat!joinVars
<1>1. CASE Repeat!Loop
  BY <1>1 DEF Repeat!Loop, Repeat!End, Repeat!Close
<1>2. CASE Repeat!Launched
  BY <1>2 DEF Repeat!Launched, Repeat!After, Repeat!Fail, Repeat!End, Repeat!Close, Repeat!SignalChild, Repeat!Default
<1>3. CASE Repeat!Stats
  BY <1>3 DEF Repeat!Stats, Repeat!After, Repeat!Fail, Repeat!End, Repeat!Close
<1>4. CASE Repeat!Subscribed
  BY <1>4 DEF Repeat!Subscribed, Repeat!Fail
<1>5. CASE Repeat!Exited
  BY <1>5 DEF Repeat!Exited, Repeat!Fail, Repeat!JoinReap
<1>6. CASE Repeat!IterationJoined
  BY <1>6 DEF Repeat!IterationJoined, Repeat!After, Repeat!Fail, Repeat!End, Repeat!Close
<1>7. CASE Repeat!Failing
  BY <1>7 DEF Repeat!Failing, Repeat!JoinReap
<1>8. CASE Repeat!FailureJoined
  BY <1>8 DEF Repeat!FailureJoined, Repeat!End, Repeat!Close
<1>9. CASE Repeat!Waited
  BY <1>9 DEF Repeat!Waited
<1>10. CASE Repeat!LoopClosed
  <2>1. stopSignal' = "other" => told'
    <3>1. CASE stopSignal # "none" \/ task = "closing"
      BY <1>10, <3>1 DEF Repeat!LoopClosed, Repeat!Notify
    <3>2. CASE stopSignal = "none"
      BY <1>10, <3>2 DEF Repeat!LoopClosed
    <3>3. QED
      BY <3>1, <3>2
  <2>2. QED
    BY <1>10, <2>1 DEF Repeat!LoopClosed
<1>11. QED
  BY <1>1, <1>2, <1>3, <1>4, <1>5, <1>6, <1>7, <1>8, <1>9, <1>10 DEF Repeat!Iteration

(* The launch, the signal and the join *)
LEMMA NativeKeeps ==
  ASSUME RepeatInv, Repeat!Native
  PROVE  RepeatInv'
<1> USE DEF RepeatInv, RepeatTyped, Tasks, NativeInv, JoinInv, LeftInv, Repeat!Unjoined,
            Repeat!Others, Repeat!loopVars, Repeat!childVars, Repeat!signalVars,
            Repeat!storageVars, Repeat!joinVars
<1>1. CASE Repeat!LaunchSettles
  BY <1>1 DEF Repeat!LaunchSettles
<1>2. CASE Repeat!Signalled
  BY <1>2 DEF Repeat!Signalled, Repeat!Wake, Repeat!Joins, Repeat!JoinReap
<1>3. CASE Repeat!ReapLaunching
  BY <1>3 DEF Repeat!ReapLaunching
<1>4. CASE Repeat!ReapCleaning
  BY <1>4 DEF Repeat!ReapCleaning, Repeat!Resolve, Repeat!Joining, Repeat!Failed, Repeat!Enders
<1>5. CASE Repeat!Reap
  BY <1>5 DEF Repeat!Reap, Repeat!Joined, Repeat!Wake, Repeat!Resolve, Repeat!Joining, Repeat!Failed, Repeat!Enders
<1>6. QED
  BY <1>1, <1>2, <1>3, <1>4, <1>5 DEF Repeat!Native

(* The child, the timer and the retry *)
LEMMA EventsKeep ==
  ASSUME RepeatInv, Repeat!Reported \/ Repeat!Breach \/ Repeat!Retry \/ Repeat!ChildExits
  PROVE  RepeatInv'
<1> USE DEF RepeatInv, RepeatTyped, Tasks, NativeInv, JoinInv, LeftInv, Repeat!Unjoined,
            Repeat!Others, Repeat!loopVars, Repeat!childVars, Repeat!signalVars,
            Repeat!storageVars, Repeat!joinVars
<1>1. CASE Repeat!Reported
  BY <1>1 DEF Repeat!Reported, Repeat!Wake
<1>2. CASE Repeat!Breach
  BY <1>2 DEF Repeat!Breach, Repeat!Joins, Repeat!JoinReap
<1>3. CASE Repeat!Retry
  BY <1>3 DEF Repeat!Retry, Repeat!Joins, Repeat!JoinReap
<1>4. CASE Repeat!ChildExits
  BY <1>4 DEF Repeat!ChildExits
<1>5. QED
  BY <1>1, <1>2, <1>3, <1>4 DEF Repeat!Reported

(* Signals, and those who end the monitor *)
LEMMA StopKeeps ==
  ASSUME RepeatInv, NEW signal \in {"none", "KILL", "other"}, Repeat!Stop(signal)
  PROVE  RepeatInv'
<1> USE DEF RepeatInv, RepeatTyped, Tasks, NativeInv, JoinInv, LeftInv, Repeat!Unjoined,
            Repeat!Others, Repeat!loopVars, Repeat!childVars, Repeat!signalVars,
            Repeat!storageVars, Repeat!joinVars
<1>1. QED
  BY DEF Repeat!Stop, Repeat!Wake, Repeat!SignalChild, Repeat!Default

LEMMA OthersKeep ==
  ASSUME RepeatInv, NEW o \in Repeat!Others, Repeat!Other(o) \/ Repeat!Shutdown(o)
  PROVE  RepeatInv'
<1> USE DEF RepeatInv, RepeatTyped, Tasks, NativeInv, JoinInv, LeftInv, Repeat!Unjoined,
            Repeat!Others, Repeat!loopVars, Repeat!childVars, Repeat!signalVars,
            Repeat!storageVars, Repeat!joinVars
<1>1. CASE Repeat!Awaited(o)
  BY <1>1 DEF Repeat!Awaited, Repeat!Failed
<1>2. CASE Repeat!ClosedOther(o)
  <2>1. stopSignal' = "other" => told'
    <3>1. CASE stopSignal # "none"
      BY <1>2, <3>1 DEF Repeat!ClosedOther, Repeat!NotifyStopped, Repeat!Notify
    <3>2. CASE stopSignal = "none"
      BY <1>2, <3>2 DEF Repeat!ClosedOther
    <3>3. QED
      BY <3>1, <3>2
  <2>2. QED
    BY <1>2, <2>1 DEF Repeat!ClosedOther
<1>3. CASE Repeat!Shutdown(o)
  BY <1>3 DEF Repeat!Shutdown, Repeat!Wake, Repeat!Joins, Repeat!JoinReap
<1>4. QED
  BY <1>1, <1>2, <1>3 DEF Repeat!Other

LEMMA RepeatStep == RepeatInv /\ [Repeat!Next]_(Repeat!vars) => RepeatInv'
<1> SUFFICES ASSUME RepeatInv, [Repeat!Next]_(Repeat!vars) PROVE RepeatInv'
  OBVIOUS
<1>1. CASE UNCHANGED Repeat!vars
  BY <1>1 DEF Repeat!vars, RepeatInv, RepeatTyped, NativeInv, JoinInv, LeftInv, Repeat!Unjoined,
     Repeat!loopVars, Repeat!childVars, Repeat!signalVars, Repeat!storageVars, Repeat!joinVars
<1>2. QED
  BY <1>1, IterationKeeps, NativeKeeps, EventsKeep, StopKeeps, OthersKeep DEF Repeat!Next

(* A flag is set, reset, left alone or the answer to a question *)
LEMMA RepeatFlagsStay == RepeatFlags /\ [Repeat!Next]_(Repeat!vars) => RepeatFlags'
<1> SUFFICES ASSUME RepeatFlags, [Repeat!Next]_(Repeat!vars) PROVE RepeatFlags'
  OBVIOUS
<1> USE DEF RepeatFlags, Repeat!loopVars, Repeat!childVars, Repeat!signalVars,
            Repeat!storageVars, Repeat!joinVars
<1>1. CASE Repeat!Loop
  BY <1>1, ZenonT(60) DEF Repeat!Loop, Repeat!End, Repeat!Close
<1>2. CASE Repeat!Launched
  BY <1>2, ZenonT(60) DEF Repeat!Launched, Repeat!After, Repeat!Fail, Repeat!End, Repeat!Close, Repeat!SignalChild
<1>3. CASE Repeat!Stats
  BY <1>3, ZenonT(60) DEF Repeat!Stats, Repeat!After, Repeat!Fail, Repeat!End, Repeat!Close
<1>4. CASE Repeat!Subscribed
  BY <1>4, ZenonT(60) DEF Repeat!Subscribed, Repeat!Fail
<1>5. CASE Repeat!Exited
  BY <1>5, ZenonT(60) DEF Repeat!Exited, Repeat!Fail
<1>6. CASE Repeat!IterationJoined
  BY <1>6, ZenonT(60) DEF Repeat!IterationJoined, Repeat!After, Repeat!Fail, Repeat!End, Repeat!Close
<1>7. CASE Repeat!Failing
  BY <1>7, ZenonT(60) DEF Repeat!Failing
<1>8. CASE Repeat!FailureJoined
  BY <1>8, ZenonT(60) DEF Repeat!FailureJoined, Repeat!End, Repeat!Close
<1>9. CASE Repeat!Waited
  BY <1>9, ZenonT(60) DEF Repeat!Waited
<1>10. CASE Repeat!LoopClosed
  BY <1>10, ZenonT(60) DEF Repeat!LoopClosed, Repeat!Notify
<1>11. CASE Repeat!LaunchSettles
  BY <1>11, ZenonT(60) DEF Repeat!LaunchSettles
<1>12. CASE Repeat!Signalled
  BY <1>12, ZenonT(60) DEF Repeat!Signalled
<1>13. CASE Repeat!ReapLaunching
  BY <1>13, ZenonT(60) DEF Repeat!ReapLaunching
<1>14. CASE Repeat!ReapCleaning
  BY <1>14, ZenonT(60) DEF Repeat!ReapCleaning, Repeat!Resolve
<1>15. CASE Repeat!Reap
  BY <1>15, ZenonT(60) DEF Repeat!Reap, Repeat!Joined, Repeat!Resolve
<1>16. CASE Repeat!Reported
  BY <1>16, ZenonT(60) DEF Repeat!Reported
<1>17. CASE Repeat!Breach
  BY <1>17, ZenonT(60) DEF Repeat!Breach
<1>18. CASE Repeat!Retry
  BY <1>18, ZenonT(60) DEF Repeat!Retry
<1>19. CASE Repeat!ChildExits
  BY <1>19, ZenonT(60) DEF Repeat!ChildExits
<1>20. ASSUME NEW signal \in {"none", "KILL", "other"}, Repeat!Stop(signal) PROVE RepeatFlags'
  BY <1>20, ZenonT(60) DEF Repeat!Stop, Repeat!SignalChild
<1>21. ASSUME NEW o \in Repeat!Others, Repeat!Awaited(o) PROVE RepeatFlags'
  BY <1>21, ZenonT(60) DEF Repeat!Awaited
<1>22. ASSUME NEW o \in Repeat!Others, Repeat!ClosedOther(o) PROVE RepeatFlags'
  BY <1>22, ZenonT(60) DEF Repeat!ClosedOther, Repeat!NotifyStopped, Repeat!Notify
<1>23. ASSUME NEW o \in Repeat!Others, Repeat!Shutdown(o) PROVE RepeatFlags'
  BY <1>23, ZenonT(60) DEF Repeat!Shutdown
<1>24. CASE UNCHANGED Repeat!vars
  BY <1>24 DEF Repeat!vars
<1>25. QED
  BY <1>1, <1>2, <1>3, <1>4, <1>5, <1>6, <1>7, <1>8, <1>9, <1>10, <1>11, <1>12, <1>13, <1>14, <1>15, <1>16, <1>17, <1>18, <1>19, <1>20, <1>21, <1>22, <1>23, <1>24
     DEF Repeat!Next, Repeat!Iteration, Repeat!Native, Repeat!Other

(* The types of a repeat monitor *)
THEOREM RepeatTypes == Repeat!Spec => []Repeat!TypeOK
<1>1. RepeatInv /\ RepeatFlags => Repeat!TypeOK
  BY DEF RepeatInv, RepeatTyped, RepeatFlags, Tasks, Repeat!TypeOK
<1>2. Repeat!Init => RepeatFlags
  BY DEF Repeat!Init, RepeatFlags
<1>3. QED
  BY <1>1, <1>2, RepeatFlagsStay, RepeatInit, RepeatStep, PTL DEF Repeat!Spec

(* Whoever ends the monitor, its loop, a signal, a timeout, the session or the program: when
   its operation is finished no child of it lives and none is being launched *)
THEOREM MonitorLeavesNothing == Repeat!Spec => []Repeat!NothingLeft
<1>1. RepeatInv => Repeat!NothingLeft
  BY DEF RepeatInv, NativeInv, LeftInv, Repeat!NothingLeft
<1>2. QED
  BY <1>1, RepeatInit, RepeatStep, PTL DEF Repeat!Spec

-----------------------------------------------------------------------------
(* Clients and servers around one socket                                       *)

\* A client command with its startup lock.
Holding == {"locked", "guard", "waits", "connected", "answered"}
\* A server that is not yet reachable, and may still find that it is not needed.
Coming == {"none", "spawned", "locked", "stale", "bind"}
\* A server that has its run lock.
Running == {"locked", "stale", "bind", "listening", "deaf", "closed", "unlinked"}
Told == {"asked", "timeout", "killed"}

(* Who holds the locks, and what a server that holds one can count on.  A     *)
(* server reaches its socket only under the run lock, so no other replaces or *)
(* removes it; a server that stops for want of work keeps the startup lock,   *)
(* so no client command is waiting for an answer of it.                       *)
LockInv ==
  /\ \A s \in Servers : server[s] \in Running => runLock = s
  /\ \A c \in Clients : client[c] = "guard" => runLock = c
  /\ \A c \in Clients : client[c] \in Holding /\ op[c] # "direct" => startupLock = c

ServerInv ==
  /\ \A s \in Servers : server[s] \in Listening => socket = s
  /\ \A s \in Servers : sessions[s] # {} => server[s] \in Listening
  /\ \A s \in Servers : server[s] \in Coming => why[s] = "none" /\ s \notin stopping
  /\ \A s \in Servers : server[s] = "listening" => why[s] \in {"none", "asked"}
  /\ \A s \in Servers : server[s] = "listening" /\ s \in stopping => why[s] = "asked"
  /\ \A s \in Servers : server[s] = "deaf" => why[s] \in Told \/ startupLock = s

ClientInv ==
  /\ \A c \in Clients : client[c] \in {"connected", "dropped"} => at[c] # None
  /\ \A c \in Clients : at[c] # None => server[at[c]] \notin Coming
  /\ \A c \in Clients : client[c] = "dropped" /\ op[c] # "direct" => why[at[c]] \in Told

StartupInv == TypeOK /\ LockInv /\ ServerInv /\ ClientInv

-----------------------------------------------------------------------------

LEMMA StartupInit == Init => StartupInv
<1> SUFFICES ASSUME Init PROVE StartupInv
  OBVIOUS
<1> USE ProcessAssumption DEF Init
<1>1. TypeOK
  BY DEF TypeOK, Alive, Listening, Process
<1>2. \A s \in Servers : server[s] \in {"none", "ended"}
  OBVIOUS
<1>3. LockInv /\ ServerInv /\ ClientInv
  BY <1>2 DEF LockInv, ServerInv, ClientInv, Running, Holding, Listening, Coming
<1>4. QED
  BY <1>1, <1>3 DEF StartupInv

-----------------------------------------------------------------------------
(* The steps of a client.                                                     *)

LEMMA ClientSteps ==
  ASSUME StartupInv, NEW c \in Clients, Asks(c)
  PROVE  StartupInv'
<1> USE ProcessAssumption DEF StartupInv, clientVars, serverVars, files
<1>1. CASE LockStartup(c)
  <2>1. TypeOK'
    BY <1>1 DEF LockStartup, TypeOK, Process
  <2>2. LockInv'
    BY <1>1 DEF LockStartup, TypeOK, LockInv, Holding, Process
  <2>3. ServerInv'
    BY <1>1 DEF LockStartup, TypeOK, ServerInv, Process
  <2>4. ClientInv'
    BY <1>1 DEF LockStartup, TypeOK, ClientInv
  <2>5. QED
    BY <2>1, <2>2, <2>3, <2>4
<1>2. CASE Connect(c)
  <2>0. socket \in Servers /\ server[socket] \in Listening
    BY <1>2 DEF Connect, Reachable, TypeOK
  <2>1. TypeOK'
    BY <1>2, <2>0 DEF Connect, TypeOK, Process
  <2>2. LockInv'
    BY <1>2 DEF Connect, TypeOK, LockInv, Holding
  <2>3. ServerInv'
    BY <1>2 DEF Connect, ServerInv
  <2>4. ClientInv'
    BY <1>2, <2>0 DEF Connect, TypeOK, ClientInv, Coming, Listening, Process
  <2>5. QED
    BY <2>1, <2>2, <2>3, <2>4
<1>3. CASE Guard(c)
  <2>1. TypeOK'
    BY <1>3 DEF Guard, TypeOK, Process
  <2>2. LockInv'
    BY <1>3 DEF Guard, TypeOK, LockInv, Holding, Process
  <2>3. ServerInv'
    BY <1>3 DEF Guard, ServerInv
  <2>4. ClientInv'
    BY <1>3 DEF Guard, TypeOK, ClientInv
  <2>5. QED
    BY <2>1, <2>2, <2>3, <2>4
<1>4. ASSUME NEW s \in Servers, Spawn(c, s) PROVE StartupInv'
  <2>1. TypeOK'
    BY <1>4 DEF Spawn, TypeOK, Alive
  <2>2. LockInv'
    BY <1>4 DEF Spawn, TypeOK, LockInv, Holding, Running
  <2>3. ServerInv'
    BY <1>4 DEF Spawn, TypeOK, ServerInv, Listening, Coming
  <2>4. ClientInv'
    BY <1>4 DEF Spawn, TypeOK, ClientInv, Coming
  <2>5. QED
    BY <2>1, <2>2, <2>3, <2>4
<1>5. CASE Finish(c)
  <2>1. TypeOK'
    BY <1>5 DEF Finish, TypeOK, Free
  <2>2. LockInv'
    BY <1>5 DEF Finish, TypeOK, LockInv, Holding, Free
  <2>3. ServerInv'
    BY <1>5 DEF Finish, ServerInv, Free
  <2>4. ClientInv'
    BY <1>5 DEF Finish, TypeOK, ClientInv
  <2>5. QED
    BY <2>1, <2>2, <2>3, <2>4
<1>6. CASE Fail(c)
  <2>1. TypeOK'
    BY <1>6 DEF Fail, TypeOK, Free
  <2>2. LockInv'
    BY <1>6 DEF Fail, TypeOK, LockInv, Holding, Free
  <2>3. ServerInv'
    BY <1>6 DEF Fail, ServerInv, Free
  <2>4. ClientInv'
    BY <1>6 DEF Fail, TypeOK, ClientInv
  <2>5. QED
    BY <2>1, <2>2, <2>3, <2>4
<1>7. QED
  BY <1>1, <1>2, <1>3, <1>4, <1>5, <1>6 DEF Asks

-----------------------------------------------------------------------------
(* A server starts.                                                           *)

LEMMA StartSteps ==
  ASSUME StartupInv, NEW s \in Servers, Starts(s)
  PROVE  StartupInv'
<1> USE ProcessAssumption DEF StartupInv, clientVars, serverVars, files, Goes, EndsBusy
<1>1. CASE TakeRunLock(s)
  <2>1. TypeOK'
    BY <1>1 DEF TakeRunLock, TypeOK, Process, Alive
  <2>2. LockInv'
    BY <1>1 DEF TakeRunLock, TypeOK, LockInv, Running, Process
  <2>3. ServerInv'
    BY <1>1 DEF TakeRunLock, TypeOK, ServerInv, Listening, Coming
  <2>4. ClientInv'
    BY <1>1 DEF TakeRunLock, TypeOK, ClientInv, Coming
  <2>5. QED
    BY <2>1, <2>2, <2>3, <2>4
<1>2. CASE Look(s)
  <2>1. TypeOK'
    BY <1>2 DEF Look, TypeOK, Free, Alive
  <2>2. LockInv'
    BY <1>2 DEF Look, TypeOK, LockInv, Running, Free
  <2>3. ServerInv'
    BY <1>2 DEF Look, TypeOK, ServerInv, Listening, Coming
  <2>4. ClientInv'
    BY <1>2 DEF Look, TypeOK, ClientInv, Coming
  <2>5. QED
    BY <2>1, <2>2, <2>3, <2>4
<1>3. CASE RemoveStale(s)
  <2>1. TypeOK'
    BY <1>3 DEF RemoveStale, TypeOK, Alive
  <2>2. LockInv'
    BY <1>3 DEF RemoveStale, TypeOK, LockInv, Running
  <2>3. ServerInv'
    BY <1>3 DEF RemoveStale, TypeOK, LockInv, ServerInv, Listening, Running, Coming
  <2>4. ClientInv'
    BY <1>3 DEF RemoveStale, TypeOK, ClientInv, Coming
  <2>5. QED
    BY <2>1, <2>2, <2>3, <2>4
<1>4. CASE Bind(s)
  <2>1. TypeOK'
    BY <1>4 DEF Bind, TypeOK, Free, Alive, Listening
  <2>2. LockInv'
    BY <1>4 DEF Bind, TypeOK, LockInv, Running, Free
  <2>3. ServerInv'
    BY <1>4 DEF Bind, TypeOK, LockInv, ServerInv, Listening, Running, Coming
  <2>4. ClientInv'
    BY <1>4 DEF Bind, TypeOK, ClientInv, Coming
  <2>5. QED
    BY <2>1, <2>2, <2>3, <2>4
<1>5. QED
  BY <1>1, <1>2, <1>3, <1>4 DEF Starts
-----------------------------------------------------------------------------
(* A server serves.                                                           *)

LEMMA ServeSteps ==
  ASSUME StartupInv, NEW s \in Servers, Serves(s)
  PROVE  StartupInv'
<1> USE ProcessAssumption DEF StartupInv, clientVars, serverVars, files
<1>1. ASSUME NEW c \in Clients, Accept(s, c) PROVE StartupInv'
  <2>1. TypeOK'
    BY <1>1 DEF Accept, Drop, To, TypeOK
  <2>2. LockInv'
    BY <1>1 DEF Accept, Drop, To, TypeOK, LockInv, Holding
  <2>3. ServerInv'
    BY <1>1 DEF Accept, ServerInv
  <2>4. ClientInv'
    BY <1>1 DEF Accept, Drop, To, TypeOK, ServerInv, ClientInv, Told
  <2>5. QED
    BY <2>1, <2>2, <2>3, <2>4
<1>2. ASSUME NEW c \in Clients, Dispatch(s, c) PROVE StartupInv'
  <2>1. TypeOK'
    BY <1>2 DEF Dispatch, TypeOK
  <2>2. LockInv'
    BY <1>2 DEF Dispatch, To, TypeOK, LockInv, Holding
  <2>3. ServerInv'
    BY <1>2 DEF Dispatch, TypeOK, ServerInv, Listening, Coming
  <2>4. ClientInv'
    BY <1>2 DEF Dispatch, To, TypeOK, ClientInv, Told
  <2>5. QED
    BY <2>1, <2>2, <2>3, <2>4
<1>3. ASSUME NEW c \in Clients, SessionEnds(s, c) PROVE StartupInv'
  <2>1. TypeOK'
    BY <1>3 DEF SessionEnds, TypeOK
  <2>2. LockInv'
    BY <1>3 DEF SessionEnds, LockInv
  <2>3. ServerInv'
    BY <1>3 DEF SessionEnds, TypeOK, ServerInv
  <2>4. ClientInv'
    BY <1>3 DEF SessionEnds, ClientInv
  <2>5. QED
    BY <2>1, <2>2, <2>3, <2>4
<1>4. CASE Tick(s)
  <2>0. /\ client' = [c \in Clients |->
             IF c \in accepted[s] /\ client[c] = "connected" /\ at[c] = s /\ s \in stopping
               THEN "dropped" ELSE client[c]]
        /\ server[s] = "listening"
        /\ \A c \in Clients : client'[c] # client[c] => why[s] = "asked"
    BY <1>4 DEF Tick, Retire, Drop, Kept, To, TypeOK, ServerInv
  <2>1. TypeOK'
    BY <1>4, <2>0 DEF Tick, Retire, Kept, To, TypeOK, Process, Alive, Listening, Goes
  <2>2. LockInv'
    BY <1>4, <2>0 DEF Tick, TypeOK, LockInv, Holding, Running, Goes, Process
  <2>3. ServerInv'
    BY <1>4, <2>0 DEF Tick, TypeOK, ServerInv, Listening, Coming, Told, Goes, Process
  <2>4. ClientInv'
    BY <1>4, <2>0 DEF Tick, TypeOK, ServerInv, ClientInv, Told, Coming, Goes
  <2>5. QED
    BY <2>1, <2>2, <2>3, <2>4
<1>5. QED
  BY <1>1, <1>2, <1>3, <1>4 DEF Serves

-----------------------------------------------------------------------------
(* A server ends.                                                             *)

LEMMA EndSteps ==
  ASSUME StartupInv, NEW s \in Servers, Ends(s)
  PROVE  StartupInv'
<1> USE ProcessAssumption DEF StartupInv, clientVars, serverVars, files, Goes
<1>1. CASE Leave(s)
  <2>1. TypeOK'
    BY <1>1 DEF Leave, TypeOK, Alive, Listening
  <2>2. LockInv'
    BY <1>1 DEF Leave, TypeOK, LockInv, Running
  <2>3. ServerInv'
    BY <1>1 DEF Leave, TypeOK, ServerInv, Listening, Coming, Told
  <2>4. ClientInv'
    BY <1>1 DEF Leave, TypeOK, ClientInv, Coming, Told
  <2>5. QED
    BY <2>1, <2>2, <2>3, <2>4
<1>2. CASE CloseServer(s)
  <2>1. TypeOK'
    BY <1>2 DEF CloseServer, Drop, To, TypeOK, Alive
  <2>2. LockInv'
    BY <1>2 DEF CloseServer, Drop, To, TypeOK, LockInv, Holding, Running
  <2>3. ServerInv'
    BY <1>2 DEF CloseServer, TypeOK, ServerInv, Listening, Coming
  <2>4. ClientInv'
    BY <1>2 DEF CloseServer, Drop, To, TypeOK, LockInv, ServerInv, ClientInv, Holding, Coming, Told
  <2>5. QED
    BY <2>1, <2>2, <2>3, <2>4
<1>3. CASE Unlink(s)
  <2>1. TypeOK'
    BY <1>3 DEF Unlink, Free, TypeOK, Alive
  <2>2. LockInv'
    BY <1>3 DEF Unlink, TypeOK, LockInv, Running
  <2>3. ServerInv'
    BY <1>3 DEF Unlink, Free, TypeOK, LockInv, ServerInv, Listening, Coming, Running
  <2>4. ClientInv'
    BY <1>3 DEF Unlink, TypeOK, ClientInv, Coming
  <2>5. QED
    BY <2>1, <2>2, <2>3, <2>4
<1>4. CASE Exit(s)
  <2>1. TypeOK'
    BY <1>4 DEF Exit, Free, TypeOK
  <2>2. LockInv'
    BY <1>4 DEF Exit, Free, TypeOK, LockInv, Running
  <2>3. ServerInv'
    BY <1>4 DEF Exit, Free, TypeOK, ServerInv, Listening, Coming
  <2>4. ClientInv'
    BY <1>4 DEF Exit, TypeOK, ClientInv, Coming
  <2>5. QED
    BY <2>1, <2>2, <2>3, <2>4
<1>5. CASE Killed(s)
  <2>1. TypeOK'
    BY <1>5 DEF Killed, Drop, To, Free, TypeOK
  <2>2. LockInv'
    BY <1>5 DEF Killed, Drop, To, Free, TypeOK, LockInv, Holding, Running
  <2>3. ServerInv'
    BY <1>5 DEF Killed, Free, TypeOK, ServerInv, Listening, Coming
  <2>4. ClientInv'
    BY <1>5 DEF Killed, Drop, To, TypeOK, ClientInv, Coming, Told
  <2>5. QED
    BY <2>1, <2>2, <2>3, <2>4
<1>6. QED
  BY <1>1, <1>2, <1>3, <1>4, <1>5 DEF Ends

-----------------------------------------------------------------------------

LEMMA StartupNext == StartupInv /\ [Next]_vars => StartupInv'
<1> SUFFICES ASSUME StartupInv, [Next]_vars PROVE StartupInv'
  OBVIOUS
<1>1. ASSUME NEW c \in Clients, Asks(c) PROVE StartupInv'
  BY <1>1, ClientSteps
<1>2. ASSUME NEW s \in Servers, Starts(s) \/ Serves(s) \/ Ends(s) PROVE StartupInv'
  BY <1>2, StartSteps, ServeSteps, EndSteps
<1>3. CASE UNCHANGED vars
  <2>1. TypeOK'
    BY <1>3 DEF StartupInv, vars, clientVars, serverVars, files, TypeOK
  <2>2. LockInv' /\ ServerInv' /\ ClientInv'
    BY <1>3 DEF StartupInv, vars, clientVars, serverVars, files, LockInv, ServerInv, ClientInv
  <2>3. QED
    BY <2>1, <2>2 DEF StartupInv
<1>4. QED
  BY <1>1, <1>2, <1>3 DEF Next

(* The two lock files do what they are for: no two servers listen, sessions   *)
(* are where the socket leads, and an idle server closes nobody's connection. *)
LEMMA StartupInvSafe == StartupInv => StartupSafe
<1> SUFFICES ASSUME StartupInv PROVE StartupSafe
  OBVIOUS
<1>1. SessionsReachable
  BY DEF StartupInv, LockInv, ServerInv, SessionsReachable, Listening, Running
<1>2. IdleStopDropsNobody
  BY DEF StartupInv, ClientInv, IdleStopDropsNobody, Told
<1>3. QED
  BY <1>1, <1>2 DEF StartupSafe

(* Every value has its type, with however many clients and servers.           *)
THEOREM StartupTypes == Spec => []TypeOK
<1>1. StartupInv => TypeOK
  BY DEF StartupInv
<1>2. QED
  BY <1>1, StartupInit, StartupNext, PTL DEF Spec

(* At most one server of a socket listens, its sessions can be reached by the *)
(* socket, and one that stops because nothing is left to do drops no client   *)
(* command, with however many clients and servers.                            *)
THEOREM StartupIsSafe == Spec => []StartupSafe
  BY StartupInit, StartupNext, StartupInvSafe, PTL DEF Spec

-----------------------------------------------------------------------------
(* The output of a session, those who follow it, and the monitors of its log    *)

(* What may be queued for a connection *)
Entry == [type : {"subscribed"}]
         \cup [type : {"data"}, off : Nat, content : Seq(Nat)]
         \cup [type : {"replay"}, off : Nat, to : Nat, version : Nat]
         \cup [type : {"exit"}, off : Nat]

OutputTyped ==
  /\ app \in {"none", "runs", "removed", "lost"}
  /\ process \in {"none", "runs", "exited", "stopped"}
  /\ reader \in {"none", "reads", "holds", "done", "cancelled"}
  /\ end \in Nat /\ held \in 0 .. Chunk /\ taken \in Nat /\ written \in Nat
  /\ end + held <= taken /\ taken <= written /\ written <= MaxOutput
  /\ held > 0 <=> reader = "holds"
  /\ stores \in Seq(Output!Store) /\ Len(stores) >= 1
  /\ chan \in [Followers -> {"new", "open", "closed", "gone"}]
  /\ kind \in [Followers -> {"none", "launch", "uid", "all"}]
  /\ from \in [Followers -> 0 .. MaxOutput]
  /\ queue \in [Followers -> Seq(Entry)]
  /\ observer \in [Followers -> {"none", "live", "completed"}]
  /\ bytes \in [Followers -> Seq(Nat)]
  /\ exits \in [Followers -> 0 .. 1]

(* The reader takes output while the session runs only; the final status, written as the
   session is removed, counts all of it *)
SessionInv ==
  /\ reader \in {"reads", "holds"} => app = "runs"
  /\ app = "none" => end = 0 /\ reader = "none"
  /\ IF app = "removed" THEN final = end ELSE final = Nil

(* The buffer that is written to has the last bytes *)
RingInv == \A z \in Output!First .. (end - 1) : stores[Len(stores)][z % Ring] = z

(* What is queued stands for the bytes from x to y: an entry of output has them, a replay
   finds them in the buffer it keeps, and the end is told where the output ends.  Of the
   state it takes the buffers, the end and the session. *)
Fits(e, x, y, kept, last, session) ==
  \/ e = Output!Ack /\ x = y
  \/ e = Output!Data(x, [i \in 1 .. (y - x) |-> x + i - 1]) /\ x <= y
  \/ /\ x < y
     /\ \E v \in 1 .. Len(kept) :
          e = Output!Replay(x, y, v) /\ \A z \in x .. (y - 1) : kept[v][z % Ring] = z
  \/ e = Output!ExitAt(x) /\ x = y /\ x = last /\ session = "removed"

(* A connection that gets what comes next *)
Fed(c) == observer[c] = "live" \/ (app = "none" /\ chan[c] = "open")

(* What is queued goes on where the other end is, without a gap, and up to the end of the
   output if the connection gets what comes next *)
Path(c, p) ==
  /\ p \in [1 .. (Len(queue[c]) + 1) -> Nat]
  /\ p[1] = from[c] + Len(bytes[c])
  /\ Fed(c) => p[Len(queue[c]) + 1] = end
  /\ \A i \in 1 .. Len(queue[c]) : Fits(queue[c][i], p[i], p[i + 1], stores, end, app)

HasPath(c) == \E p \in [1 .. (Len(queue[c]) + 1) -> Nat] : Path(c, p)

ChannelInv(c) ==
  /\ bytes[c] = [i \in 1 .. Len(bytes[c]) |-> from[c] + i - 1]
  /\ exits[c] > 0 => app = "removed" /\ queue[c] = <<>> /\ from[c] + Len(bytes[c]) = end
  /\ \A i \in 1 .. Len(queue[c]) : queue[c][i].type = "exit" => i = Len(queue[c])
  /\ chan[c] = "new" =>
       from[c] = 0 /\ bytes[c] = <<>> /\ queue[c] = <<>> /\ exits[c] = 0 /\ observer[c] = "none"
  /\ chan[c] = "open" => kind[c] # "none" /\ (app = "runs" => observer[c] \in {"live", "completed"})
  /\ HasPath(c)

ChannelsInv == \A c \in Followers : ChannelInv(c)

(* A monitor that has read the final status looks at the whole log after it; the daemon no
   longer lists a session that has one *)
MonitorsInv ==
  /\ mon \in [LogMonitors -> {"idle", "probe", "absent", "failed", "length", "read", "decide",
                              "exit", "gone", "lost"}]
  /\ monDone \in [LogMonitors -> BOOLEAN]
  /\ monLength \in [LogMonitors -> Nat] /\ monOffset \in [LogMonitors -> Nat]
  /\ \A m \in LogMonitors :
       /\ monOffset[m] <= monLength[m] /\ monLength[m] <= end
       /\ mon[m] # "gone"
       /\ mon[m] = "absent" => app = "removed"
       /\ monDone[m] => app = "removed"
       /\ mon[m] \in {"read", "decide"} /\ monDone[m] => monLength[m] = end
       /\ mon[m] = "exit" => app = "removed" /\ monOffset[m] = end

OutputInv == OutputTyped /\ SessionInv /\ RingInv /\ ChannelsInv /\ MonitorsInv

-----------------------------------------------------------------------------
(* Slots of the ring: bytes less than a ring apart are in slots of their own *)
LEMMA DivMod ==
  ASSUME NEW p \in Nat
  PROVE  p = (Ring * (p \div Ring)) + (p % Ring) /\ p \div Ring \in Nat /\ p % Ring \in 0 .. (Ring - 1)
BY OutputAssumption

LEMMA Multiples ==
  ASSUME NEW a \in Nat, NEW b \in Nat, Ring * a < (Ring * b) + Ring
  PROVE  a <= b
<1>1. SUFFICES ASSUME a >= b + 1 PROVE FALSE
  OBVIOUS
<1>2. Ring * a >= Ring * (b + 1)
  BY <1>1, OutputAssumption
<1>3. QED
  BY <1>2, OutputAssumption

LEMMA SameSlot ==
  ASSUME NEW p \in Nat, NEW q \in Nat, p % Ring = q % Ring, p - q < Ring, q - p < Ring
  PROVE  p = q
<1>1. PICK a \in Nat, b \in Nat : p = (Ring * a) + (p % Ring) /\ q = (Ring * b) + (q % Ring)
  BY DivMod
<1>2. Ring * a \in Nat /\ Ring * b \in Nat /\ p % Ring \in Nat
  BY OutputAssumption, DivMod
<1>3. Ring * a < (Ring * b) + Ring /\ Ring * b < (Ring * a) + Ring
  BY <1>1, <1>2, OutputAssumption
<1>4. a = b
  BY <1>3, Multiples
<1>5. QED
  BY <1>1, <1>4

LEMMA AppendIs ==
  ASSUME NEW S, NEW q \in Seq(S), NEW e \in S
  PROVE  /\ q \o <<e>> \in Seq(S) /\ Len(q \o <<e>>) = Len(q) + 1
         /\ \A i \in 1 .. Len(q) : (q \o <<e>>)[i] = q[i]
         /\ (q \o <<e>>)[Len(q) + 1] = e
BY ConcatProperties

(* A buffer after n bytes were written to it *)
LEMMA OverwriteKeeps ==
  ASSUME OutputTyped, NEW n \in 1 .. Chunk, end + n <= MaxOutput,
         NEW store \in Output!Store,
         \A z \in Output!First .. (end - 1) : store[z % Ring] = z
  PROVE  /\ Output!Overwrite(store, n) \in Output!Store
         /\ \A z \in 0 .. (end + n - 1) : z >= end + n - Ring => Output!Overwrite(store, n)[z % Ring] = z
<1> DEFINE Hit(slot) == \E i \in 0 .. (n - 1) : (end + i) % Ring = slot
           I(slot) == CHOOSE i \in 0 .. (n - 1) : (end + i) % Ring = slot
           W == Output!Overwrite(store, n)
<1>0. /\ Ring \in Nat \ {0} /\ Chunk \in 1 .. Ring /\ end \in Nat /\ n \in Nat /\ n <= Ring
      /\ MaxOutput \in Nat
  BY OutputAssumption DEF OutputTyped
<1>1. \A slot : Hit(slot) => I(slot) \in 0 .. (n - 1) /\ (end + I(slot)) % Ring = slot
  OBVIOUS
<1>2. W = [slot \in 0 .. (Ring - 1) |-> IF Hit(slot) THEN end + I(slot) ELSE store[slot]]
  BY DEF Output!Overwrite
<1> HIDE DEF Hit, I, W
<1>3. W \in Output!Store
  <2>1. ASSUME NEW slot \in 0 .. (Ring - 1), Hit(slot)
        PROVE  end + I(slot) \in 0 .. (MaxOutput - 1)
    BY <1>0, <1>1, <2>1
  <2>2. QED
    BY <1>2, <2>1 DEF Output!Store, Output!Positions
<1>4. ASSUME NEW z \in 0 .. (end + n - 1), z >= end + n - Ring
      PROVE  W[z % Ring] = z
  <2>1. z \in Nat /\ z % Ring \in 0 .. (Ring - 1)
    BY DivMod
  <2>2. CASE z >= end
    <3>1. z - end \in 0 .. (n - 1) /\ end + (z - end) = z
      BY <1>0, <2>2
    <3>2. Hit(z % Ring)
      BY <3>1 DEF Hit
    <3>3. I(z % Ring) \in 0 .. (n - 1) /\ (end + I(z % Ring)) % Ring = z % Ring
      BY <1>1, <3>2
    <3>4. /\ end + I(z % Ring) \in Nat
          /\ (end + I(z % Ring)) - z < Ring /\ z - (end + I(z % Ring)) < Ring
      BY <1>0, <2>2, <3>3
    <3>5. end + I(z % Ring) = z
      BY <2>1, <3>3, <3>4, SameSlot
    <3>6. QED
      BY <1>2, <2>1, <3>2, <3>5
  <2>3. CASE z < end
    <3>1. ~Hit(z % Ring)
      <4>1. SUFFICES ASSUME NEW i \in 0 .. (n - 1), (end + i) % Ring = z % Ring PROVE FALSE
        BY DEF Hit
      <4>2. end + i \in Nat /\ (end + i) - z < Ring /\ z - (end + i) < Ring
        BY <1>0, <1>4, <2>3
      <4>3. end + i = z
        BY <2>1, <4>1, <4>2, SameSlot
      <4>4. QED
        BY <1>0, <2>3, <4>3
    <3>2. z \in Output!First .. (end - 1)
      BY <1>0, <1>4, <2>3 DEF Output!First
    <3>3. QED
      BY <1>2, <2>1, <3>1, <3>2
  <2>4. QED
    BY <1>0, <2>2, <2>3
<1>5. QED
  BY <1>3, <1>4 DEF W

-----------------------------------------------------------------------------
(* What the connections do with what is queued. *)

(* What fits an interval still does after a step that leaves the end as it is once the
   session is removed, and the buffers that are replayed *)
LEMMA StillFits ==
  ASSUME NEW kept, NEW last, NEW session, NEW kept2, NEW last2, NEW session2,
         session = "removed" => session2 = "removed" /\ last2 = last,
         Len(kept) \in Nat, Len(kept2) \in Nat, Len(kept) <= Len(kept2),
         NEW e, NEW x, NEW y, Fits(e, x, y, kept, last, session),
         \A v \in 1 .. Len(kept) : e.type = "replay" /\ e.version = v => kept2[v] = kept[v]
  PROVE  Fits(e, x, y, kept2, last2, session2)
<1>1. CASE e = Output!Ack /\ x = y
  BY <1>1 DEF Fits
<1>2. CASE e = Output!Data(x, [i \in 1 .. (y - x) |-> x + i - 1]) /\ x <= y
  BY <1>2 DEF Fits
<1>3. ASSUME x < y, NEW v \in 1 .. Len(kept), e = Output!Replay(x, y, v),
             \A z \in x .. (y - 1) : kept[v][z % Ring] = z
      PROVE  Fits(e, x, y, kept2, last2, session2)
  <2>1. e.type = "replay" /\ e.version = v
    BY <1>3 DEF Output!Replay
  <2>2. kept2[v] = kept[v]
    BY <2>1
  <2>3. v \in 1 .. Len(kept2)
    OBVIOUS
  <2>4. QED
    BY <1>3, <2>2, <2>3 DEF Fits
<1>4. CASE e = Output!ExitAt(x) /\ x = y /\ x = last /\ session = "removed"
  BY <1>4 DEF Fits
<1>5. QED
  BY <1>1, <1>2, <1>3, <1>4 DEF Fits

LEMMA ExitFits ==
  ASSUME NEW kept, NEW last, NEW session, NEW x, NEW y, NEW e,
         Fits(e, x, y, kept, last, session), e.type = "exit"
  PROVE  session = "removed"
BY DEF Fits, Output!Ack, Output!Data, Output!Replay, Output!ExitAt

LEMMA ReplayFits ==
  ASSUME NEW kept, NEW last, NEW session, NEW x \in Nat, NEW y \in Nat, NEW e,
         Fits(e, x, y, kept, last, session), e.type = "replay"
  PROVE  e.to - e.off \in Nat
<1>1. x < y /\ \E v \in 1 .. Len(kept) : e = Output!Replay(x, y, v)
  BY DEF Fits, Output!Ack, Output!Data, Output!ExitAt
<1>2. e.off = x /\ e.to = y
  BY <1>1 DEF Output!Replay
<1>3. QED
  BY <1>1, <1>2

(* The path of a connection after a step that does not change what is queued *)
LEMMA PathFits ==
  ASSUME OutputTyped, NEW c \in Followers, NEW p, Path(c, p),
         app = "removed" => app' = "removed" /\ end' = end,
         Len(stores') \in Nat, Len(stores) <= Len(stores'),
         \A i \in 1 .. Len(queue[c]) : \A v \in 1 .. Len(stores) :
           queue[c][i].type = "replay" /\ queue[c][i].version = v => stores'[v] = stores[v]
  PROVE  \A i \in 1 .. Len(queue[c]) : Fits(queue[c][i], p[i], p[i + 1], stores', end', app')
<1>1. Len(stores) \in Nat
  BY DEF OutputTyped
<1>2. TAKE i \in 1 .. Len(queue[c])
<1>3. Fits(queue[c][i], p[i], p[i + 1], stores, end, app)
  BY DEF Path
<1>4. QED
  BY <1>1, <1>3, StillFits

(* A connection that is told nothing and delivers nothing *)
LEMMA ChannelStays ==
  ASSUME OutputTyped, NEW c \in Followers, ChannelInv(c),
         app = "removed" => app' = "removed" /\ end' = end,
         Len(stores') \in Nat, Len(stores) <= Len(stores'),
         \A i \in 1 .. Len(queue[c]) : \A v \in 1 .. Len(stores) :
           queue[c][i].type = "replay" /\ queue[c][i].version = v => stores'[v] = stores[v],
         queue'[c] = queue[c], bytes'[c] = bytes[c], from'[c] = from[c], exits'[c] = exits[c],
         kind'[c] = kind[c],
         chan'[c] = chan[c] \/ chan'[c] \in {"closed", "gone"},
         chan'[c] = "new" => observer'[c] = "none",
         chan'[c] = "open" /\ app' = "runs" => observer'[c] \in {"live", "completed"},
         Fed(c)' => Fed(c) /\ end' = end
  PROVE  ChannelInv(c)'
<1>1. PICK p \in [1 .. (Len(queue[c]) + 1) -> Nat] : Path(c, p)
  BY DEF ChannelInv, HasPath
<1>2. \A i \in 1 .. Len(queue[c]) : Fits(queue[c][i], p[i], p[i + 1], stores', end', app')
  BY <1>1, PathFits
<1>3. Path(c, p)'
  BY <1>1, <1>2 DEF Path
<1>4. HasPath(c)'
  BY <1>3 DEF HasPath, Path
<1>5. QED
  BY <1>4 DEF ChannelInv

(* A connection that has an entry queued *)
LEMMA ChannelAppends ==
  ASSUME OutputTyped, NEW c \in Followers, ChannelInv(c), Fed(c),
         app # "removed",
         Len(stores') \in Nat, Len(stores) <= Len(stores'),
         \A i \in 1 .. Len(queue[c]) : \A v \in 1 .. Len(stores) :
           queue[c][i].type = "replay" /\ queue[c][i].version = v => stores'[v] = stores[v],
         end' \in Nat,
         NEW e \in Entry, Fits(e, end, end', stores', end', app'),
         queue'[c] = queue[c] \o <<e>>, bytes'[c] = bytes[c], from'[c] = from[c],
         exits'[c] = exits[c], kind'[c] = kind[c], chan'[c] = chan[c], chan[c] = "open",
         app' = "runs" => observer'[c] \in {"live", "completed"}
  PROVE  ChannelInv(c)'
<1>0. queue[c] \in Seq(Entry) /\ Len(queue[c]) \in Nat /\ end \in Nat /\ Len(stores) \in Nat
  BY DEF OutputTyped
<1>1. PICK n \in Nat, z \in Nat : n = Len(queue[c]) /\ z = end'
  BY <1>0
<1>2. PICK p \in [1 .. (n + 1) -> Nat] : Path(c, p)
  BY <1>1 DEF ChannelInv, HasPath
<1> DEFINE q == [i \in 1 .. (n + 2) |-> IF i <= n + 1 THEN p[i] ELSE z]
<1>3. /\ Len(queue'[c]) = n + 1 /\ queue'[c][n + 1] = e
      /\ \A i \in 1 .. n : queue'[c][i] = queue[c][i]
  BY <1>0, <1>1, AppendIs
<1>4. \A i \in 1 .. n : Fits(queue[c][i], p[i], p[i + 1], stores', end', app')
  BY <1>1, <1>2, PathFits
<1>5. /\ q \in [1 .. (n + 2) -> Nat] /\ q[1] = p[1] /\ q[n + 1] = p[n + 1] /\ q[n + 2] = z
      /\ \A i \in 1 .. n : q[i] = p[i] /\ q[i + 1] = p[i + 1]
  <2>1. q \in [1 .. (n + 2) -> Nat] /\ q[n + 2] = z
    BY <1>1, <1>2
  <2>2. \A i \in 1 .. (n + 1) : q[i] = p[i]
    BY <1>1
  <2>3. QED
    BY <1>1, <2>1, <2>2
<1>6. p[1] = from[c] + Len(bytes[c]) /\ p[n + 1] = end
  BY <1>1, <1>2 DEF Path
<1>7. \A i \in 1 .. (n + 1) : Fits(queue'[c][i], q[i], q[i + 1], stores', end', app')
  <2>1. TAKE i \in 1 .. (n + 1)
  <2>2. CASE i = n + 1
    <3>1. q[i] = end /\ q[i + 1] = end' /\ queue'[c][i] = e
      BY <1>1, <1>3, <1>5, <1>6, <2>2
    <3>2. QED
      BY <3>1
  <2>3. CASE i \in 1 .. n
    <3>1. q[i] = p[i] /\ q[i + 1] = p[i + 1] /\ queue'[c][i] = queue[c][i]
      BY <1>3, <1>5, <2>3
    <3>2. QED
      BY <1>4, <2>3, <3>1
  <2>4. QED
    BY <1>1, <2>2, <2>3
<1> HIDE DEF q
<1>8. Path(c, q)'
  <2>1. Len(queue'[c]) + 1 = n + 2
    BY <1>1, <1>3
  <2>2. q[1] = from'[c] + Len(bytes'[c]) /\ q[Len(queue'[c]) + 1] = end'
    BY <1>1, <1>5, <1>6, <2>1
  <2>3. q \in [1 .. (Len(queue'[c]) + 1) -> Nat]
    BY <1>5, <2>1
  <2>4. \A i \in 1 .. Len(queue'[c]) : Fits(queue'[c][i], q[i], q[i + 1], stores', end', app')
    BY <1>3, <1>7
  <2>5. QED
    BY <2>2, <2>3, <2>4 DEF Path
<1>9. HasPath(c)'
  BY <1>8 DEF HasPath, Path
<1>10. \A i \in 1 .. n : queue[c][i].type # "exit"
  <2>1. TAKE i \in 1 .. n
  <2>2. Fits(queue[c][i], p[i], p[i + 1], stores, end, app)
    BY <1>1, <1>2 DEF Path
  <2>3. queue[c][i].type = "exit" => app = "removed"
    BY <2>2, ExitFits
  <2>4. QED
    BY <2>3
<1>11. \A i \in 1 .. Len(queue'[c]) : queue'[c][i].type = "exit" => i = Len(queue'[c])
  <2>1. TAKE i \in 1 .. Len(queue'[c])
  <2>2. CASE i = n + 1
    BY <1>3, <2>2
  <2>3. CASE i \in 1 .. n
    BY <1>3, <1>10, <2>3
  <2>4. QED
    BY <1>1, <1>3, <2>2, <2>3
<1>12. ~(exits'[c] > 0)
  BY DEF ChannelInv
<1>13. bytes'[c] = [i \in 1 .. Len(bytes'[c]) |-> from'[c] + i - 1]
  BY DEF ChannelInv
<1>14. chan'[c] = "open" /\ kind'[c] # "none"
  BY DEF ChannelInv
<1>15. QED
  BY <1>9, <1>11, <1>12, <1>13, <1>14 DEF ChannelInv

(* A connection that is gone *)
LEMMA ChannelGone ==
  ASSUME OutputTyped, NEW c \in Followers, ChannelInv(c),
         app = "removed" => app' = "removed" /\ end' = end,
         queue'[c] = <<>>, bytes'[c] = bytes[c], from'[c] = from[c], exits'[c] = exits[c],
         chan'[c] = "gone", observer'[c] = "none"
  PROVE  ChannelInv(c)'
<1>1. from[c] + Len(bytes[c]) \in Nat
  BY OutputAssumption DEF OutputTyped
<1>2. PICK a \in Nat : a = from[c] + Len(bytes[c])
  BY <1>1
<1> DEFINE p == [i \in 1 .. 1 |-> a]
<1>3. p \in [1 .. 1 -> Nat] /\ p[1] = a
  BY <1>2
<1>4. Len(queue'[c]) = 0 /\ ~Fed(c)'
  BY DEF Fed
<1> HIDE DEF p
<1>5. Path(c, p)'
  BY <1>2, <1>3, <1>4 DEF Path
<1>6. HasPath(c)'
  BY <1>3, <1>4, <1>5 DEF HasPath
<1>7. QED
  BY <1>4, <1>6 DEF ChannelInv

-----------------------------------------------------------------------------
(* The steps. *)

LEMMA OutputInit == Output!Init => OutputInv
<1> SUFFICES ASSUME Output!Init PROVE OutputInv
  OBVIOUS
<1> USE OutputAssumption
<1>1. OutputTyped
  <2>1. [i \in 0 .. (Ring - 1) |-> Nil] \in Output!Store
    BY DEF Output!Store
  <2>2. stores \in Seq(Output!Store) /\ Len(stores) = 1
    BY <2>1 DEF Output!Init
  <2>3. QED
    BY <2>2 DEF Output!Init, OutputTyped
<1>2. SessionInv /\ MonitorsInv
  BY DEF Output!Init, SessionInv, MonitorsInv
<1>3. RingInv
  BY DEF Output!Init, RingInv, Output!First
<1>4. ASSUME NEW c \in Followers PROVE ChannelInv(c)
  <2>1. /\ from[c] = 0 /\ queue[c] = <<>> /\ Len(queue[c]) = 0 /\ bytes[c] = <<>>
        /\ Len(bytes[c]) = 0 /\ exits[c] = 0 /\ chan[c] = "new" /\ observer[c] = "none"
    BY DEF Output!Init
  <2> DEFINE p == [i \in 1 .. 1 |-> 0]
  <2>2. p \in [1 .. 1 -> Nat] /\ p[1] = 0
    OBVIOUS
  <2> HIDE DEF p
  <2>3. Path(c, p)
    BY <2>1, <2>2 DEF Path, Fed
  <2>4. HasPath(c)
    BY <2>1, <2>2, <2>3 DEF HasPath
  <2>5. bytes[c] = [i \in 1 .. Len(bytes[c]) |-> from[c] + i - 1]
    BY <2>1
  <2>6. QED
    BY <2>1, <2>4, <2>5 DEF ChannelInv
<1>5. QED
  BY <1>1, <1>2, <1>3, <1>4 DEF OutputInv, ChannelsInv

(* The child, its pipe and a read of it, and kill-server: of what is kept and queued they
   change nothing *)
LEMMA QuietKeeps ==
  ASSUME OutputInv,
         UNCHANGED <<app, end, stores, final, chan, kind, from, queue, observer, bytes, exits,
                     mon, monDone, monLength, monOffset>>,
         OutputTyped',
         reader' \in {"reads", "holds"} => reader \in {"reads", "holds"},
         reader = "none" => reader' \in {"none", "cancelled"},
         app = "none" => reader' = "none"
  PROVE  OutputInv'
<1>1. SessionInv'
  BY DEF OutputInv, SessionInv
<1>2. RingInv' /\ MonitorsInv'
  BY DEF OutputInv, RingInv, MonitorsInv, Output!First
<1>3. ChannelsInv'
  BY DEF OutputInv, ChannelsInv, ChannelInv, HasPath, Path, Fed
<1>4. QED
  BY <1>1, <1>2, <1>3 DEF OutputInv

LEMMA ChildKeeps ==
  ASSUME OutputInv,
         \/ Output!KillServer \/ Output!Write \/ Output!ChildExits \/ Output!PipeCloses
         \/ Output!Read \/ Output!ReadFails \/ Output!WaitFails
  PROVE  OutputInv'
<1> USE OutputAssumption
<1> USE DEF Output!sessionVars, Output!outputVars, Output!channelVars, Output!monVars
<1>1. CASE Output!KillServer
  <2>1. OutputTyped'
    BY <1>1 DEF Output!KillServer, OutputInv, OutputTyped
  <2>2. QED
    BY <1>1, <2>1, QuietKeeps DEF Output!KillServer, OutputInv, SessionInv
<1>2. CASE Output!Write
  <2>1. OutputTyped'
    BY <1>2 DEF Output!Write, OutputInv, OutputTyped
  <2>2. QED
    BY <1>2, <2>1, QuietKeeps DEF Output!Write, OutputInv, SessionInv
<1>3. CASE Output!ChildExits
  <2>1. OutputTyped'
    BY <1>3 DEF Output!ChildExits, OutputInv, OutputTyped
  <2>2. QED
    BY <1>3, <2>1, QuietKeeps DEF Output!ChildExits, OutputInv, SessionInv
<1>4. CASE Output!PipeCloses
  <2>1. OutputTyped'
    BY <1>4 DEF Output!PipeCloses, OutputInv, OutputTyped
  <2>2. QED
    BY <1>4, <2>1, QuietKeeps DEF Output!PipeCloses, OutputInv, SessionInv
<1>5. CASE Output!Read
  <2>1. OutputTyped'
    BY <1>5 DEF Output!Read, Output!Least, OutputInv, OutputTyped
  <2>2. QED
    BY <1>5, <2>1, QuietKeeps DEF Output!Read, OutputInv, SessionInv
<1>6. CASE Output!ReadFails
  <2>1. OutputTyped'
    BY <1>6 DEF Output!ReadFails, OutputInv, OutputTyped
  <2>2. QED
    BY <1>6, <2>1, QuietKeeps DEF Output!ReadFails, OutputInv, SessionInv
<1>7. CASE Output!WaitFails
  <2>1. OutputTyped'
    BY <1>7 DEF Output!WaitFails, OutputInv, OutputTyped
  <2>2. QED
    BY <1>7, <2>1, QuietKeeps DEF Output!WaitFails, OutputInv, SessionInv
<1>8. QED
  BY <1>1, <1>2, <1>3, <1>4, <1>5, <1>6, <1>7

(* The end of the session: everyone who gets its output is told where it ends *)
LEMMA EndedKeeps ==
  ASSUME OutputInv, app = "runs", Output!Ended, process' \in {"exited", "stopped"},
         UNCHANGED <<written, taken, end, stores, kind, from, bytes, exits,
                     mon, monDone, monLength, monOffset>>
  PROVE  OutputInv'
<1>1. /\ app' = "removed" /\ final' = end /\ held' = 0
      /\ reader' \in {"done", "cancelled"}
  BY DEF Output!Ended
<1>2. ASSUME NEW c \in Followers
      PROVE  /\ queue'[c] = Output!PumpOf(c, end).queue
             /\ observer'[c] = Output!PumpOf(c, end).observer
             /\ chan'[c] = Output!PumpOf(c, end).chan
  BY DEF Output!Ended
<1>3. ASSUME NEW c \in Followers
      PROVE  /\ queue'[c] \in Seq(Entry)
             /\ observer'[c] \in {"none", "live", "completed"}
             /\ chan'[c] \in {"new", "open", "closed", "gone"}
             /\ ChannelInv(c)'
  <2>0. OutputTyped /\ ChannelInv(c) /\ Len(stores) \in Nat /\ queue[c] \in Seq(Entry) /\ end \in Nat
    BY DEF OutputInv, OutputTyped, ChannelsInv
  <2>1. CASE Output!Told(c) /\ Output!Room(c)
    <3>1. /\ queue'[c] = queue[c] \o <<Output!ExitAt(end)>>
          /\ observer'[c] = "completed" /\ chan'[c] = chan[c]
      BY <1>2, <2>1 DEF Output!PumpOf
    <3>2. chan[c] = "open" /\ Fed(c)
      BY <2>0, <2>1 DEF Output!Told, Output!Live, Output!Room, ChannelInv, Fed
    <3>3. Output!ExitAt(end) \in Entry
      BY <2>0 DEF Entry, Output!ExitAt
    <3>4. Fits(Output!ExitAt(end), end, end', stores', end', app')
      BY <1>1 DEF Fits
    <3>5. ChannelInv(c)'
      BY <1>1, <2>0, <3>1, <3>2, <3>3, <3>4, ChannelAppends
    <3>6. QED
      BY <2>0, <3>1, <3>2, <3>3, <3>5, AppendIs
  <2>2. CASE ~(Output!Told(c) /\ Output!Room(c))
    <3>1. /\ queue'[c] = queue[c] /\ observer'[c] = observer[c]
          /\ chan'[c] = chan[c] \/ chan'[c] = "closed"
      BY <1>2, <2>2 DEF Output!PumpOf
    <3>2. ~Fed(c)' \/ Fed(c)
      BY <1>1, <3>1 DEF Fed
    <3>3. ChannelInv(c)'
      <4>1. chan'[c] = "new" => observer'[c] = "none"
        BY <2>0, <3>1 DEF ChannelInv
      <4>2. QED
        BY <1>1, <2>0, <3>1, <3>2, <4>1, ChannelStays
    <3>4. QED
      BY <2>0, <3>1, <3>3 DEF OutputTyped
  <2>3. QED
    BY <2>1, <2>2
<1>4. /\ queue' \in [Followers -> Seq(Entry)]
      /\ observer' \in [Followers -> {"none", "live", "completed"}]
      /\ chan' \in [Followers -> {"new", "open", "closed", "gone"}]
  <2>1. /\ queue' = [c \in Followers |-> Output!PumpOf(c, end).queue]
        /\ observer' = [c \in Followers |-> Output!PumpOf(c, end).observer]
        /\ chan' = [c \in Followers |-> Output!PumpOf(c, end).chan]
    BY DEF Output!Ended
  <2>2. QED
    BY <1>2, <1>3, <2>1
<1>5. OutputTyped'
  BY <1>1, <1>4, OutputAssumption DEF OutputInv, OutputTyped
<1>6. SessionInv' /\ RingInv' /\ MonitorsInv'
  BY <1>1 DEF OutputInv, SessionInv, RingInv, MonitorsInv, Output!First
<1>7. QED
  BY <1>3, <1>5, <1>6 DEF OutputInv, ChannelsInv

(* A new connection, followed from an offset the buffer still has *)
LEMMA Subscribed ==
  ASSUME OutputInv, NEW c \in Followers, NEW off \in Output!First .. end,
         chan[c] = "new", app \in {"none", "runs"},
         UNCHANGED <<app, end, stores>>,
         chan'[c] = "open", kind'[c] # "none", from'[c] = off,
         observer'[c] = IF app = "runs" THEN "live" ELSE "none",
         queue'[c] = <<Output!Ack>> \o
           (IF off < end THEN <<Output!Replay(off, end, Len(stores))>> ELSE <<>>),
         bytes'[c] = bytes[c], exits'[c] = exits[c]
  PROVE  off \in 0 .. MaxOutput /\ queue'[c] \in Seq(Entry) /\ ChannelInv(c)'
<1>0. /\ OutputTyped /\ ChannelInv(c) /\ RingInv /\ end \in Nat /\ Len(stores) \in Nat
      /\ Len(stores) \in 1 .. Len(stores) /\ end <= MaxOutput
  BY OutputAssumption DEF OutputInv, OutputTyped, ChannelsInv
<1>1. off \in Nat /\ off <= end
  BY <1>0, OutputAssumption DEF Output!First
<1>2. bytes[c] = <<>> /\ exits[c] = 0 /\ Len(bytes[c]) = 0
  BY <1>0 DEF ChannelInv
<1>3. Output!Ack \in Entry /\ Output!Replay(off, end, Len(stores)) \in Entry
  BY <1>0, <1>1 DEF Entry, Output!Ack, Output!Replay
<1>4. PICK a \in Nat, z \in Nat : a = off /\ z = end
  BY <1>0, <1>1
<1>5. Fits(Output!Ack, a, a, stores, end, app)
  BY DEF Fits
<1>9. /\ bytes'[c] = [i \in 1 .. Len(bytes'[c]) |-> from'[c] + i - 1]
      /\ exits'[c] = 0
      /\ app' = "runs" => observer'[c] \in {"live", "completed"}
  BY <1>2
<1>6. CASE off < end
  <2>1. queue'[c] = <<Output!Ack>> \o <<Output!Replay(off, end, Len(stores))>>
    BY <1>6
  <2>2. /\ queue'[c] \in Seq(Entry) /\ Len(queue'[c]) = 2
        /\ queue'[c][1] = Output!Ack /\ queue'[c][2] = Output!Replay(off, end, Len(stores))
    <3>1. <<Output!Ack>> \in Seq(Entry) /\ Len(<<Output!Ack>>) = 1 /\ <<Output!Ack>>[1] = Output!Ack
      BY <1>3
    <3>2. QED
      BY <1>3, <2>1, <3>1, AppendIs
  <2>3. Fits(Output!Replay(off, end, Len(stores)), a, z, stores, end, app)
    <3>1. \A x \in off .. (end - 1) : stores[Len(stores)][x % Ring] = x
      <4>1. Output!First \in Nat /\ Output!First <= off
        BY <1>0, <1>1, OutputAssumption DEF Output!First
      <4>2. \A x \in off .. (end - 1) : x \in Output!First .. (end - 1)
        BY <1>0, <1>1, <4>1
      <4>3. QED
        BY <1>0, <4>2 DEF RingInv
    <3>2. QED
      BY <1>0, <1>4, <1>6, <3>1 DEF Fits
  <2> DEFINE p == [i \in 1 .. 3 |-> IF i <= 2 THEN a ELSE z]
  <2>4. p \in [1 .. 3 -> Nat] /\ p[1] = a /\ p[2] = a /\ p[3] = z
    OBVIOUS
  <2> HIDE DEF p
  <2>5. \A i \in 1 .. 2 : Fits(queue'[c][i], p[i], p[i + 1], stores, end, app)
    <3>1. TAKE i \in 1 .. 2
    <3>2. i = 1 \/ i = 2
      OBVIOUS
    <3>3. CASE i = 1
      BY <1>5, <2>2, <2>4, <3>3
    <3>4. CASE i = 2
      BY <2>2, <2>3, <2>4, <3>4
    <3>5. QED
      BY <3>2, <3>3, <3>4
  <2>6. Path(c, p)'
    BY <1>2, <1>4, <2>2, <2>4, <2>5 DEF Path
  <2>7. HasPath(c)'
    <3>1. Len(queue'[c]) + 1 = 3
      BY <2>2
    <3>2. p \in [1 .. (Len(queue'[c]) + 1) -> Nat]
      BY <2>4, <3>1
    <3>3. QED
      BY <2>6, <3>2 DEF HasPath
  <2>8. \A i \in 1 .. Len(queue'[c]) : queue'[c][i].type = "exit" => i = Len(queue'[c])
    <3>1. Output!Ack.type # "exit"
      BY DEF Output!Ack
    <3>2. QED
      BY <2>2, <3>1
  <2>9. ChannelInv(c)'
    BY <1>9, <2>7, <2>8 DEF ChannelInv
  <2>10. QED
    BY <1>0, <1>1, <2>2, <2>9, OutputAssumption
<1>7. CASE off = end
  <2>1. queue'[c] = <<Output!Ack>>
    <3>1. ~(off < end)
      BY <1>0, <1>7
    <3>2. queue'[c] = <<Output!Ack>> \o <<>>
      BY <3>1
    <3>3. <<Output!Ack>> \in Seq(Entry)
      BY <1>3
    <3>4. QED
      BY <3>2, <3>3, ConcatEmptySeq
  <2>2. queue'[c] \in Seq(Entry) /\ Len(queue'[c]) = 1 /\ queue'[c][1] = Output!Ack
    BY <1>3, <2>1
  <2> DEFINE p == [i \in 1 .. 2 |-> a]
  <2>4. p \in [1 .. 2 -> Nat] /\ p[1] = a /\ p[2] = a
    OBVIOUS
  <2> HIDE DEF p
  <2>5. \A i \in 1 .. 1 : Fits(queue'[c][i], p[i], p[i + 1], stores, end, app)
    BY <1>5, <2>2, <2>4
  <2>6. Path(c, p)'
    BY <1>2, <1>4, <1>7, <2>2, <2>4, <2>5 DEF Path
  <2>7. HasPath(c)'
    <3>1. Len(queue'[c]) + 1 = 2
      BY <2>2
    <3>2. p \in [1 .. (Len(queue'[c]) + 1) -> Nat]
      BY <2>4, <3>1
    <3>3. QED
      BY <2>6, <3>2 DEF HasPath
  <2>8. \A i \in 1 .. Len(queue'[c]) : queue'[c][i].type = "exit" => i = Len(queue'[c])
    BY <2>2
  <2>9. ChannelInv(c)'
    BY <1>9, <2>7, <2>8 DEF ChannelInv
  <2>10. QED
    BY <1>0, <1>1, <2>2, <2>9, OutputAssumption
<1>8. QED
  BY <1>0, <1>1, <1>6, <1>7

(* One connection takes a step and nothing else does *)
LEMMA OneConnection ==
  ASSUME OutputInv, NEW c \in Followers,
         UNCHANGED <<app, process, reader, held, taken, written, end, stores, final,
                     mon, monDone, monLength, monOffset>>,
         ChannelInv(c)',
         chan' \in [Followers -> {"new", "open", "closed", "gone"}],
         kind' \in [Followers -> {"none", "launch", "uid", "all"}],
         from' \in [Followers -> 0 .. MaxOutput],
         queue' \in [Followers -> Seq(Entry)],
         observer' \in [Followers -> {"none", "live", "completed"}],
         bytes' \in [Followers -> Seq(Nat)],
         exits' \in [Followers -> 0 .. 1],
         \A d \in Followers \ {c} :
           /\ chan'[d] = chan[d] /\ kind'[d] = kind[d] /\ from'[d] = from[d]
           /\ queue'[d] = queue[d] /\ observer'[d] = observer[d]
           /\ bytes'[d] = bytes[d] /\ exits'[d] = exits[d]
  PROVE  OutputInv'
<1>1. OutputTyped'
  BY DEF OutputInv, OutputTyped
<1>2. SessionInv' /\ RingInv' /\ MonitorsInv'
  BY DEF OutputInv, SessionInv, RingInv, MonitorsInv, Output!First
<1>3. ASSUME NEW d \in Followers \ {c} PROVE ChannelInv(d)'
  <2>1. ChannelInv(d)
    BY DEF OutputInv, ChannelsInv
  <2>0. /\ chan'[d] = chan[d] /\ kind'[d] = kind[d] /\ from'[d] = from[d]
        /\ queue'[d] = queue[d] /\ observer'[d] = observer[d]
        /\ bytes'[d] = bytes[d] /\ exits'[d] = exits[d] /\ app' = app /\ end' = end
    OBVIOUS
  <2>2. PICK p \in [1 .. (Len(queue[d]) + 1) -> Nat] : Path(d, p)
    BY <2>1 DEF ChannelInv, HasPath
  <2>3. Path(d, p)'
    BY <2>2 DEF Path, Fed
  <2>4. HasPath(d)'
    BY <2>2, <2>3 DEF HasPath
  <2>5. QED
    BY <2>0, <2>1, <2>4 DEF ChannelInv
<1>4. QED
  BY <1>1, <1>2, <1>3 DEF OutputInv, ChannelsInv

LEMMA SubscribeKeeps ==
  ASSUME OutputInv, NEW c \in Followers, Output!Subscribe(c) \/ Output!SubscribeAll(c)
  PROVE  OutputInv'
<1> USE DEF Output!sessionVars, Output!outputVars, Output!channelVars, Output!monVars
<1>0. /\ OutputTyped /\ \A d \in Followers : ChannelInv(d)
      /\ Output!First \in Output!First .. end
  BY OutputAssumption DEF OutputInv, OutputTyped, ChannelsInv, Output!First
<1>1. ASSUME Output!Subscribe(c) PROVE OutputInv'
  <2>1. PICK off \in Output!First .. end :
          /\ chan' = [chan EXCEPT ![c] = "open"] /\ kind' = [kind EXCEPT ![c] = "uid"]
          /\ from' = [from EXCEPT ![c] = off]
          /\ observer' = [observer EXCEPT ![c] = "live"]
          /\ queue' = [queue EXCEPT ![c] = <<Output!Ack>> \o
               (IF off < end THEN <<Output!Replay(off, end, Len(stores))>> ELSE <<>>)]
    BY <1>1 DEF Output!Subscribe
  <2>2. off \in 0 .. MaxOutput /\ queue'[c] \in Seq(Entry) /\ ChannelInv(c)'
    BY <1>0, <1>1, <2>1, Subscribed DEF Output!Subscribe, OutputTyped
  <2>3. QED
    BY <1>0, <1>1, <2>1, <2>2, OneConnection DEF Output!Subscribe, OutputTyped
<1>2. ASSUME Output!SubscribeAll(c) PROVE OutputInv'
  <2>1. Output!First \in 0 .. MaxOutput /\ queue'[c] \in Seq(Entry) /\ ChannelInv(c)'
    BY <1>0, <1>2, Subscribed DEF Output!SubscribeAll, OutputTyped
  <2>2. QED
    BY <1>0, <1>2, <2>1, OneConnection DEF Output!SubscribeAll, OutputTyped
<1>3. QED
  BY <1>1, <1>2

(* The tick and the end of a connection *)
LEMMA CloseKeeps ==
  ASSUME OutputInv, NEW c \in Followers, Output!Closing(c) \/ Output!Retire(c) \/ Output!Close(c)
  PROVE  OutputInv'
<1> USE DEF Output!sessionVars, Output!outputVars, Output!channelVars, Output!monVars
<1>0. /\ OutputTyped /\ ChannelInv(c) /\ Len(stores) \in Nat
      /\ <<>> \in Seq(Entry)
  BY DEF OutputInv, OutputTyped, ChannelsInv
<1>1. CASE Output!Closing(c)
  BY <1>1, QuietKeeps DEF Output!Closing, OutputInv, OutputTyped, SessionInv
<1>2. CASE Output!Retire(c)
  <2>1. ChannelInv(c)'
    BY <1>0, <1>2, ChannelGone DEF Output!Retire, OutputTyped
  <2>2. QED
    BY <1>0, <1>2, <2>1, OneConnection DEF Output!Retire, OutputTyped
<1>3. CASE Output!Close(c)
  <2>1. ChannelInv(c)'
    BY <1>0, <1>3, ChannelStays DEF Output!Close, OutputTyped, Fed
  <2>2. QED
    BY <1>0, <1>3, <2>1, OneConnection DEF Output!Close, OutputTyped
<1>4. QED
  BY <1>1, <1>2, <1>3

LEMMA CrashKeeps == ASSUME OutputInv, Output!Crash PROVE OutputInv'
<1> USE DEF Output!monVars
<1>1. OutputTyped'
  BY OutputAssumption DEF Output!Crash, OutputInv, OutputTyped
<1>2. SessionInv' /\ RingInv' /\ MonitorsInv'
  BY DEF Output!Crash, OutputInv, SessionInv, RingInv, MonitorsInv, Output!First
<1>3. ASSUME NEW c \in Followers PROVE ChannelInv(c)'
  BY ChannelGone DEF Output!Crash, OutputInv, ChannelsInv
<1>4. QED
  BY <1>1, <1>2, <1>3 DEF OutputInv, ChannelsInv

(* The session starts: connections that follow every session follow it too *)
LEMMA LaunchKeeps == ASSUME OutputInv, Output!Launch PROVE OutputInv'
<1> USE DEF Output!monVars
<1>0. OutputTyped /\ end = 0 /\ reader = "none" /\ Len(stores) \in Nat
      /\ app = "none" /\ Output!Ack \in Entry
  BY DEF Output!Launch, OutputInv, OutputTyped, SessionInv, Entry, Output!Ack
<1>1. PICK who \in {c \in Followers : chan[c] = "new"} \cup {Nil} :
        /\ chan' = [c \in Followers |-> IF c = who THEN "open" ELSE chan[c]]
        /\ kind' = [c \in Followers |-> IF c = who THEN "launch" ELSE kind[c]]
        /\ queue' = [c \in Followers |-> IF c = who THEN <<Output!Ack>> ELSE queue[c]]
        /\ observer' = [c \in Followers |->
             IF c = who \/ Output!Live(c) THEN "live" ELSE observer[c]]
  BY DEF Output!Launch
<1>2. <<Output!Ack>> \in Seq(Entry)
  BY <1>0
<1>3. OutputTyped'
  BY <1>0, <1>1, <1>2, OutputAssumption DEF Output!Launch, OutputTyped
<1>4. SessionInv' /\ RingInv' /\ MonitorsInv'
  BY DEF Output!Launch, OutputInv, SessionInv, RingInv, MonitorsInv, Output!First
<1>5. ASSUME NEW c \in Followers PROVE ChannelInv(c)'
  <2>0. /\ ChannelInv(c) /\ app' = "runs" /\ end' = end /\ stores' = stores
        /\ from'[c] = from[c] /\ bytes'[c] = bytes[c] /\ exits'[c] = exits[c]
    BY DEF OutputInv, ChannelsInv, Output!Launch
  <2>1. CASE c = who
    <3>1. chan[c] = "new"
      BY <1>1, <2>1, OutputAssumption
    <3>2. from[c] = 0 /\ bytes[c] = <<>> /\ Len(bytes[c]) = 0 /\ exits[c] = 0
      BY <2>0, <3>1 DEF ChannelInv
    <3>3. /\ chan'[c] = "open" /\ kind'[c] = "launch" /\ observer'[c] = "live"
          /\ queue'[c] = <<Output!Ack>> /\ Len(queue'[c]) = 1 /\ queue'[c][1] = Output!Ack
      BY <1>1, <2>1
    <3>4. PICK a \in Nat : a = 0
      OBVIOUS
    <3> DEFINE p == [i \in 1 .. 2 |-> a]
    <3>5. p \in [1 .. 2 -> Nat] /\ p[1] = a /\ p[2] = a
      OBVIOUS
    <3> HIDE DEF p
    <3>6. \A i \in 1 .. Len(queue'[c]) : Fits(queue'[c][i], p[i], p[i + 1], stores', end', app')
      BY <3>3, <3>5 DEF Fits
    <3>7. Len(queue'[c]) + 1 = 2
      BY <3>3
    <3>8. Path(c, p)'
      BY <1>0, <2>0, <3>2, <3>4, <3>5, <3>6, <3>7 DEF Path
    <3>9. p \in [1 .. (Len(queue'[c]) + 1) -> Nat]
      BY <3>5, <3>7
    <3>10. HasPath(c)'
      BY <3>8, <3>9 DEF HasPath
    <3>11. \A i \in 1 .. Len(queue'[c]) : queue'[c][i].type = "exit" => i = Len(queue'[c])
      BY <3>3
    <3>12. /\ bytes'[c] = [i \in 1 .. Len(bytes'[c]) |-> from'[c] + i - 1]
           /\ exits'[c] = 0
      BY <2>0, <3>2
    <3>13. QED
      BY <3>3, <3>10, <3>11, <3>12 DEF ChannelInv
  <2>2. CASE c # who
    <3>1. /\ chan'[c] = chan[c] /\ kind'[c] = kind[c] /\ queue'[c] = queue[c]
          /\ observer'[c] = IF Output!Live(c) THEN "live" ELSE observer[c]
      BY <1>1, <2>2
    <3>2. chan'[c] = "new" => observer'[c] = "none"
      BY <2>0, <3>1 DEF ChannelInv, Output!Live
    <3>3. chan'[c] = "open" => observer'[c] = "live"
      BY <2>0, <3>1 DEF ChannelInv, Output!Live
    <3>4. Fed(c)' => Fed(c)
      BY <1>0, <2>0, <3>1 DEF Fed, Output!Live
    <3>5. QED
      BY <1>0, <2>0, <3>1, <3>2, <3>3, <3>4, ChannelStays
  <2>3. QED
    BY <2>1, <2>2
<1>6. QED
  BY <1>3, <1>4, <1>5 DEF OutputInv, ChannelsInv

(* A read is kept: what the buffer loses no replay reads *)
LEMMA AppendOutputKeeps ==
  ASSUME OutputTyped, RingInv, NEW n \in 1 .. Chunk, end + n <= MaxOutput,
         end' = end + n, Output!AppendOutput(n)
  PROVE  /\ stores' \in Seq(Output!Store) /\ Len(stores) \in Nat /\ Len(stores') \in Nat
         /\ Len(stores') >= Len(stores)
         /\ RingInv'
         /\ \A c \in Followers : \A i \in 1 .. Len(queue[c]) : \A v \in 1 .. Len(stores) :
              queue[c][i].type = "replay" /\ queue[c][i].version = v => stores'[v] = stores[v]
<1> DEFINE L == Len(stores)
           W == Output!Overwrite(stores[Len(stores)], n)
<1>0. /\ L \in Nat /\ L >= 1 /\ stores[L] \in Output!Store /\ end \in Nat /\ n \in Nat /\ n >= 1
      /\ stores \in Seq(Output!Store) /\ Ring \in Nat
  BY OutputAssumption DEF OutputTyped
<1>1. /\ W \in Output!Store
      /\ \A z \in 0 .. (end + n - 1) : z >= end + n - Ring => W[z % Ring] = z
  BY <1>0, OverwriteKeeps DEF RingInv
<1> HIDE DEF W
<1>2. Output!First' .. (end' - 1) \subseteq {z \in 0 .. (end + n - 1) : z >= end + n - Ring}
  BY <1>0 DEF Output!First
<1>3. CASE Output!Shared
  <2>1. stores' = [v \in 1 .. (L + 1) |-> IF v <= L THEN stores[v] ELSE W]
    BY <1>3 DEF Output!AppendOutput, W
  <2>2. stores' \in Seq(Output!Store) /\ Len(stores') = L + 1
    BY <1>0, <1>1, <2>1
  <2>3. stores'[L + 1] = W /\ \A v \in 1 .. L : stores'[v] = stores[v]
    BY <1>0, <2>1
  <2>4. RingInv'
    BY <1>1, <1>2, <2>2, <2>3 DEF RingInv
  <2>5. QED
    BY <1>0, <2>2, <2>3, <2>4
<1>4. CASE ~Output!Shared
  <2>1. stores' = [stores EXCEPT ![L] = W]
    BY <1>4 DEF Output!AppendOutput, Output!OverwriteInPlace, W
  <2>2. stores' \in Seq(Output!Store) /\ Len(stores') = L
    BY <1>0, <1>1, <2>1
  <2>3. stores'[L] = W /\ \A v \in 1 .. L : v # L => stores'[v] = stores[v]
    BY <1>0, <2>1
  <2>4. RingInv'
    BY <1>1, <1>2, <2>2, <2>3 DEF RingInv
  <2>5. ASSUME NEW c \in Followers, NEW i \in 1 .. Len(queue[c]), queue[c][i].type = "replay"
        PROVE  queue[c][i].version # L
    <3>1. i \in DOMAIN queue[c]
      BY DEF OutputTyped
    <3>2. QED
      BY <1>4, <2>5, <3>1 DEF Output!Shared
  <2>6. QED
    BY <1>0, <2>2, <2>3, <2>4, <2>5
<1>5. QED
  BY <1>3, <1>4

LEMMA IngestKeeps == ASSUME OutputInv, Output!Ingest PROVE OutputInv'
<1> USE DEF Output!monVars
<1>0. /\ OutputTyped /\ app = "runs" /\ final = Nil /\ RingInv /\ reader = "holds"
      /\ held \in 1 .. Chunk /\ end \in Nat /\ end + held <= MaxOutput /\ Len(stores) \in Nat
      /\ Chunk \in Nat
  <2>1. reader = "holds" /\ OutputTyped /\ RingInv /\ SessionInv
    BY DEF Output!Ingest, OutputInv
  <2>2. /\ held > 0 /\ held \in 0 .. Chunk /\ end \in Nat /\ taken \in Nat /\ written \in Nat
        /\ end + held <= taken /\ taken <= written /\ written <= MaxOutput
        /\ Len(stores) \in Nat /\ Chunk \in Nat /\ MaxOutput \in Nat
    BY <2>1, OutputAssumption DEF OutputTyped
  <2>3. app = "runs" /\ final = Nil
    BY <2>1 DEF SessionInv
  <2>4. QED
    BY <2>1, <2>2, <2>3
<1>1. CASE end + held > MaxLog
  <2>1. OutputTyped'
    BY <1>0, <1>1, OutputAssumption DEF Output!Ingest, OutputTyped
  <2>2. QED
    BY <1>0, <1>1, <2>1, QuietKeeps DEF Output!Ingest
<1>2. CASE ~(end + held > MaxLog)
  <2> DEFINE content == [i \in 1 .. held |-> end + i - 1]
             Gets(c) == observer[c] = "live" /\ Output!Room(c) /\ ~finish[c]
             Misses(c) == observer[c] = "live" /\ ~Gets(c)
  <2>1. /\ end' = end + held /\ Output!AppendOutput(held)
        /\ queue' = [c \in Followers |->
             IF Gets(c) THEN queue[c] \o <<Output!Data(end, content)>> ELSE queue[c]]
        /\ observer' = [c \in Followers |->
             IF Misses(c) THEN "completed" ELSE observer[c]]
        /\ chan' = [c \in Followers |->
             IF Misses(c) /\ ~finish[c] /\ chan[c] = "open" THEN "closed" ELSE chan[c]]
    BY <1>2 DEF Output!Ingest
  <2>2. /\ stores' \in Seq(Output!Store) /\ Len(stores') \in Nat /\ Len(stores') >= Len(stores)
        /\ RingInv'
        /\ \A c \in Followers : \A i \in 1 .. Len(queue[c]) : \A v \in 1 .. Len(stores) :
             queue[c][i].type = "replay" /\ queue[c][i].version = v => stores'[v] = stores[v]
    BY <1>0, <2>1, AppendOutputKeeps
  <2>3. content \in Seq(Nat) /\ content = [i \in 1 .. (end' - end) |-> end + i - 1]
    BY <1>0, <2>1
  <2> HIDE DEF content
  <2>4. /\ Output!Data(end, content) \in Entry
        /\ Fits(Output!Data(end, content), end, end', stores', end', app')
        /\ end' \in Nat
    BY <1>0, <2>1, <2>3 DEF Entry, Output!Data, Fits
  <2>5. /\ app' = "runs" /\ final' = Nil /\ reader' = "reads" /\ held' = 0
        /\ UNCHANGED <<process, written, taken, kind, from, bytes, exits, mon, monDone,
                       monLength, monOffset>>
    BY <1>0 DEF Output!Ingest
  <2>6. ASSUME NEW c \in Followers
        PROVE  queue'[c] \in Seq(Entry) /\ ChannelInv(c)'
    <3>0. ChannelInv(c) /\ queue[c] \in Seq(Entry)
      BY DEF OutputInv, OutputTyped, ChannelsInv
    <3>1. CASE Gets(c)
      <4>1. /\ queue'[c] = queue[c] \o <<Output!Data(end, content)>>
            /\ observer'[c] = observer[c] /\ chan'[c] = chan[c]
        BY <2>1, <3>1
      <4>2. chan[c] = "open" /\ observer'[c] = "live" /\ Fed(c)
        BY <3>1, <4>1 DEF Output!Room, Fed
      <4>3. ChannelInv(c)'
        BY <1>0, <2>2, <2>4, <2>5, <3>0, <4>1, <4>2, ChannelAppends
      <4>4. QED
        BY <2>4, <3>0, <4>1, <4>3, AppendIs
    <3>2. CASE ~Gets(c)
      <4>1. /\ queue'[c] = queue[c]
            /\ observer'[c] = IF observer[c] = "live" THEN "completed" ELSE observer[c]
            /\ chan'[c] = chan[c] \/ (chan[c] = "open" /\ chan'[c] = "closed")
        BY <2>1, <3>2
      <4>2. ~Fed(c)'
        BY <2>5, <4>1 DEF Fed
      <4>3. /\ chan'[c] = "new" => observer'[c] = "none"
            /\ chan'[c] = "open" => observer'[c] \in {"live", "completed"}
        BY <1>0, <3>0, <4>1 DEF ChannelInv
      <4>4. ChannelInv(c)'
        BY <1>0, <2>2, <2>5, <3>0, <4>1, <4>2, <4>3, ChannelStays
      <4>5. QED
        BY <3>0, <4>1, <4>4
    <3>3. QED
      BY <3>1, <3>2
  <2>7. OutputTyped'
    <3>1. /\ queue' \in [Followers -> Seq(Entry)]
          /\ observer' \in [Followers -> {"none", "live", "completed"}]
          /\ chan' \in [Followers -> {"new", "open", "closed", "gone"}]
      BY <1>0, <2>1, <2>6 DEF OutputTyped
    <3>2. QED
      BY <1>0, <2>1, <2>2, <2>4, <2>5, <3>1, OutputAssumption DEF OutputTyped
  <2>8. SessionInv' /\ MonitorsInv'
    BY <1>0, <2>1, <2>4, <2>5 DEF OutputInv, SessionInv, MonitorsInv
  <2>9. QED
    BY <2>2, <2>6, <2>7, <2>8 DEF OutputInv, ChannelsInv
<1>3. QED
  BY <1>1, <1>2

(* Bytes that go on where those before end *)
LEMMA BytesGrow ==
  ASSUME NEW f \in Nat, NEW s \in Seq(Nat), NEW m \in Nat,
         s = [i \in 1 .. Len(s) |-> f + i - 1],
         NEW t, t = [i \in 1 .. m |-> f + Len(s) + i - 1]
  PROVE  /\ s \o t \in Seq(Nat) /\ Len(s \o t) = Len(s) + m
         /\ s \o t = [i \in 1 .. Len(s \o t) |-> f + i - 1]
<1>1. t \in Seq(Nat) /\ Len(t) = m /\ Len(s) \in Nat
  OBVIOUS
<1>2. /\ s \o t \in Seq(Nat) /\ Len(s \o t) = Len(s) + m
      /\ \A i \in 1 .. Len(s) + Len(t) : (s \o t)[i] = IF i <= Len(s) THEN s[i] ELSE t[i - Len(s)]
  BY <1>1, ConcatProperties
<1>3. ASSUME NEW i \in 1 .. (Len(s) + m) PROVE (s \o t)[i] = f + i - 1
  <2>1. CASE i <= Len(s)
    BY <1>1, <1>2, <2>1
  <2>2. CASE ~(i <= Len(s))
    <3>1. i - Len(s) \in 1 .. m
      BY <1>1, <2>2
    <3>2. t[i - Len(s)] = f + Len(s) + (i - Len(s)) - 1
      BY <3>1
    <3>3. QED
      BY <1>1, <1>2, <2>2, <3>2
  <2>3. QED
    BY <2>1, <2>2
<1>4. DOMAIN (s \o t) = 1 .. (Len(s) + m) /\ s \o t = [i \in DOMAIN (s \o t) |-> (s \o t)[i]]
  BY <1>1, <1>2
<1>5. QED
  BY <1>2, <1>3, <1>4

(* The sequence s is of the bytes from f on *)
Follows(s, f) == s = [i \in 1 .. Len(s) |-> f + i - 1]

LEMMA BytesReach ==
  ASSUME NEW c \in Followers, from[c] \in Nat, bytes[c] \in Seq(Nat), Follows(bytes[c], from[c]),
         NEW x, x = from[c] + Len(bytes[c]), NEW t \in Seq(Nat), Follows(t, x),
         from'[c] = from[c], bytes'[c] = bytes[c] \o t
  PROVE  /\ bytes'[c] \in Seq(Nat) /\ from'[c] + Len(bytes'[c]) = x + Len(t)
         /\ Follows(bytes'[c], from'[c])
<1>1. PICK f \in Nat, b \in Seq(Nat), m \in Nat : f = from[c] /\ b = bytes[c] /\ m = Len(t)
  OBVIOUS
<1>2. b = [i \in 1 .. Len(b) |-> f + i - 1] /\ t = [i \in 1 .. m |-> f + Len(b) + i - 1]
  BY <1>1 DEF Follows
<1>3. /\ b \o t \in Seq(Nat) /\ Len(b \o t) = Len(b) + m
      /\ b \o t = [i \in 1 .. Len(b \o t) |-> f + i - 1]
  BY <1>2, BytesGrow
<1>4. Follows(b \o t, f)
  BY <1>3 DEF Follows
<1>5. f + Len(b \o t) = x + m
  <2>1. Len(b) \in Nat /\ x = f + Len(b)
    BY <1>1
  <2>2. QED
    BY <1>3, <2>1
<1>6. bytes'[c] = b \o t /\ from'[c] = f
  BY <1>1
<1>7. QED
  BY <1>1, <1>3, <1>4, <1>5, <1>6

(* The first of what is queued is all written *)
LEMMA FirstGoes ==
  ASSUME OutputTyped, NEW c \in Followers, ChannelInv(c), chan[c] = "open", queue[c] # <<>>,
         NEW p \in [1 .. (Len(queue[c]) + 1) -> Nat], Path(c, p),
         UNCHANGED <<app, end, stores>>,
         chan'[c] = chan[c], kind'[c] = kind[c], from'[c] = from[c], observer'[c] = observer[c],
         queue'[c] = Tail(queue[c]),
         from'[c] + Len(bytes'[c]) = p[2],
         bytes'[c] = [i \in 1 .. Len(bytes'[c]) |-> from'[c] + i - 1],
         exits'[c] > 0 => app = "removed" /\ queue'[c] = <<>> /\ p[2] = end
  PROVE  queue'[c] \in Seq(Entry) /\ ChannelInv(c)'
<1>0. queue[c] \in Seq(Entry) /\ Len(queue[c]) \in Nat
  BY DEF OutputTyped
<1>1. PICK n \in Nat : n = Len(queue[c])
  BY <1>0
<1>2. /\ queue'[c] \in Seq(Entry) /\ Len(queue'[c]) = n - 1 /\ n >= 1
      /\ \A i \in 1 .. Len(queue'[c]) : queue'[c][i] = queue[c][i + 1]
  BY <1>0, <1>1, HeadTailProperties
<1> DEFINE q == [i \in 1 .. n |-> p[i + 1]]
<1>3. /\ q \in [1 .. n -> Nat] /\ q[1] = p[2] /\ q[n] = p[n + 1]
      /\ \A i \in 1 .. (n - 1) : q[i] = p[i + 1] /\ q[i + 1] = p[(i + 1) + 1]
  BY <1>1, <1>2
<1> HIDE DEF q
<1>4. \A i \in 1 .. Len(queue'[c]) : Fits(queue'[c][i], q[i], q[i + 1], stores', end', app')
  <2>1. TAKE i \in 1 .. Len(queue'[c])
  <2>2. i + 1 \in 1 .. Len(queue[c]) /\ i \in 1 .. (n - 1)
    BY <1>1, <1>2
  <2>3. Fits(queue[c][i + 1], p[i + 1], p[(i + 1) + 1], stores, end, app)
    BY <2>2 DEF Path
  <2>4. QED
    BY <1>2, <1>3, <2>2, <2>3
<1>5. Len(queue'[c]) + 1 = n
  BY <1>1, <1>2
<1>6. q \in [1 .. (Len(queue'[c]) + 1) -> Nat]
  BY <1>3, <1>5
<1>7. Fed(c)' => q[Len(queue'[c]) + 1] = end'
  BY <1>1, <1>3, <1>5 DEF Fed, Path
<1>8. Path(c, q)'
  BY <1>3, <1>4, <1>6, <1>7 DEF Path
<1>9. HasPath(c)'
  BY <1>6, <1>8 DEF HasPath
<1>10. \A i \in 1 .. Len(queue'[c]) : queue'[c][i].type = "exit" => i = Len(queue'[c])
  BY <1>1, <1>2 DEF ChannelInv
<1>11. QED
  BY <1>2, <1>9, <1>10 DEF ChannelInv

(* Some of a replay is written *)
LEMMA ReplayGoesOn ==
  ASSUME OutputTyped, NEW c \in Followers, ChannelInv(c), chan[c] = "open", queue[c] # <<>>,
         NEW p \in [1 .. (Len(queue[c]) + 1) -> Nat], Path(c, p),
         UNCHANGED <<app, end, stores>>,
         chan'[c] = chan[c], kind'[c] = kind[c], from'[c] = from[c], observer'[c] = observer[c],
         exits'[c] = exits[c],
         NEW a \in Nat, NEW e \in Entry, Fits(e, a, p[2], stores, end, app), e.type # "exit",
         queue'[c] = <<e>> \o Tail(queue[c]),
         from'[c] + Len(bytes'[c]) = a,
         bytes'[c] = [i \in 1 .. Len(bytes'[c]) |-> from'[c] + i - 1]
  PROVE  queue'[c] \in Seq(Entry) /\ ChannelInv(c)'
<1>0. queue[c] \in Seq(Entry) /\ Len(queue[c]) \in Nat
  BY DEF OutputTyped
<1>1. PICK n \in Nat : n = Len(queue[c])
  BY <1>0
<1>2. /\ Tail(queue[c]) \in Seq(Entry) /\ Len(Tail(queue[c])) = n - 1 /\ n >= 1
      /\ \A i \in 1 .. (n - 1) : Tail(queue[c])[i] = queue[c][i + 1]
  BY <1>0, <1>1, HeadTailProperties
<1>3. <<e>> \in Seq(Entry) /\ Len(<<e>>) = 1 /\ <<e>>[1] = e
  OBVIOUS
<1>4. /\ queue'[c] \in Seq(Entry) /\ Len(queue'[c]) = n
      /\ \A i \in 1 .. n : queue'[c][i] = IF i <= 1 THEN <<e>>[i] ELSE Tail(queue[c])[i - 1]
  BY <1>1, <1>2, <1>3, ConcatProperties
<1>5. queue'[c][1] = e /\ \A i \in 2 .. n : queue'[c][i] = queue[c][i]
  <2>1. queue'[c][1] = e
    BY <1>2, <1>3, <1>4
  <2>2. ASSUME NEW i \in 2 .. n PROVE queue'[c][i] = queue[c][i]
    <3>1. i - 1 \in 1 .. (n - 1) /\ (i - 1) + 1 = i /\ ~(i <= 1) /\ i \in 1 .. n
      BY <1>1
    <3>2. Tail(queue[c])[i - 1] = queue[c][i]
      BY <1>2, <3>1
    <3>3. QED
      BY <1>4, <3>1, <3>2
  <2>3. QED
    BY <2>1, <2>2
<1> DEFINE q == [i \in 1 .. (n + 1) |-> IF i = 1 THEN a ELSE p[i]]
<1>6. /\ q \in [1 .. (n + 1) -> Nat] /\ q[1] = a /\ q[2] = p[2] /\ q[n + 1] = p[n + 1]
      /\ \A i \in 2 .. n : q[i] = p[i] /\ q[i + 1] = p[i + 1]
  BY <1>1, <1>2
<1> HIDE DEF q
<1>7. \A i \in 1 .. Len(queue'[c]) : Fits(queue'[c][i], q[i], q[i + 1], stores', end', app')
  <2>1. TAKE i \in 1 .. Len(queue'[c])
  <2>2. CASE i = 1
    BY <1>5, <1>6, <2>2
  <2>3. CASE i \in 2 .. n
    <3>1. i \in 1 .. Len(queue[c])
      BY <1>1, <2>3
    <3>2. Fits(queue[c][i], p[i], p[i + 1], stores, end, app)
      BY <3>1 DEF Path
    <3>3. QED
      BY <1>5, <1>6, <2>3, <3>2
  <2>4. QED
    BY <1>1, <1>4, <2>2, <2>3
<1>8. q \in [1 .. (Len(queue'[c]) + 1) -> Nat]
  BY <1>4, <1>6
<1>9. Fed(c)' => q[Len(queue'[c]) + 1] = end'
  BY <1>1, <1>4, <1>6 DEF Fed, Path
<1>10. Path(c, q)'
  BY <1>6, <1>7, <1>8, <1>9 DEF Path
<1>11. HasPath(c)'
  BY <1>8, <1>10 DEF HasPath
<1>12. \A i \in 1 .. Len(queue'[c]) : queue'[c][i].type = "exit" => i = Len(queue'[c])
  <2>1. TAKE i \in 1 .. Len(queue'[c])
  <2>2. i = 1 \/ i \in 2 .. n
    BY <1>1, <1>4
  <2>3. QED
    BY <1>1, <1>4, <1>5, <2>2 DEF ChannelInv
<1>13. ~(exits'[c] > 0)
  BY DEF ChannelInv
<1>14. QED
  BY <1>4, <1>11, <1>12, <1>13 DEF ChannelInv

LEMMA DeliverKeeps ==
  ASSUME OutputInv, NEW c \in Followers, Output!Deliver(c)
  PROVE  OutputInv'
<1> USE DEF Output!sessionVars, Output!outputVars, Output!monVars
<1> DEFINE entry == Head(queue[c])
           n == Output!Least(Chunk, entry.to - entry.off)
<1>0. /\ OutputTyped /\ ChannelInv(c) /\ chan[c] = "open" /\ queue[c] # <<>>
      /\ queue[c] \in Seq(Entry) /\ Len(queue[c]) \in Nat /\ Len(queue[c]) >= 1
      /\ from[c] \in Nat /\ bytes[c] \in Seq(Nat) /\ Len(bytes[c]) \in Nat
      /\ exits \in [Followers -> 0 .. 1]
      /\ Len(stores) \in Nat /\ end \in Nat
  <2>1. OutputTyped /\ ChannelInv(c) /\ chan[c] = "open" /\ queue[c] # <<>>
    BY DEF Output!Deliver, OutputInv, ChannelsInv
  <2>2. /\ queue[c] \in Seq(Entry) /\ from[c] \in Nat /\ bytes[c] \in Seq(Nat)
        /\ exits \in [Followers -> 0 .. 1] /\ stores \in Seq(Output!Store) /\ end \in Nat
    BY <2>1, OutputAssumption DEF OutputTyped
  <2>3. Len(queue[c]) \in Nat \ {0}
    BY <2>1, <2>2, EmptySeq
  <2>4. QED
    BY <2>1, <2>2, <2>3
<1>1. /\ UNCHANGED <<app, process, reader, held, taken, written, end, stores, final,
                     mon, monDone, monLength, monOffset, chan, kind, from, observer>>
  BY DEF Output!Deliver
<1>2. PICK p \in [1 .. (Len(queue[c]) + 1) -> Nat] : Path(c, p)
  BY <1>0 DEF ChannelInv, HasPath
<1>3. /\ entry = queue[c][1] /\ p[1] = from[c] + Len(bytes[c]) /\ p[1] \in Nat /\ p[2] \in Nat
      /\ Fits(entry, p[1], p[2], stores, end, app)
      /\ bytes[c] = [i \in 1 .. Len(bytes[c]) |-> from[c] + i - 1]
  <2>1. entry = queue[c][1]
    BY <1>0
  <2>2. 1 \in 1 .. Len(queue[c]) /\ p[1] \in Nat /\ p[2] \in Nat /\ 1 + 1 = 2
    BY <1>0, <1>2
  <2>3. Fits(queue[c][1], p[1], p[1 + 1], stores, end, app) /\ p[1] = from[c] + Len(bytes[c])
    BY <1>2, <2>2 DEF Path
  <2>4. bytes[c] = [i \in 1 .. Len(bytes[c]) |-> from[c] + i - 1]
    BY <1>0 DEF ChannelInv
  <2>5. QED
    BY <2>1, <2>2, <2>3, <2>4
<1>4. exits[c] = 0
  BY <1>0 DEF ChannelInv
<1>5. SUFFICES /\ queue'[c] \in Seq(Entry) /\ ChannelInv(c)'
               /\ queue' = [queue EXCEPT ![c] = queue'[c]]
               /\ bytes' = [bytes EXCEPT ![c] = bytes'[c]] /\ bytes'[c] \in Seq(Nat)
               /\ exits' = [exits EXCEPT ![c] = exits'[c]] /\ exits'[c] \in 0 .. 1
  <2>1. /\ chan' \in [Followers -> {"new", "open", "closed", "gone"}]
        /\ kind' \in [Followers -> {"none", "launch", "uid", "all"}]
        /\ from' \in [Followers -> 0 .. MaxOutput]
        /\ observer' \in [Followers -> {"none", "live", "completed"}]
    BY <1>0, <1>1 DEF OutputTyped
  <2>2. /\ queue' \in [Followers -> Seq(Entry)] /\ bytes' \in [Followers -> Seq(Nat)]
        /\ exits' \in [Followers -> 0 .. 1]
        /\ \A d \in Followers \ {c} :
             queue'[d] = queue[d] /\ bytes'[d] = bytes[d] /\ exits'[d] = exits[d]
    BY <1>0, <1>5 DEF OutputTyped
  <2>3. QED
    BY <1>1, <1>5, <2>1, <2>2, OneConnection
<1> HIDE DEF entry
<1>6. CASE entry = Output!Ack /\ p[1] = p[2]
  <2>1. entry.type = "subscribed"
    BY <1>6 DEF Output!Ack
  <2>2. /\ exits' = [exits EXCEPT ![c] = exits[c]] /\ bytes' = bytes
        /\ queue' = [queue EXCEPT ![c] = Tail(queue[c])]
    BY <2>1 DEF Output!Deliver, entry
  <2>3. /\ exits'[c] = 0 /\ bytes'[c] = bytes[c] /\ queue'[c] = Tail(queue[c])
    BY <1>0, <1>4, <2>2 DEF OutputTyped
  <2>4. /\ from'[c] + Len(bytes'[c]) = p[2]
        /\ bytes'[c] = [i \in 1 .. Len(bytes'[c]) |-> from'[c] + i - 1]
        /\ ~(exits'[c] > 0)
    BY <1>1, <1>3, <1>6, <2>3
  <2>5. queue'[c] \in Seq(Entry) /\ ChannelInv(c)'
    BY <1>0, <1>1, <1>2, <2>3, <2>4, FirstGoes
  <2>6. QED
    BY <1>0, <1>4, <2>2, <2>3, <2>5 DEF OutputTyped
<1>7. CASE entry = Output!Data(p[1], [i \in 1 .. (p[2] - p[1]) |-> p[1] + i - 1]) /\ p[1] <= p[2]
  <2>1. /\ entry.type = "data"
        /\ entry.content = [i \in 1 .. (p[2] - p[1]) |-> p[1] + i - 1]
    BY <1>7 DEF Output!Data
  <2>2. /\ exits' = exits /\ bytes' = [bytes EXCEPT ![c] = bytes[c] \o entry.content]
        /\ queue' = [queue EXCEPT ![c] = Tail(queue[c])]
    BY <2>1 DEF Output!Deliver, entry
  <2>3. /\ exits'[c] = 0 /\ bytes'[c] = bytes[c] \o entry.content /\ queue'[c] = Tail(queue[c])
    BY <1>0, <1>4, <2>2 DEF OutputTyped
  <2>4. /\ bytes'[c] \in Seq(Nat) /\ from'[c] + Len(bytes'[c]) = p[2]
        /\ bytes'[c] = [i \in 1 .. Len(bytes'[c]) |-> from'[c] + i - 1]
    <3>1. PICK m \in Nat, x \in Nat : m = p[2] - p[1] /\ x = p[1] /\ x + m = p[2]
      BY <1>3, <1>7
    <3>2. entry.content = [i \in 1 .. m |-> x + i - 1]
      BY <2>1, <3>1
    <3>3. entry.content \in Seq(Nat) /\ Len(entry.content) = m /\ Follows(entry.content, x)
      BY <3>2 DEF Follows
    <3>4. Follows(bytes[c], from[c]) /\ from'[c] = from[c] /\ x = from[c] + Len(bytes[c])
      BY <1>1, <1>3, <3>1 DEF Follows
    <3>5. /\ bytes'[c] \in Seq(Nat) /\ from'[c] + Len(bytes'[c]) = x + m
          /\ Follows(bytes'[c], from'[c])
      BY <1>0, <2>3, <3>3, <3>4, BytesReach
    <3>6. QED
      BY <3>1, <3>5 DEF Follows
  <2>5. ~(exits'[c] > 0)
    BY <2>3
  <2>6. queue'[c] \in Seq(Entry) /\ ChannelInv(c)'
    BY <1>0, <1>1, <1>2, <2>3, <2>4, <2>5, FirstGoes
  <2>7. QED
    BY <1>0, <1>4, <2>2, <2>3, <2>4, <2>6 DEF OutputTyped
<1>8. CASE /\ p[1] < p[2]
           /\ \E v \in 1 .. Len(stores) :
                entry = Output!Replay(p[1], p[2], v) /\ \A z \in p[1] .. (p[2] - 1) : stores[v][z % Ring] = z
  <2>1. PICK v \in 1 .. Len(stores) :
          entry = Output!Replay(p[1], p[2], v) /\ \A z \in p[1] .. (p[2] - 1) : stores[v][z % Ring] = z
    BY <1>8
  <2>2. /\ entry.type = "replay" /\ entry.off = p[1] /\ entry.to = p[2] /\ entry.version = v
        /\ [entry EXCEPT !.off = entry.off + n] = Output!Replay(p[1] + n, p[2], v)
    BY <2>1 DEF Output!Replay
  <2>3. n \in Nat /\ 1 <= n /\ p[1] + n <= p[2]
    <3>1. n = IF Chunk <= p[2] - p[1] THEN Chunk ELSE p[2] - p[1]
      BY <2>2 DEF Output!Least
    <3>2. Chunk \in Nat /\ Chunk >= 1
      BY OutputAssumption
    <3>3. QED
      BY <1>3, <1>8, <3>1, <3>2
  <2> HIDE DEF n
  <2>4. /\ exits' = exits
        /\ bytes' = [bytes EXCEPT ![c] = bytes[c] \o Output!Encode(stores[v], p[1], n)]
        /\ queue' = [queue EXCEPT ![c] =
             IF p[1] + n = p[2] THEN Tail(queue[c])
             ELSE <<Output!Replay(p[1] + n, p[2], v)>> \o Tail(queue[c])]
    BY <2>2 DEF Output!Deliver, entry, n
  <2>5. /\ exits'[c] = 0 /\ bytes'[c] = bytes[c] \o Output!Encode(stores[v], p[1], n)
        /\ queue'[c] = IF p[1] + n = p[2] THEN Tail(queue[c])
                       ELSE <<Output!Replay(p[1] + n, p[2], v)>> \o Tail(queue[c])
    BY <1>0, <1>4, <2>4 DEF OutputTyped
  <2>6. Output!Encode(stores[v], p[1], n) = [i \in 1 .. n |-> p[1] + i - 1]
    <3>1. ASSUME NEW i \in 1 .. n
          PROVE  stores[v][(p[1] + i - 1) % Ring] = p[1] + i - 1
      <4>1. p[1] + i - 1 \in p[1] .. (p[2] - 1)
        BY <1>3, <2>3
      <4>2. QED
        BY <2>1, <4>1
    <3>2. QED
      BY <3>1 DEF Output!Encode
  <2>7. /\ bytes'[c] \in Seq(Nat) /\ from'[c] + Len(bytes'[c]) = p[1] + n
        /\ bytes'[c] = [i \in 1 .. Len(bytes'[c]) |-> from'[c] + i - 1]
    <3>1. PICK m \in Nat, x \in Nat : m = n /\ x = p[1]
      BY <1>3, <2>3
    <3>2. PICK t \in Seq(Nat) : t = [i \in 1 .. m |-> x + i - 1]
      <4>1. [i \in 1 .. m |-> x + i - 1] \in Seq(Nat)
        OBVIOUS
      <4>2. QED
        BY <4>1
    <3>3. Len(t) = m /\ Follows(t, x) /\ bytes'[c] = bytes[c] \o t
      BY <2>5, <2>6, <3>1, <3>2 DEF Follows
    <3>4. Follows(bytes[c], from[c]) /\ from'[c] = from[c] /\ x = from[c] + Len(bytes[c])
      BY <1>1, <1>3, <3>1 DEF Follows
    <3>5. /\ bytes'[c] \in Seq(Nat) /\ from'[c] + Len(bytes'[c]) = x + m
          /\ Follows(bytes'[c], from'[c])
      BY <1>0, <3>3, <3>4, BytesReach
    <3>6. QED
      BY <3>1, <3>5 DEF Follows
  <2>8. ~(exits'[c] > 0)
    BY <2>5
  <2>9. queue'[c] \in Seq(Entry) /\ ChannelInv(c)'
    <3>1. CASE p[1] + n = p[2]
      BY <1>0, <1>1, <1>2, <2>5, <2>7, <2>8, <3>1, FirstGoes
    <3>2. CASE p[1] + n # p[2]
      <4>1. PICK a \in Nat, e \in Entry : a = p[1] + n /\ e = Output!Replay(a, p[2], v)
        <5>1. p[1] + n \in Nat /\ v \in Nat
          <6>1. n \in Nat /\ p[1] \in Nat
            BY <1>3, <2>3
          <6>2. v \in Nat
            BY <1>0
          <6>3. QED
            BY <6>1, <6>2
        <5>2. Output!Replay(p[1] + n, p[2], v) \in Entry
          BY <1>3, <5>1 DEF Entry, Output!Replay
        <5>3. QED
          BY <5>1, <5>2
      <4>2. a < p[2] /\ \A z \in a .. (p[2] - 1) : stores[v][z % Ring] = z
        BY <1>3, <2>1, <2>3, <3>2, <4>1
      <4>3. Fits(e, a, p[2], stores, end, app) /\ e.type # "exit"
        BY <4>1, <4>2 DEF Fits, Output!Replay
      <4>4. queue'[c] = <<e>> \o Tail(queue[c]) /\ from'[c] + Len(bytes'[c]) = a
        BY <2>5, <2>7, <3>2, <4>1
      <4>5. exits'[c] = exits[c]
        BY <2>4
      <4>6. QED
        BY <1>0, <1>1, <1>2, <2>7, <4>3, <4>4, <4>5, ReplayGoesOn
    <3>3. QED
      BY <3>1, <3>2
  <2>10. QED
    BY <1>0, <1>4, <2>4, <2>5, <2>7, <2>9 DEF OutputTyped
<1>9. CASE entry = Output!ExitAt(p[1]) /\ p[1] = p[2] /\ p[1] = end /\ app = "removed"
  <2>1. entry.type = "exit"
    BY <1>9 DEF Output!ExitAt
  <2>2. /\ exits' = [exits EXCEPT ![c] = exits[c] + 1] /\ bytes' = bytes
        /\ queue' = [queue EXCEPT ![c] = Tail(queue[c])]
    BY <2>1 DEF Output!Deliver, entry
  <2>3. /\ exits'[c] = 1 /\ bytes'[c] = bytes[c] /\ queue'[c] = Tail(queue[c])
    BY <1>0, <1>4, <2>2 DEF OutputTyped
  <2>4. queue'[c] = <<>>
    <3>1. Len(queue[c]) = 1
      <4>1. 1 \in 1 .. Len(queue[c]) /\ queue[c][1].type = "exit"
        BY <1>0, <1>3, <2>1
      <4>2. QED
        BY <1>0, <4>1 DEF ChannelInv
    <3>2. Tail(queue[c]) \in Seq(Entry) /\ Len(Tail(queue[c])) = 0
      BY <1>0, <3>1, HeadTailProperties
    <3>3. QED
      BY <2>3, <3>2, EmptySeq
  <2>5. /\ from'[c] + Len(bytes'[c]) = p[2]
        /\ bytes'[c] = [i \in 1 .. Len(bytes'[c]) |-> from'[c] + i - 1]
    BY <1>1, <1>3, <1>9, <2>3
  <2>6. queue'[c] \in Seq(Entry) /\ ChannelInv(c)'
    BY <1>0, <1>1, <1>2, <1>9, <2>3, <2>4, <2>5, FirstGoes
  <2>7. QED
    BY <1>0, <2>2, <2>3, <2>6 DEF OutputTyped
<1>10. QED
  BY <1>3, <1>6, <1>7, <1>8, <1>9 DEF Fits

-----------------------------------------------------------------------------
(* The monitors, and every step. *)

LEMMA PollKeeps ==
  ASSUME OutputInv, NEW m \in LogMonitors, Output!Poll(m)
  PROVE  OutputInv'
<1> USE DEF Output!sessionVars, Output!outputVars, Output!channelVars
<1>1. UNCHANGED <<Output!sessionVars, Output!outputVars, Output!channelVars>>
  BY DEF Output!Poll, Output!MonTarget, Output!MonProbe, Output!MonAgain, Output!MonLength,
     Output!MonRead, Output!MonDecide
<1>2. OutputTyped' /\ SessionInv' /\ RingInv'
  BY <1>1 DEF OutputInv, OutputTyped, SessionInv, RingInv, Output!First
<1>3. ChannelsInv'
  BY <1>1 DEF OutputInv, ChannelsInv, ChannelInv, HasPath, Path, Fed
<1>4. MonitorsInv'
  <2>0. MonitorsInv /\ SessionInv /\ end \in Nat
    BY DEF OutputInv, OutputTyped
  <2> USE DEF MonitorsInv, SessionInv, Output!Goes, Output!ReadsStatus
  <2>1. CASE Output!MonTarget(m)
    BY <2>0, <2>1 DEF Output!MonTarget
  <2>2. CASE Output!MonProbe(m)
    BY <2>0, <2>2 DEF Output!MonProbe
  <2>3. CASE Output!MonAgain(m)
    <3>1. mon[m] = "absent" => final # Nil
      BY <2>0, OutputAssumption
    <3>2. QED
      BY <2>0, <2>3, <3>1 DEF Output!MonAgain
  <2>4. CASE Output!MonLength(m)
    BY <2>0, <2>4 DEF Output!MonLength
  <2>5. CASE Output!MonRead(m)
    BY <2>0, <2>5 DEF Output!MonRead
  <2>6. CASE Output!MonDecide(m)
    BY <2>0, <2>6 DEF Output!MonDecide
  <2>7. QED
    BY <2>1, <2>2, <2>3, <2>4, <2>5, <2>6 DEF Output!Poll
<1>5. QED
  BY <1>2, <1>3, <1>4 DEF OutputInv

LEMMA OutputStep == OutputInv /\ [Output!Next]_(Output!vars) => OutputInv'
<1> SUFFICES ASSUME OutputInv, [Output!Next]_(Output!vars) PROVE OutputInv'
  OBVIOUS
<1>1. CASE Output!Launch
  BY <1>1, LaunchKeeps
<1>2. CASE Output!KillSession
  BY <1>2, EndedKeeps DEF Output!KillSession, Output!monVars
<1>3. CASE \/ Output!KillServer \/ Output!Write \/ Output!ChildExits \/ Output!PipeCloses
           \/ Output!Read \/ Output!ReadFails \/ Output!WaitFails
  BY <1>3, ChildKeeps
<1>4. CASE Output!Refresh
  BY <1>4, EndedKeeps DEF Output!Refresh, Output!monVars
<1>5. CASE Output!Crash
  BY <1>5, CrashKeeps
<1>6. CASE Output!Ingest
  BY <1>6, IngestKeeps
<1>7. ASSUME NEW c \in Followers, Output!Serve(c) PROVE OutputInv'
  BY <1>7, SubscribeKeeps, CloseKeeps, DeliverKeeps DEF Output!Serve
<1>8. ASSUME NEW m \in LogMonitors, Output!Poll(m) PROVE OutputInv'
  BY <1>8, PollKeeps
<1>9. CASE UNCHANGED Output!vars
  <2>1. /\ UNCHANGED <<app, process, reader, held, taken, written, end, stores, final,
                       chan, kind, from, queue, observer, bytes, exits>>
        /\ UNCHANGED <<mon, monDone, monLength, monOffset>>
    BY <1>9 DEF Output!vars, Output!sessionVars, Output!outputVars, Output!channelVars,
       Output!monVars
  <2>2. OutputTyped'
    BY <2>1 DEF OutputInv, OutputTyped
  <2>3. QED
    BY <2>1, <2>2, QuietKeeps DEF OutputInv, SessionInv
<1>10. QED
  BY <1>1, <1>2, <1>3, <1>4, <1>5, <1>6, <1>7, <1>8, <1>9 DEF Output!Next

-----------------------------------------------------------------------------
(* The queue of a connection never has more frames than it may, and the rest of the types. *)

FramesOf(q) == {i \in DOMAIN q : q[i].type # "replay"}

LEMMA FramesFinite ==
  ASSUME NEW q \in Seq(Entry)
  PROVE  IsFiniteSet(FramesOf(q)) /\ Cardinality(FramesOf(q)) \in Nat
<1>1. IsFiniteSet(1 .. Len(q))
  BY FS_Interval
<1>2. FramesOf(q) \in SUBSET (1 .. Len(q))
  BY DEF FramesOf
<1>3. QED
  BY <1>1, <1>2, FS_Subset, FS_CardinalityType

LEMMA FramesAppend ==
  ASSUME NEW q \in Seq(Entry), NEW e \in Entry
  PROVE  Cardinality(FramesOf(q \o <<e>>)) <= Cardinality(FramesOf(q)) + 1
<1> DEFINE T == FramesOf(q) \cup {Len(q) + 1}
<1>1. q \o <<e>> \in Seq(Entry) /\ DOMAIN (q \o <<e>>) = 1 .. (Len(q) + 1) /\ Len(q) \in Nat
  BY AppendIs
<1>2. \A i \in 1 .. Len(q) : (q \o <<e>>)[i] = q[i]
  BY AppendIs
<1>3. FramesOf(q \o <<e>>) \in SUBSET T
  BY <1>1, <1>2 DEF FramesOf
<1>4. IsFiniteSet(T) /\ Cardinality(T) <= Cardinality(FramesOf(q)) + 1
  <2>1. IsFiniteSet(FramesOf(q)) /\ Cardinality(FramesOf(q)) \in Nat
    BY FramesFinite
  <2>2. /\ IsFiniteSet(T)
        /\ Cardinality(T) = IF Len(q) + 1 \in FramesOf(q) THEN Cardinality(FramesOf(q))
                            ELSE Cardinality(FramesOf(q)) + 1
    BY <2>1, FS_AddElement
  <2> HIDE DEF T
  <2>3. QED
    BY <2>1, <2>2
<1> HIDE DEF T
<1>5. Cardinality(FramesOf(q \o <<e>>)) <= Cardinality(T)
  BY <1>3, <1>4, FS_Subset
<1>6. /\ Cardinality(FramesOf(q \o <<e>>)) \in Nat /\ Cardinality(FramesOf(q)) \in Nat
      /\ Cardinality(T) \in Nat
  BY <1>1, <1>4, FramesFinite, FS_CardinalityType
<1>7. QED
  BY <1>4, <1>5, <1>6

LEMMA FramesTail ==
  ASSUME NEW q \in Seq(Entry), q # <<>>
  PROVE  Cardinality(FramesOf(Tail(q))) <= Cardinality(FramesOf(q))
<1> DEFINE f == [i \in FramesOf(Tail(q)) |-> i + 1]
<1>1. /\ Tail(q) \in Seq(Entry) /\ Len(Tail(q)) = Len(q) - 1 /\ Len(q) \in Nat
      /\ \A i \in 1 .. Len(Tail(q)) : Tail(q)[i] = q[i + 1]
  BY HeadTailProperties
<1>2. \A i \in FramesOf(Tail(q)) : i \in Nat /\ i + 1 \in FramesOf(q)
  BY <1>1 DEF FramesOf
<1>3. f \in Injection(FramesOf(Tail(q)), FramesOf(q))
  <2>1. f \in [FramesOf(Tail(q)) -> FramesOf(q)]
    BY <1>2
  <2>2. \A a, b \in FramesOf(Tail(q)) : f[a] = f[b] => a = b
    BY <1>2
  <2>3. QED
    BY <2>1, <2>2 DEF Injection, IsInjective
<1>4. IsFiniteSet(FramesOf(q))
  BY FramesFinite
<1>5. QED
  BY <1>3, <1>4, FS_Injection

LEMMA FramesReplay ==
  ASSUME NEW q \in Seq(Entry), q # <<>>, q[1].type = "replay",
         NEW e \in Entry, e.type = "replay"
  PROVE  FramesOf(<<e>> \o Tail(q)) = FramesOf(q)
<1>1. /\ Tail(q) \in Seq(Entry) /\ Len(Tail(q)) = Len(q) - 1 /\ Len(q) \in Nat /\ Len(q) >= 1
      /\ \A i \in 1 .. Len(Tail(q)) : Tail(q)[i] = q[i + 1]
  BY HeadTailProperties, EmptySeq
<1>2. <<e>> \in Seq(Entry) /\ Len(<<e>>) = 1 /\ <<e>>[1] = e
  OBVIOUS
<1> DEFINE r == <<e>> \o Tail(q)
<1>3. /\ r \in Seq(Entry) /\ Len(r) = Len(q)
      /\ \A i \in 1 .. Len(q) : r[i] = IF i <= 1 THEN <<e>>[i] ELSE Tail(q)[i - 1]
  BY <1>1, <1>2, ConcatProperties
<1> HIDE DEF r
<1>4. DOMAIN r = 1 .. Len(q) /\ DOMAIN q = 1 .. Len(q)
  BY <1>3
<1>5. ASSUME NEW i \in 1 .. Len(q) PROVE r[i].type = q[i].type
  <2>1. CASE i = 1
    BY <1>1, <1>2, <1>3, <2>1
  <2>2. CASE i # 1
    <3>1. i - 1 \in 1 .. Len(Tail(q)) /\ (i - 1) + 1 = i /\ ~(i <= 1)
      BY <1>1, <2>2
    <3>2. QED
      BY <1>1, <1>3, <3>1
  <2>3. QED
    BY <2>1, <2>2
<1>6. QED
  BY <1>4, <1>5 DEF FramesOf, r

FramesFit == \A c \in Followers : Cardinality(FramesOf(queue[c])) <= Backlog

LEMMA FramesFew ==
  ASSUME NEW q \in Seq(Entry), FramesOf(q) \subseteq {1}
  PROVE  Cardinality(FramesOf(q)) <= Backlog
<1>1. IsFiniteSet({1}) /\ Cardinality({1}) = 1
  BY FS_Singleton
<1>2. Cardinality(FramesOf(q)) <= 1
  BY <1>1, FS_Subset
<1>3. QED
  BY <1>2, FramesFinite, OutputAssumption

LEMMA FramesStep ==
  ASSUME OutputInv, OutputInv', FramesFit, Output!Next
  PROVE  FramesFit'
<1> USE DEF Output!sessionVars, Output!outputVars, Output!channelVars, Output!monVars
<1>0. ASSUME NEW c \in Followers
      PROVE  /\ queue[c] \in Seq(Entry) /\ queue'[c] \in Seq(Entry) /\ Backlog \in Nat
             /\ Cardinality(FramesOf(queue[c])) \in Nat
             /\ Cardinality(FramesOf(queue[c])) <= Backlog
             /\ Output!Frames(c) = Cardinality(FramesOf(queue[c]))
  <2>1. queue[c] \in Seq(Entry) /\ queue'[c] \in Seq(Entry)
    BY DEF OutputInv, OutputTyped
  <2>2. Output!Frames(c) = Cardinality(FramesOf(queue[c]))
    BY DEF FramesOf, Output!Frames, Output!Cardinality, Cardinality
  <2>3. QED
    BY <2>1, <2>2, FramesFinite, OutputAssumption DEF FramesFit
<1>1. ASSUME NEW c \in Followers, NEW e \in Entry, Output!Room(c),
             queue'[c] = queue[c] \o <<e>>
      PROVE  Cardinality(FramesOf(queue'[c])) <= Backlog
  <2>1. Cardinality(FramesOf(queue[c])) < Backlog
    BY <1>0, <1>1 DEF Output!Room
  <2>2. Cardinality(FramesOf(queue'[c])) <= Cardinality(FramesOf(queue[c])) + 1
    BY <1>0, <1>1, FramesAppend
  <2>3. Cardinality(FramesOf(queue'[c])) \in Nat
    BY <1>0, FramesFinite
  <2>4. QED
    BY <1>0, <2>1, <2>2, <2>3
<1>2. ASSUME NEW c \in Followers, queue'[c] = <<>> \/ queue'[c] = <<Output!Ack>>
      PROVE  Cardinality(FramesOf(queue'[c])) <= Backlog
  <2>1. FramesOf(queue'[c]) \subseteq {1}
    BY <1>2 DEF FramesOf
  <2>2. QED
    BY <1>0, <2>1, FramesFew
<1>3. ASSUME NEW c \in Followers, queue'[c] = queue[c]
      PROVE  Cardinality(FramesOf(queue'[c])) <= Backlog
  BY <1>0, <1>3
<1>4. ASSUME Output!Ended PROVE FramesFit'
  <2>1. ASSUME NEW c \in Followers PROVE Cardinality(FramesOf(queue'[c])) <= Backlog
    <3>1. queue'[c] = IF Output!Told(c) /\ Output!Room(c)
                        THEN queue[c] \o <<Output!ExitAt(end)>> ELSE queue[c]
      BY <1>4 DEF Output!Ended, Output!PumpOf
    <3>2. Output!ExitAt(end) \in Entry
      BY DEF OutputInv, OutputTyped, Entry, Output!ExitAt
    <3>3. QED
      BY <1>1, <1>3, <3>1, <3>2
  <2>2. QED
    BY <2>1 DEF FramesFit
<1>5. ASSUME Output!Launch PROVE FramesFit'
  <2>1. PICK who \in {c \in Followers : chan[c] = "new"} \cup {Nil} :
          queue' = [c \in Followers |-> IF c = who THEN <<Output!Ack>> ELSE queue[c]]
    BY <1>5 DEF Output!Launch
  <2>2. QED
    BY <1>2, <1>3, <2>1 DEF FramesFit
<1>6. ASSUME Output!Ingest PROVE FramesFit'
  <2>1. CASE end + held > MaxLog
    BY <1>3, <1>6, <2>1 DEF Output!Ingest, FramesFit
  <2>2. CASE ~(end + held > MaxLog)
    <3> DEFINE content == [i \in 1 .. held |-> end + i - 1]
    <3>1. ASSUME NEW c \in Followers
          PROVE  queue'[c] = IF observer[c] = "live" /\ Output!Room(c) /\ ~finish[c]
                               THEN queue[c] \o <<Output!Data(end, content)>> ELSE queue[c]
      BY <1>6, <2>2 DEF Output!Ingest
    <3>2. end \in Nat /\ held \in Nat
      BY OutputAssumption DEF OutputInv, OutputTyped
    <3>3. content \in Seq(Nat)
      BY <3>2
    <3> HIDE DEF content
    <3>4. Output!Data(end, content) \in Entry
      BY <3>2, <3>3 DEF Entry, Output!Data
    <3>5. QED
      BY <1>1, <1>3, <3>1, <3>4 DEF FramesFit
  <2>3. QED
    BY <2>1, <2>2
<1>7. ASSUME NEW c \in Followers, NEW off \in Nat,
             queue' = [queue EXCEPT ![c] = <<Output!Ack>> \o
               (IF off < end THEN <<Output!Replay(off, end, Len(stores))>> ELSE <<>>)]
      PROVE  FramesFit'
  <2>0. /\ queue'[c] = <<Output!Ack>> \o
             (IF off < end THEN <<Output!Replay(off, end, Len(stores))>> ELSE <<>>)
        /\ \A d \in Followers \ {c} : queue'[d] = queue[d]
    BY <1>7 DEF OutputInv, OutputTyped
  <2>1. <<Output!Ack>> \in Seq(Entry) /\ Len(<<Output!Ack>>) = 1
    BY DEF Entry, Output!Ack
  <2>2. CASE off < end
    <3>1. Output!Replay(off, end, Len(stores)) \in Entry
      BY DEF OutputInv, OutputTyped, Entry, Output!Replay
    <3>2. /\ Len(queue'[c]) = 2 /\ queue'[c][2] = Output!Replay(off, end, Len(stores))
      BY <2>0, <2>1, <2>2, <3>1, AppendIs
    <3>3. FramesOf(queue'[c]) \subseteq {1}
      BY <1>0, <3>2 DEF FramesOf, Output!Replay
    <3>4. Cardinality(FramesOf(queue'[c])) <= Backlog
      BY <1>0, <3>3, FramesFew
    <3>5. QED
      BY <1>3, <2>0, <3>4 DEF FramesFit
  <2>3. CASE ~(off < end)
    <3>1. queue'[c] = <<Output!Ack>> \o <<>>
      BY <2>0, <2>3
    <3>2. queue'[c] = <<Output!Ack>>
      BY <2>1, <3>1, ConcatEmptySeq
    <3>3. QED
      BY <1>2, <1>3, <2>0, <3>2 DEF FramesFit
  <2>4. QED
    BY <2>2, <2>3
<1>8. ASSUME NEW c \in Followers, Output!Deliver(c) PROVE FramesFit'
  <2> DEFINE entry == Head(queue[c])
             n == Output!Least(Chunk, entry.to - entry.off)
  <2>0. queue[c] \in Seq(Entry) /\ queue[c] # <<>> /\ entry = queue[c][1] /\ entry \in Entry
    <3>1. queue[c] \in Seq(Entry) /\ queue[c] # <<>>
      BY <1>0, <1>8 DEF Output!Deliver
    <3>2. QED
      BY <3>1, HeadTailProperties
  <2>1. ASSUME NEW d \in Followers, d # c PROVE queue'[d] = queue[d]
    <3>1. \E next : queue' = [queue EXCEPT ![c] = next]
      BY <1>8 DEF Output!Deliver
    <3>2. QED
      BY <2>1, <3>1 DEF OutputInv, OutputTyped
  <2>2. CASE queue'[c] = Tail(queue[c])
    <3>1. Cardinality(FramesOf(queue'[c])) <= Cardinality(FramesOf(queue[c]))
      BY <2>0, <2>2, FramesTail
    <3>2. Cardinality(FramesOf(queue'[c])) \in Nat
      BY <1>0, FramesFinite
    <3>3. Cardinality(FramesOf(queue'[c])) <= Backlog
      BY <1>0, <3>1, <3>2
    <3>4. QED
      BY <1>3, <2>1, <3>3 DEF FramesFit
  <2>3. CASE /\ entry.type = "replay" /\ n \in Nat
             /\ queue'[c] = <<[entry EXCEPT !.off = entry.off + n]>> \o Tail(queue[c])
    <3> DEFINE e == [entry EXCEPT !.off = entry.off + n]
    <3>1. e \in Entry /\ e.type = "replay"
      <4>1. entry \in [type : {"replay"}, off : Nat, to : Nat, version : Nat]
        BY <2>0, <2>3 DEF Entry
      <4>2. PICK k \in Nat : k = n
        BY <2>3
      <4>3. entry.off + k \in Nat
        BY <4>1
      <4>4. [entry EXCEPT !.off = entry.off + k] \in
              [type : {"replay"}, off : Nat, to : Nat, version : Nat]
        BY <4>1, <4>3
      <4>5. e \in [type : {"replay"}, off : Nat, to : Nat, version : Nat]
        BY <4>2, <4>4
      <4>6. QED
        BY <4>5 DEF Entry
    <3> HIDE DEF e
    <3>2. FramesOf(queue'[c]) = FramesOf(queue[c])
      BY <2>0, <2>3, <3>1, FramesReplay DEF e
    <3>3. QED
      BY <1>0, <1>3, <2>1, <3>2 DEF FramesFit
  <2>4. \/ queue'[c] = Tail(queue[c])
        \/ /\ entry.type = "replay" /\ n \in Nat
           /\ queue'[c] = <<[entry EXCEPT !.off = entry.off + n]>> \o Tail(queue[c])
    <3>1. PICK p \in [1 .. (Len(queue[c]) + 1) -> Nat] : Path(c, p)
      BY DEF OutputInv, ChannelsInv, ChannelInv, HasPath
    <3>2. Len(queue[c]) \in Nat \ {0}
      BY <2>0, EmptySeq
    <3>3. Fits(queue[c][1], p[1], p[1 + 1], stores, end, app) /\ p[1] \in Nat /\ p[1 + 1] \in Nat
      BY <3>1, <3>2 DEF Path
    <3>4. entry.type = "replay" => n \in Nat
      <4>1. entry.type = "replay" => entry.to - entry.off \in Nat
        BY <2>0, <3>3, ReplayFits
      <4>2. QED
        BY <4>1, OutputAssumption DEF Output!Least
    <3>5. \E next : queue' = [queue EXCEPT ![c] = next]
                    /\ (\/ next = Tail(queue[c])
                        \/ /\ entry.type = "replay"
                           /\ next = <<[entry EXCEPT !.off = entry.off + n]>> \o Tail(queue[c]))
      BY <1>8 DEF Output!Deliver
    <3>6. DOMAIN queue = Followers
      BY DEF OutputInv, OutputTyped
    <3>7. QED
      BY <3>4, <3>5, <3>6
  <2>5. QED
    BY <2>2, <2>3, <2>4
<1>9. ASSUME NEW c \in Followers, Output!Serve(c) PROVE FramesFit'
  <2>1. CASE Output!Subscribe(c)
    <3>1. PICK off \in Output!First .. end :
            queue' = [queue EXCEPT ![c] = <<Output!Ack>> \o
              (IF off < end THEN <<Output!Replay(off, end, Len(stores))>> ELSE <<>>)]
      BY <2>1 DEF Output!Subscribe
    <3>2. off \in Nat
      BY OutputAssumption DEF Output!First, OutputInv, OutputTyped
    <3>3. QED
      BY <1>7, <3>1, <3>2
  <2>2. CASE Output!SubscribeAll(c)
    <3>1. Output!First \in Nat
      BY OutputAssumption DEF Output!First, OutputInv, OutputTyped
    <3>2. QED
      BY <1>7, <2>2, <3>1 DEF Output!SubscribeAll
  <2>3. CASE Output!Closing(c) \/ Output!Close(c)
    BY <1>3, <2>3 DEF Output!Closing, Output!Close, FramesFit
  <2>4. CASE Output!Retire(c)
    <3>1. \A d \in Followers : queue'[d] = <<>> \/ queue'[d] = queue[d]
      BY <2>4 DEF Output!Retire, OutputInv, OutputTyped
    <3>2. QED
      BY <1>2, <1>3, <3>1 DEF FramesFit
  <2>5. QED
    BY <1>8, <1>9, <2>1, <2>2, <2>3, <2>4 DEF Output!Serve
<1>10. CASE Output!Crash
  BY <1>2, <1>10 DEF Output!Crash, FramesFit
<1>11. CASE \/ Output!KillServer \/ Output!Write \/ Output!ChildExits \/ Output!PipeCloses
            \/ Output!Read \/ Output!ReadFails \/ Output!WaitFails
            \/ \E m \in LogMonitors : Output!Poll(m)
  <2>1. queue' = queue
    BY <1>11 DEF Output!KillServer, Output!Write, Output!ChildExits, Output!PipeCloses,
       Output!Read, Output!ReadFails, Output!WaitFails, Output!Poll, Output!MonTarget, Output!MonProbe, Output!MonAgain,
       Output!MonLength, Output!MonRead, Output!MonDecide
  <2>2. QED
    BY <1>3, <2>1 DEF FramesFit
<1>12. CASE Output!KillSession \/ Output!Refresh
  BY <1>4, <1>12 DEF Output!KillSession, Output!Refresh
<1>13. QED
  BY <1>5, <1>6, <1>9, <1>10, <1>11, <1>12 DEF Output!Next

OutputFlags ==
  /\ open \in BOOLEAN /\ discard \in BOOLEAN /\ failure \in BOOLEAN
  /\ drained \in BOOLEAN /\ closing \in BOOLEAN /\ finish \in [Followers -> BOOLEAN]

LEMMA OutputFlagsStay == OutputFlags /\ [Output!Next]_(Output!vars) => OutputFlags'
<1> SUFFICES ASSUME OutputFlags, [Output!Next]_(Output!vars) PROVE OutputFlags'
  OBVIOUS
<1> USE DEF OutputFlags, Output!sessionVars, Output!outputVars, Output!channelVars, Output!monVars
<1>0. TRUE \in BOOLEAN /\ FALSE \in BOOLEAN
  OBVIOUS
<1>1. CASE Output!Launch
  BY <1>0, <1>1, Zenon DEF Output!Launch
<1>2. CASE Output!KillSession
  <2>1. finish' \in [Followers -> BOOLEAN]
    <3>1. \A c \in Followers : Output!PumpOf(c, end).finish \in BOOLEAN
      BY Zenon DEF Output!PumpOf
    <3>2. finish' = [c \in Followers |-> Output!PumpOf(c, end).finish]
      BY <1>2, Zenon DEF Output!KillSession, Output!Ended
    <3>3. QED
      BY <3>1, <3>2
  <2>2. QED
    BY <1>0, <1>2, <2>1, Zenon DEF Output!KillSession, Output!Ended
<1>3. CASE Output!KillServer
  BY <1>0, <1>3, Zenon DEF Output!KillServer
<1>4. CASE Output!Refresh
  <2>1. finish' \in [Followers -> BOOLEAN]
    <3>1. \A c \in Followers : Output!PumpOf(c, end).finish \in BOOLEAN
      BY Zenon DEF Output!PumpOf
    <3>2. finish' = [c \in Followers |-> Output!PumpOf(c, end).finish]
      BY <1>4, Zenon DEF Output!Refresh, Output!Ended
    <3>3. QED
      BY <3>1, <3>2
  <2>2. QED
    BY <1>0, <1>4, <2>1, Zenon DEF Output!Refresh, Output!Ended
<1>5. CASE Output!Crash
  BY <1>0, <1>5, Zenon DEF Output!Crash
<1>6. CASE Output!Write
  BY <1>0, <1>6, Zenon DEF Output!Write
<1>7. CASE Output!ChildExits
  BY <1>0, <1>7, Zenon DEF Output!ChildExits
<1>8. CASE Output!PipeCloses
  BY <1>0, <1>8, Zenon DEF Output!PipeCloses
<1>9. CASE Output!Read
  BY <1>0, <1>9, Zenon DEF Output!Read
<1>10. CASE Output!Ingest
  BY <1>0, <1>10, Zenon DEF Output!Ingest
<1>11. ASSUME NEW c \in Followers, Output!Subscribe(c) PROVE OutputFlags'
  BY <1>11, Zenon DEF Output!Subscribe
<1>12. ASSUME NEW c \in Followers, Output!SubscribeAll(c) PROVE OutputFlags'
  BY <1>12, Zenon DEF Output!SubscribeAll
<1>13. ASSUME NEW c \in Followers, Output!Closing(c) PROVE OutputFlags'
  BY <1>13, Zenon DEF Output!Closing
<1>14. ASSUME NEW c \in Followers, Output!Retire(c) PROVE OutputFlags'
  BY <1>14, Zenon DEF Output!Retire
<1>15. ASSUME NEW c \in Followers, Output!Deliver(c) PROVE OutputFlags'
  BY <1>15, Zenon DEF Output!Deliver
<1>16. ASSUME NEW c \in Followers, Output!Close(c) PROVE OutputFlags'
  BY <1>16, Zenon DEF Output!Close
<1>17. ASSUME NEW m \in LogMonitors, Output!MonTarget(m) PROVE OutputFlags'
  BY <1>17, Zenon DEF Output!MonTarget
<1>18. ASSUME NEW m \in LogMonitors, Output!MonProbe(m) PROVE OutputFlags'
  BY <1>18, Zenon DEF Output!MonProbe
<1>19. ASSUME NEW m \in LogMonitors, Output!MonAgain(m) PROVE OutputFlags'
  BY <1>19, Zenon DEF Output!MonAgain
<1>20. ASSUME NEW m \in LogMonitors, Output!MonLength(m) PROVE OutputFlags'
  BY <1>20, Zenon DEF Output!MonLength
<1>21. ASSUME NEW m \in LogMonitors, Output!MonRead(m) PROVE OutputFlags'
  BY <1>21, Zenon DEF Output!MonRead
<1>22. ASSUME NEW m \in LogMonitors, Output!MonDecide(m) PROVE OutputFlags'
  BY <1>22, Zenon DEF Output!MonDecide
<1>23. CASE UNCHANGED Output!vars
  BY <1>23 DEF Output!vars
<1>24. CASE Output!ReadFails
  BY <1>0, <1>24, Zenon DEF Output!ReadFails
<1>25. CASE Output!WaitFails
  BY <1>0, <1>25, Zenon DEF Output!WaitFails
<1>26. QED
  BY <1>1, <1>2, <1>3, <1>4, <1>5, <1>6, <1>7, <1>8, <1>9, <1>10, <1>11, <1>12, <1>13,
     <1>14, <1>15, <1>16, <1>17, <1>18, <1>19, <1>20, <1>21, <1>22, <1>23, <1>24, <1>25
     DEF Output!Next, Output!Serve, Output!Poll

(* Whoever follows the output, or the log, gets all of it before the end is reported: nothing
   of the output is lost on either way out of the daemon, whatever is written over while a
   replay is read, and however the session ends *)
THEOREM OutputIsWhole == Output!Spec => []OutputWhole
<1>1. OutputInv => OutputWhole
  BY DEF OutputInv, OutputWhole, Output!OutputWhole, Output!StreamWhole, Output!MonitorWhole,
     ChannelsInv, ChannelInv, SessionInv, MonitorsInv
<1>2. QED
  BY <1>1, OutputInit, OutputStep, PTL DEF Output!Spec

(* The output's part of the types: what is kept and queued is bounded, and the counts of
   bytes never overtake each other *)
THEOREM OutputTypes == Output!Spec => []Output!TypeOK
<1>1. Output!Init => FramesFit
  <2>1. ASSUME Output!Init PROVE FramesFit
    <3>1. ASSUME NEW c \in Followers PROVE Cardinality(FramesOf(queue[c])) <= Backlog
      <4>1. queue[c] = <<>>
        BY <2>1 DEF Output!Init
      <4>2. queue[c] \in Seq(Entry) /\ FramesOf(queue[c]) \subseteq {1}
        BY <4>1 DEF FramesOf
      <4>3. QED
        BY <4>2, FramesFew
    <3>2. QED
      BY <3>1 DEF FramesFit
  <2>2. QED
    BY <2>1
<1>2. OutputInv /\ OutputInv' /\ FramesFit /\ [Output!Next]_(Output!vars) => FramesFit'
  <2>1. ASSUME FramesFit, UNCHANGED Output!vars PROVE FramesFit'
    BY <2>1 DEF FramesFit, Output!vars, Output!channelVars
  <2>2. QED
    BY <2>1, FramesStep
<1>3. Output!Init => OutputFlags
  <2>1. ASSUME Output!Init PROVE OutputFlags
    <3>1. /\ open = FALSE /\ discard = FALSE /\ failure = FALSE /\ drained = FALSE
          /\ closing = FALSE /\ finish = [c \in Followers |-> FALSE]
      BY <2>1 DEF Output!Init
    <3>2. finish \in [Followers -> BOOLEAN]
      BY <3>1
    <3>3. QED
      BY <3>1, <3>2, Zenon DEF OutputFlags
  <2>2. QED
    BY <2>1
<1>4. OutputInv /\ FramesFit /\ OutputFlags => Output!TypeOK
  <2> SUFFICES ASSUME OutputInv, FramesFit, OutputFlags PROVE Output!TypeOK
    OBVIOUS
  <2>1. \A flag \in {open, discard, failure, drained, closing} : flag \in BOOLEAN
    BY Zenon DEF OutputFlags
  <2>2. /\ 0 <= end /\ end + held <= taken /\ taken <= written /\ written <= MaxOutput
        /\ (held > 0) = (reader = "holds")
        /\ end <= MaxOutput
    BY OutputAssumption DEF OutputInv, OutputTyped
  <2>3. final \in 0 .. MaxOutput \cup {Nil}
    BY <2>2 DEF OutputInv, OutputTyped, SessionInv
  <2>4. \A v \in DOMAIN stores : stores[v] \in Output!Store
    BY DEF OutputInv, OutputTyped
  <2>5. ASSUME NEW c \in Followers
        PROVE  Output!Cardinality({i \in DOMAIN queue[c] : queue[c][i].type # "replay"}) <= Backlog
    <3>1. Cardinality(FramesOf(queue[c])) <= Backlog
      BY DEF FramesFit
    <3>2. Output!Cardinality({i \in DOMAIN queue[c] : queue[c][i].type # "replay"})
            = Cardinality(FramesOf(queue[c]))
      BY DEF FramesOf, Output!Cardinality, Cardinality
    <3>3. QED
      BY <3>1, <3>2
  <2>6. \A c \in Followers :
          /\ chan[c] \in {"new", "open", "closed", "gone"}
          /\ kind[c] \in {"none", "launch", "uid", "all"}
          /\ from[c] \in 0 .. MaxOutput
          /\ observer[c] \in {"none", "live", "completed"}
          /\ exits[c] \in 0 .. 1
    BY DEF OutputInv, OutputTyped
  <2>7. \A c \in Followers : finish[c] \in BOOLEAN
    BY Zenon DEF OutputFlags
  <2>8. \A m \in LogMonitors : monOffset[m] <= monLength[m] \/ mon[m] = "length"
    BY DEF OutputInv, MonitorsInv
  <2>9. /\ mon \in [LogMonitors -> {"idle", "probe", "absent", "failed", "length", "read",
                                    "decide", "exit", "gone", "lost"}]
        /\ monDone \in [LogMonitors -> BOOLEAN]
        /\ app \in {"none", "runs", "removed", "lost"}
        /\ process \in {"none", "runs", "exited", "stopped"}
        /\ reader \in {"none", "reads", "holds", "done", "cancelled"}
    BY DEF OutputInv, OutputTyped, MonitorsInv
  <2>10. QED
    BY <2>1, <2>2, <2>3, <2>4, <2>5, <2>6, <2>7, <2>8, <2>9 DEF Output!TypeOK
<1>5. QED
  BY <1>1, <1>2, <1>3, <1>4, OutputFlagsStay, OutputInit, OutputStep, PTL DEF Output!Spec

-----------------------------------------------------------------------------
(* All of it together                                                          *)

(* Nothing of a launch that was cleaned up, and nothing of a repeat monitor that is over, is
   left running *)
THEOREM NothingIsLeftBehind == Launch!Spec /\ Repeat!Spec => []NothingLeftBehind
<1>1. Launch!NoChildLeft /\ Repeat!NothingLeft => NothingLeftBehind
  BY DEF NothingLeftBehind
<1>2. QED
  BY <1>1, LaunchLeavesNoChild, MonitorLeavesNothing, PTL

(* The types of all parts *)
THEOREM GhostmuxTypes ==
  Spec /\ Output!Spec /\ Launch!Spec /\ Repeat!Spec => []TypesOK
<1>1. TypeOK /\ Output!TypeOK /\ Launch!TypeOK /\ Repeat!TypeOK => TypesOK
  BY DEF TypesOK
<1>2. QED
  BY <1>1, StartupTypes, OutputTypes, LaunchTypes, RepeatTypes, PTL

=============================================================================
