---------------------------- MODULE RepeatMonitor ----------------------------
(***************************************************************************)
(* A repeat monitor: a command is run again and again, until it fails,     *)
(* takes too long, or is stopped.                                          *)
(*                                                                         *)
(* The loop is one task.  Around it, at any of its awaits, come the        *)
(* timeout of the run, signals of the user, the end of the program and the *)
(* end of the session's storage, with a clean-up that may be tried again.  *)
(* All of them join the native child through one shared join; the storage  *)
(* operation is finished when nothing of the monitor is left.              *)
(***************************************************************************)

VARIABLES
  task,        \* where the loop is
  running, breached, failed,
  observing,   \* events of the child are looked at
  joined,      \* the child of the last run is known to be gone
  client,      \* there is a client for the child
  cleanup,     \* a launch that failed left its clean-up to be tried again
  launch,      \* the launch of this run
  woken,       \* what the await of the loop was resolved with
  timer,       \* the timer that is set
  signalSent, stopSignal,
  sending,     \* the signal on its way
  reap,        \* the join: where it is
  place,       \* who else waits for the join, or for what comes after it
  offered,     \* the storage operation was given a clean-up to try again
  aborted,     \* the storage operation was aborted
  finished,    \* the storage operation is finished
  told,        \* the end was made known to the session
  child

loopVars == <<task, running, breached, failed, timer, woken>>
childVars == <<observing, joined, client, cleanup, launch, child>>
signalVars == <<signalSent, stopSignal, sending>>
storageVars == <<offered, aborted, finished, told>>
joinVars == <<reap, place>>
vars == <<loopVars, childVars, signalVars, storageVars, joinVars>>

Others == {"timeout", "signal", "quit", "abort", "retry"}
Enders == {"quit", "abort", "retry"}

TypeOK ==
  /\ task \in {"loop", "launching", "stats", "subscribing", "follows", "waiting",
               "failing", "closing", "cancelled", "over"} \cup {"joins", "joined", "refused"}
  /\ \A flag \in {running, breached, failed, observing, joined, client, cleanup, signalSent,
                  offered, aborted, finished, told} : flag \in BOOLEAN
  /\ launch \in {"none", "flying", "ok", "failed"}
  /\ woken \in {"no", "null", "zero", "nonzero"}
  /\ timer \in {"off", "breach", "next"}
  /\ stopSignal \in {"none", "KILL", "other"} /\ sending \in {"none", "KILL", "other"}
  /\ reap \in {"none", "launching", "cleaning", "reaping"}
  /\ place \in [Others -> {"none", "joins", "awaits", "closing", "done", "failed"}]
  /\ child \in {"none", "alive", "ended"}

Init ==
  /\ task = "loop" /\ running = TRUE /\ breached = FALSE /\ failed = FALSE
  /\ observing = FALSE /\ joined = FALSE /\ client = FALSE /\ cleanup = FALSE
  /\ launch = "none" /\ woken = "no" /\ timer = "off"
  /\ signalSent = FALSE /\ stopSignal = "none" /\ sending = "none"
  /\ reap = "none" /\ place = [o \in Others |-> "none"]
  /\ offered = FALSE /\ aborted = FALSE /\ finished = FALSE /\ told = FALSE
  /\ child = "none"

-----------------------------------------------------------------------------

\* The first to wake the await decides what it is resolved with.
Wake(value) ==
  woken' = IF task \in {"subscribing", "follows", "waiting"} /\ woken = "no"
             THEN value ELSE woken

\* A join: the one that is under way, or a new one.
JoinReap == reap' = IF reap = "none" THEN "launching" ELSE reap

Joins(o) == JoinReap /\ place' = [place EXCEPT ![o] = "joins"]

\* The native writer is not known to be gone.
Unjoined == cleanup \/ (client /\ ~joined)

\* The session is that of the monitor.
Notify == told' = (told \/ stopSignal # "KILL")
NotifyStopped == IF stopSignal # "none" THEN Notify ELSE UNCHANGED told

-----------------------------------------------------------------------------
(* signal_repeat_child, stop_repeat *)

\* The child is sent the first stop signal, once.
SignalChild(signal, has) ==
  IF has /\ ~joined /\ ~signalSent
    THEN signalSent' = TRUE /\ sending' = signal
    ELSE UNCHANGED <<signalSent, sending>>

Default(signal) == IF signal = "none" THEN "other" ELSE signal

\* By sh_signal, or without a signal by the end of a session or an error of the log.
Stop(signal) ==
  /\ ~finished
  /\ running' = FALSE /\ timer' = "off"
  /\ stopSignal' = IF stopSignal = "none" THEN signal ELSE stopSignal
  /\ IF observing THEN UNCHANGED woken ELSE Wake("null")
  /\ SignalChild(Default(stopSignal'), client)
  /\ UNCHANGED <<task, breached, failed, childVars, storageVars, joinVars>>

\* SIGKILL is the clean-up of the child; of the others, only what the child does of it.
Signalled ==
  /\ sending # "none"
  /\ sending' = "none"
  /\ \/ /\ child' \in (IF child # "alive" THEN {child}
                       ELSE IF sending = "KILL" THEN {"ended"}
                       ELSE {"ended", "alive"})
        /\ UNCHANGED <<offered, woken, joinVars>>
     \/ \* It failed: a child that has ended is joined, the rest is left to be tried again.
        /\ UNCHANGED child
        /\ IF joined THEN UNCHANGED <<offered, woken, joinVars>>
           ELSE \/ /\ child = "ended" /\ place["signal"] = "none"
                   /\ Wake("nonzero") /\ Joins("signal") /\ UNCHANGED offered
                \/ offered' = TRUE /\ UNCHANGED <<woken, joinVars>>
  /\ UNCHANGED <<task, running, breached, failed, timer, observing, joined, client, cleanup,
                 launch, signalSent, stopSignal, aborted, finished, told>>

-----------------------------------------------------------------------------
(* join_repeat_native *)

Joined ==
  /\ cleanup' = FALSE /\ joined' = TRUE /\ observing' = FALSE
  /\ Wake("null")

Joining == {o \in Others : place[o] = "joins"}

\* A shutdown reports the failure; a retry can come again.
Failed(o) == IF o \in {"quit", "abort"} THEN "failed" ELSE "none"

\* Whoever waits for the join goes on: those that end the monitor to the end of the loop.
Resolve(verdict) ==
  /\ reap' = "none"
  /\ task' = IF task = "joins" THEN verdict ELSE task
  /\ place' = [o \in Others |->
       IF o \notin Joining THEN place[o]
       ELSE IF verdict = "refused" THEN Failed(o)
       ELSE IF o \in Enders THEN "awaits" ELSE "none"]
  /\ offered' = (offered \/ /\ verdict = "refused"
                            /\ \E o \in Joining : o # "signal" \/ ~joined)

\* A launch that is under way is not waited for.
ReapNow ==
  /\ reap = "launching"
  /\ reap' = "cleaning"
  /\ UNCHANGED <<loopVars, childVars, signalVars, storageVars, place>>

\* The loop hears of the launch before the join does.
ReapLaunching ==
  /\ reap = "launching"
  /\ launch # "flying" /\ task # "launching"
  /\ reap' = "cleaning"
  /\ UNCHANGED <<loopVars, childVars, signalVars, storageVars, place>>

\* The clean-up of the launch, if there is one.
ReapCleaning ==
  /\ reap = "cleaning"
  /\ IF cleanup
       THEN \/ child' = (IF child = "alive" THEN "ended" ELSE child)
               /\ reap' = "reaping" /\ UNCHANGED <<place, task, offered>>
            \/ Resolve("refused") /\ UNCHANGED child
       ELSE reap' = "reaping" /\ UNCHANGED <<child, place, task, offered>>
  /\ UNCHANGED <<running, breached, failed, timer, woken, observing, joined, client, cleanup,
                 launch, signalVars, aborted, finished, told>>

\* The child is and its end confirmed.
Reap ==
  /\ reap = "reaping"
  /\ \/ /\ child' = IF client /\ ~joined /\ child = "alive" THEN "ended" ELSE child
        /\ Joined /\ Resolve("joined")
     \/ /\ client /\ ~joined
        /\ Resolve("refused")
        /\ UNCHANGED <<child, cleanup, joined, observing, woken>>
  /\ UNCHANGED <<running, breached, failed, timer, client, launch, signalVars, aborted, finished,
                 told>>

-----------------------------------------------------------------------------
(* runRepeat, runIteration *)

\* The loop has ended: the log is closed, if no writer is left.
Close(state) ==
  IF Unjoined THEN task' = "over" /\ offered' = TRUE ELSE task' = state /\ UNCHANGED offered

End ==
  /\ running' = FALSE /\ timer' = "off" /\ woken' = "no"
  /\ Close(IF running \/ failed THEN "closing" ELSE "cancelled")

\* A run is over: stopped, given up, or to be repeated after a while.
After(code) ==
  IF running /\ ~breached /\ code = "zero"
    THEN task' = "waiting" /\ timer' = "next" /\ woken' = "no" /\ UNCHANGED <<running, offered>>
    ELSE End

\* Left to a clean-up that is tried again if a signal has been sent, else joined here.
Fail ==
  /\ failed' = TRUE /\ running' = FALSE /\ timer' = "off" /\ woken' = "no"
  /\ IF stopSignal # "none" /\ ~aborted /\ Unjoined
       THEN task' = "over" /\ offered' = TRUE
       ELSE task' = "failing" /\ UNCHANGED offered

Loop ==
  /\ task = "loop"
  /\ IF running /\ ~breached
       THEN /\ task' = "launching" /\ launch' = "flying" /\ woken' = "no"
            /\ observing' = TRUE /\ joined' = FALSE /\ client' = FALSE /\ signalSent' = FALSE
            /\ UNCHANGED <<running, timer, offered>>
       ELSE End /\ UNCHANGED <<launch, observing, joined, client, signalSent>>
  /\ UNCHANGED <<breached, failed, cleanup, child, stopSignal, sending, aborted, finished,
                 told, joinVars>>

\* launchMonitor: a child, or none, or a clean-up that could not be confirmed.
LaunchSettles ==
  /\ launch = "flying"
  /\ \/ launch' = "ok" /\ child' \in {"alive", "ended"} /\ UNCHANGED <<cleanup, offered>>
     \/ launch' = "failed" /\ child' = "ended" /\ UNCHANGED <<cleanup, offered>>
     \/ launch' = "failed" /\ child' \in {"alive", "ended"} /\ cleanup' = TRUE /\ offered' = TRUE
  /\ UNCHANGED <<loopVars, observing, joined, client, signalVars, aborted, finished, told,
                 joinVars>>

\* A monitor that was stopped meanwhile passes the signal on.
Launched ==
  /\ task = "launching" /\ launch \in {"ok", "failed"}
  /\ launch' = "none"
  /\ IF launch = "ok"
       THEN /\ client' = TRUE
            /\ IF joined THEN After("null") /\ UNCHANGED <<signalSent, sending>>
               ELSE /\ task' = "stats" /\ UNCHANGED <<running, timer, woken, offered>>
                    /\ IF ~running /\ ~aborted
                         THEN SignalChild(Default(stopSignal), TRUE)
                         ELSE UNCHANGED <<signalSent, sending>>
            /\ UNCHANGED failed
       ELSE Fail /\ UNCHANGED <<client, signalSent, sending>>
  /\ UNCHANGED <<breached, observing, joined, cleanup, child, stopSignal,
                 aborted, finished, told, joinVars>>

\* Its status is read; the run gets its timeout.
Stats ==
  /\ task = "stats"
  /\ \/ /\ IF joined THEN After("null")
           ELSE /\ task' = "subscribing" /\ woken' = "no"
                /\ timer' = IF running THEN "breach" ELSE "off"
                /\ UNCHANGED <<running, offered>>
        /\ UNCHANGED failed
     \/ Fail
  /\ UNCHANGED <<breached, childVars, signalVars, aborted, finished, told, joinVars>>

\* A client that was closed meanwhile refuses, unless it has reported the end.
Subscribed ==
  /\ task = "subscribing"
  /\ \/ /\ ~joined \/ woken # "no"
        /\ task' = "follows" /\ UNCHANGED <<running, failed, timer, woken, offered>>
     \/ Fail
  /\ UNCHANGED <<breached, childVars, signalVars, aborted, finished, told, joinVars>>

\* The client reports the end of the child, or that it has lost it.
Reported ==
  /\ task \in {"subscribing", "follows"} /\ observing
  /\ \/ child = "ended" /\ \E code \in {"zero", "nonzero"} : Wake(code)
     \/ Wake("null")
  /\ UNCHANGED <<task, running, breached, failed, timer, childVars, signalVars, storageVars,
                 joinVars>>

Exited ==
  /\ task = "follows" /\ woken # "no"
  /\ IF woken = "null" /\ ~joined
       THEN Fail /\ UNCHANGED reap
       ELSE /\ task' = "joins" /\ JoinReap /\ timer' = "off"
            /\ UNCHANGED <<running, failed, woken, offered>>
  /\ UNCHANGED <<breached, childVars, signalVars, aborted, finished, told, place>>

\* The join of the loop: after a run, or after an error.
IterationJoined ==
  /\ task \in {"joined", "refused"} /\ ~failed
  /\ IF task = "joined" THEN After(woken) /\ UNCHANGED failed ELSE Fail
  /\ UNCHANGED <<breached, childVars, signalVars, aborted, finished, told, joinVars>>

Failing ==
  /\ task = "failing"
  /\ task' = "joins" /\ JoinReap
  /\ UNCHANGED <<running, breached, failed, timer, woken, childVars, signalVars, storageVars, place>>

FailureJoined ==
  /\ task \in {"joined", "refused"} /\ failed
  /\ IF task = "joined" THEN End
                        ELSE task' = "over" /\ offered' = TRUE /\ UNCHANGED <<running, timer, woken>>
  /\ UNCHANGED <<breached, failed, childVars, signalVars, aborted, finished, told, joinVars>>

Waited ==
  /\ task = "waiting" /\ (woken # "no" \/ timer = "next")
  /\ task' = "loop" /\ timer' = "off" /\ woken' = "no"
  /\ UNCHANGED <<running, breached, failed, childVars, signalVars, storageVars, joinVars>>

\* The log is closed: the operation is finished and the end is made known.
LoopClosed ==
  /\ task \in {"closing", "cancelled"}
  /\ task' = "over" /\ finished' = TRUE
  /\ IF stopSignal # "none" \/ task = "closing" THEN Notify ELSE UNCHANGED told
  /\ UNCHANGED <<running, breached, failed, timer, woken, childVars, signalVars, offered, aborted,
                 joinVars>>

-----------------------------------------------------------------------------
(* Others that join the child *)

Breach ==
  /\ timer = "breach" /\ place["timeout"] = "none"
  /\ timer' = "off" /\ breached' = TRUE
  /\ Joins("timeout")
  /\ UNCHANGED <<task, running, failed, woken, childVars, signalVars, storageVars>>

\* Waits for the loop first, which waits for the child.
ShutdownAwaits(o) ==
  /\ o \in {"quit", "abort"} /\ place[o] = "none" /\ ~finished
  /\ aborted' = (aborted \/ o = "abort")
  /\ running' = FALSE /\ signalSent' = TRUE /\ timer' = "off"
  /\ IF observing THEN UNCHANGED woken ELSE Wake("null")
  /\ place' = [place EXCEPT ![o] = "awaits"]
  /\ UNCHANGED <<task, breached, failed, childVars, stopSignal, sending, offered,
                 finished, told, reap>>

\* join_repeat_shutdown: at the end of the program, or when the storage is closed.
Shutdown(o) ==
  /\ o \in {"quit", "abort"} /\ place[o] = "none" /\ ~finished
  /\ aborted' = (aborted \/ o = "abort")
  /\ running' = FALSE /\ signalSent' = TRUE /\ timer' = "off"
  /\ IF observing THEN UNCHANGED woken ELSE Wake("null")
  /\ Joins(o)
  /\ UNCHANGED <<task, breached, failed, childVars, stopSignal, sending, offered, finished, told>>

\* The clean-up that was left is tried again.
Retry ==
  /\ offered /\ ~finished /\ aborted
  /\ place["retry"] = "none"
  /\ Joins("retry")
  /\ UNCHANGED <<loopVars, childVars, signalVars, storageVars>>

\* The loop has ended.
Awaited(o) ==
  /\ place[o] = "awaits" /\ task = "over"
  /\ IF Unjoined THEN place' = [place EXCEPT ![o] = Failed(o)] /\ offered' = TRUE
                 ELSE place' = [place EXCEPT ![o] = "closing"] /\ UNCHANGED offered
  /\ UNCHANGED <<loopVars, childVars, signalVars, aborted, finished, told, reap>>

ClosedOther(o) ==
  /\ place[o] = "closing"
  /\ place' = [place EXCEPT ![o] = "done"]
  /\ finished' = TRUE
  /\ NotifyStopped
  /\ UNCHANGED <<loopVars, childVars, signalVars, offered, aborted, reap>>

ChildExits ==
  /\ child = "alive"
  /\ child' = "ended"
  /\ UNCHANGED <<loopVars, observing, joined, client, cleanup, launch, signalVars, storageVars,
                 joinVars>>

Iteration ==
  \/ Loop \/ Launched \/ Stats \/ Subscribed \/ Exited \/ IterationJoined \/ Failing
  \/ FailureJoined \/ Waited \/ LoopClosed
Native == LaunchSettles \/ Signalled \/ ReapLaunching \/ ReapCleaning \/ Reap
Other(o) == Awaited(o) \/ ClosedOther(o)

Next ==
  \/ Iteration \/ Native \/ Reported \/ Breach \/ Retry \/ ChildExits
  \/ \E signal \in {"none", "KILL", "other"} : Stop(signal)
  \/ \E o \in Others : Other(o) \/ Shutdown(o)

Fairness ==
  /\ WF_vars(Iteration) /\ WF_vars(Native) /\ WF_vars(Breach)
  /\ \A o \in Others : WF_vars(Other(o))

Spec == Init /\ [][Next]_vars /\ Fairness

-----------------------------------------------------------------------------
(* When the operation is finished no child is left and none is on its way, *)
(* so the files of the session can go; and a monitor somebody stopped with *)
(* anything but SIGKILL has made its end known.                            *)
NothingLeft ==
  finished => /\ child # "alive" /\ launch # "flying"
              /\ task = "over" /\ stopSignal = "other" => told

(* Whoever ends the monitor, at whichever of its awaits, gets to the end   *)
(* or is told that a clean-up is pending: the loop, the join and those who *)
(* wait for both never wait for one another.                               *)
ShutdownEnds ==
  \A o \in {"quit", "abort"} : place[o] # "none" ~> place[o] \in {"done", "failed"}

=============================================================================
