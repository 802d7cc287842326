------------------------------ MODULE Ghostmux ------------------------------
(***************************************************************************)
(* Ghostmux and what the harness does with it: how clients find a daemon,  *)
(* which is this module's own, the output of a session with connections    *)
(* that follow it and monitors that follow its log, one launch of a shell, *)
(* and a monitor that repeats a command.  As modelled they share no state. *)
(***************************************************************************)
EXTENDS Integers, Sequences, GhostmuxStartup

CONSTANTS
  Followers, LogMonitors, MaxOutput, MaxLog, Ring, Chunk, Ready, Backlog, Nil

VARIABLES
  app, process, open, written, taken, reader, held, discard, failure, drained, end, stores,
  final, closing, chan, kind, from, queue, observer, finish, bytes, exits,
  mon, monDone, monLength, monOffset,
  launch, launchAborted, pidKnown, launchClient, launchReap, onAbort, reaped, file, daemon,
  request, kill, listed, launched,
  task, running, breached, failed, observing, joined, follower, cleanup, starting, woken,
  timer, signalSent, stopSignal, sending, reap, place, offered, aborted, finished, told, child

Output == INSTANCE GhostmuxSession WITH
  Channels <- Followers, Monitors <- LogMonitors, child <- process, stopping <- closing
Launch == INSTANCE ShellLaunch WITH
  aborted <- launchAborted, client <- launchClient, reap <- launchReap, child <- launched
Repeat == INSTANCE RepeatMonitor WITH launch <- starting, client <- follower

outputVars == <<app, process, open, written, taken, reader, held, discard, failure, drained,
                end, stores, final, closing, chan, kind, from, queue, observer, finish,
                bytes, exits, mon, monDone, monLength, monOffset>>
launchVars == <<launch, launchAborted, pidKnown, launchClient, launchReap, onAbort, reaped,
                file, daemon, request, kill, listed, launched>>
repeatVars == <<task, running, breached, failed, observing, joined, follower, cleanup, starting,
                woken, timer, signalSent, stopSignal, sending, reap, place, offered, aborted,
                finished, told, child>>

(* The ring has the bytes of a read (asserted in output.zig), and a connection's queue has
   room for the acknowledgement *)
ASSUME OutputAssumption ==
  /\ MaxOutput \in Nat /\ MaxLog \in Nat /\ Ready \in Nat
  /\ Ring \in Nat \ {0} /\ Chunk \in 1 .. Ring
  /\ Backlog \in Nat \ {0} /\ Nil \notin Nat /\ Nil \notin Followers

-----------------------------------------------------------------------------
(* Types, and the relations of state that the parts' type invariants state  *)
TypesOK == TypeOK /\ Output!TypeOK /\ Launch!TypeOK /\ Repeat!TypeOK

(* Whoever follows the output, or the log, gets all of it before the end     *)
OutputWhole == Output!OutputWhole

(* A launch that was cleaned up has no child and will have none, and a       *)
(* repeat monitor whose operation is finished has left nothing               *)
NothingLeftBehind == Launch!NoChildLeft /\ Repeat!NothingLeft

=============================================================================
