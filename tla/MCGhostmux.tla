----------------------------- MODULE MCGhostmux -----------------------------
(***************************************************************************)
(* Ghostmux for TLC: a behaviour is one of one of the parts, chosen at the *)
(* start, and an output is followed by connections or by monitors.         *)
(***************************************************************************)
EXTENDS Ghostmux

VARIABLE part

channels == <<chan, kind, from, queue, observer, finish, bytes, exits>>
monitors == <<mon, monDone, monLength, monOffset>>
allVars == <<part, vars, outputVars, launchVars, repeatVars>>

\* Parts that do not run have one initial state each.
MCInit ==
  /\ part \in {"startup", "stream", "follow", "launch", "repeat"}
  /\ Init
  /\ part # "startup" => socket = None /\ op = [c \in Clients |-> "ask"]
  /\ Output!Init
  /\ Launch!Init
  /\ part # "launch" => daemon = "idle"
  /\ Repeat!Init

MCNext ==
  /\ UNCHANGED part
  /\ \/ part = "startup" /\ Next /\ UNCHANGED <<outputVars, launchVars, repeatVars>>
     \/ /\ UNCHANGED <<vars, launchVars, repeatVars>>
        /\ \/ part = "stream" /\ Output!Next /\ UNCHANGED monitors
           \/ part = "follow" /\ Output!Next /\ UNCHANGED channels
     \/ part = "launch" /\ Launch!Next /\ UNCHANGED <<vars, outputVars, repeatVars>>
     \/ part = "repeat" /\ Repeat!Next /\ UNCHANGED <<vars, outputVars, launchVars>>

(* The fairness of the parts, each while it is the one that runs *)
Fairness ==
  /\ WF_outputVars(part = "stream" /\ Output!Read)
  /\ WF_outputVars(part = "stream" /\ Output!Ingest)
  /\ WF_outputVars(part = "stream" /\ Output!Refresh)
  /\ \A c \in Followers : WF_outputVars(part = "stream" /\ Output!Retire(c))
  /\ WF_repeatVars(part = "repeat" /\ Repeat!Iteration)
  /\ WF_repeatVars(part = "repeat" /\ Repeat!Native)
  /\ WF_repeatVars(part = "repeat" /\ Repeat!Breach)
  /\ \A o \in {"timeout", "signal", "quit", "abort", "retry"} :
       WF_repeatVars(part = "repeat" /\ Repeat!Other(o))

MCSpec == MCInit /\ [][MCNext]_allVars /\ Fairness

-----------------------------------------------------------------------------
(* StartupSafe is that of GhostmuxStartup, the other safety properties are   *)
(* those of Ghostmux.                                                        *)

(* A connection nobody reads does not hold up the child, and whoever ends a  *)
(* repeat monitor is answered                                                *)
NobodyIsHeldUp == (part = "stream" => Output!OutputGoesOn) /\ Repeat!ShutdownEnds

=============================================================================
