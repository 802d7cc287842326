--------------------------- MODULE MCRepeatMonitor ---------------------------
(***************************************************************************)
(* A repeat monitor and the user who cancels it, with one signal and then  *)
(* with another.                                                           *)
(***************************************************************************)
EXTENDS RepeatMonitor

VARIABLE killed   \* it was sent SIGKILL

MCInit == Init /\ killed = FALSE

MCNext ==
  \/ Stop("KILL") /\ killed' = TRUE
  \/ Next /\ UNCHANGED killed

allVars == <<vars, killed>>

MCSpec == MCInit /\ [][MCNext]_allVars /\ Fairness

-----------------------------------------------------------------------------
(* SIGKILL cancels a monitor: its child ends, or the clean-up is left to be *)
(* tried again and the owner of the session is told so.                     *)
KillEndsChild == killed /\ child = "alive" ~> child # "alive" \/ offered

=============================================================================
