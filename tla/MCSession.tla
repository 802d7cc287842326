----------------------------- MODULE MCSession -----------------------------
(***************************************************************************)
(* Session for TLC: a behaviour is one of one of the parts, chosen at the  *)
(* start, while the others stay where they begin.                          *)
(***************************************************************************)
EXTENDS Session

VARIABLE part

turnVars == <<vars, stuckVars, goalVars>>
wakeVars == <<shellVars, alarmVars>>
allVars == <<part, turnVars, wakeVars>>

MCInit ==
  /\ part \in {"hold", "stuck", "goal", "shell", "alarm"}
  /\ Init /\ Stuck!Init /\ Goal!Init /\ Bg!Init /\ Clock!Init

MCNext ==
  /\ UNCHANGED part
  /\ \/ /\ UNCHANGED wakeVars
        /\ \/ part = "hold" /\ Next /\ UNCHANGED <<stuckVars, goalVars>>
           \/ part = "stuck" /\ Stuck!Next /\ UNCHANGED <<vars, goalVars>>
           \/ part = "goal" /\ Goal!Next /\ UNCHANGED <<vars, stuckVars>>
     \/ /\ UNCHANGED turnVars
        /\ \/ part = "shell" /\ Bg!Next /\ UNCHANGED alarmVars
           \/ part = "alarm" /\ Clock!Next /\ UNCHANGED shellVars

(* The fairness of the parts, each while it is the one that runs *)
Fairness ==
  /\ WF_vars(part = "hold" /\ Tick) /\ WF_vars(part = "hold" /\ HoldEnds)
  /\ WF_goalVars(part = "goal" /\ Goal!AgentStart) /\ WF_goalVars(part = "goal" /\ Goal!Read)
  /\ WF_goalVars(part = "goal" /\ Goal!AgentEnd)
  /\ WF_goalVars(part = "goal" /\ \E e \in asked : Goal!Answer(e))
  /\ WF_alarmVars(part = "alarm" /\ Clock!Tick)
  /\ WF_alarmVars(part = "alarm" /\ Clock!ArmEnds)
  /\ WF_alarmVars(part = "alarm" /\ Clock!SessionStart)
  /\ WF_alarmVars(part = "alarm" /\ \E o \in toArm : Clock!ArmOne(o))
  /\ \A id \in Ids :
       WF_alarmVars(part = "alarm"
                    /\ \E t \in timers : Clock!Alarm(t.object).id = id /\ Clock!TimerFires(t))

MCSpec == MCInit /\ [][MCNext]_allVars /\ Fairness

-----------------------------------------------------------------------------
(* HoldSafe is that of SessionHold, the other safety properties are those of Session. *)

(* A hold whose sources fall silent ends, a goal does not run forever, and a pending alarm
   whose time comes fires *)
WaitsEnd == IdleHoldEnds /\ Goal!LoopEnds /\ Clock!AlarmFires

=============================================================================
