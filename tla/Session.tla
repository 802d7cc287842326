------------------------------ MODULE Session ------------------------------
(***************************************************************************)
(* What goes on between the turns of a session's agent: the hold of the    *)
(* session, which is this module's own, the anti-stuck check and the goal  *)
(* loop when a turn ends, and background shells and alarms, which wake an  *)
(* idle agent.  As modelled they share no state.                           *)
(***************************************************************************)
EXTENDS SessionHold, Sequences

CONSTANTS
  MaxSession, MaxProbes,                                     \* anti-stuck check
  MaxTurns, MaxCommands, MaxUnkept,                          \* goal loop
  BgShells, MaxCrashes, MaxLeaves, MaxReloads,               \* background shells
  Ids, MaxTime, MaxSets, MaxCancels, MaxMoves, MaxStarts, MaxAlarm, TimerLimit  \* alarms

VARIABLES
  session, stuckPhase, waiting, timer, controller, probes, stuckMade, resumed,
  state, revision, late, saved, history, unkept, goalPhase, goalMail, probe, asked, commands,
  given,
  process, shellPhase, via, todo, file, cache, unwritten, fore, bg, silenced,
  steer, before, told, interrupted, returned, leaves,
  now, alarmPhase, made, alarms, fired, timers, toArm, unsaved, entries, leaf,
  fires, budget

Stuck == INSTANCE AntiStuck WITH phase <- stuckPhase, made <- stuckMade
Goal == INSTANCE GoalLoop WITH phase <- goalPhase, mail <- goalMail
Bg == INSTANCE BackgroundShells
        WITH Shells <- BgShells, phase <- shellPhase, budget <- leaves
Clock == INSTANCE Alarms WITH phase <- alarmPhase

stuckVars == <<session, stuckPhase, waiting, timer, controller, probes, stuckMade, resumed>>
goalVars == <<state, revision, late, saved, history, unkept, goalPhase, goalMail, probe,
              asked, commands, given>>
shellVars == <<process, shellPhase, via, todo, file, cache, unwritten, fore, bg,
               silenced, steer, before, told, interrupted, returned, leaves>>
alarmVars == <<now, alarmPhase, made, alarms, fired, timers, toArm, unsaved, entries,
               leaf, fires, budget>>

(* The bounds are numbers, and there is a session *)
Limits == MaxSources \in Nat /\ MaxQueued \in Nat /\ MaxMail \in Nat
AlarmLimits == MaxTime \in Nat /\ MaxAlarm \in Nat

ASSUME SessionAssumption ==
  /\ Limits /\ AlarmLimits
  /\ MaxSession \in Nat \ {0} /\ MaxProbes \in Nat
  /\ MaxTurns \in Nat /\ MaxCommands \in Nat /\ MaxUnkept \in Nat

-----------------------------------------------------------------------------
(* Types, and the relations of state that the parts' type invariants state *)
TypesOK ==
  TypeOK /\ Stuck!TypeOK /\ Goal!TypeOK /\ Bg!TypeOK /\ Clock!TypeOK

(* A stale answer never wakes a session, and a wait that has a clock goes on being checked;
   goals are evaluated between runs, one evaluation at a time, within the budget of turns *)
LoopsSafe ==
  /\ Stuck!NoStaleAnswer /\ Stuck!CheckGoesOn
  /\ Goal!EvaluatedBetweenRuns /\ Goal!WithinBudget

(* An answer ends, pauses or continues only the goal it is about *)
AnswerIsAboutGoal == Goal!AnswerIsAboutGoal

(* The agent is told of each completion, once, and of none that was acknowledged or
   belongs to a detached shell *)
ToldExactly == Bg!ToldExactly

(* What was killed is not told of *)
SuppressedIsQuiet == Bg!SuppressedIsQuiet

(* An alarm fires where it is armed, once on a branch, and has its timer *)
AlarmSafe == Clock!FiresWhereArmed /\ Clock!OncePerBranch /\ Clock!ArmedHasTimer

=============================================================================
