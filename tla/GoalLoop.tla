------------------------------- MODULE GoalLoop -------------------------------
(***************************************************************************)
(* The goal loop (packages/harness/src/lib/goal.ts, lib/goal-probe.ts and  *)
(* the /goal command in goal.ts).  After a run that ended well a forked    *)
(* agent is asked whether the goal is met; its answer arrives while the    *)
(* user, the agent and the session go on.  The answer ends the goal,       *)
(* pauses it, or starts another run, up to a budget of runs.               *)
(*                                                                         *)
(* A goal is told from another one by the number of the command that set   *)
(* it: two goals may have the same words.                                  *)
(***************************************************************************)
EXTENDS Integers, FiniteSets

CONSTANTS
  MaxTurns,     \* MAX_TURNS, 40 in the code
  MaxCommands,  \* bound on what the user does
  MaxUnkept     \* bound on entries that cannot be appended

NoGoal == [goal |-> 0, active |-> FALSE, paused |-> FALSE, turns |-> 0]

VARIABLES
  state,      \* GoalState, without its revision
  revision,   \* GoalState.revision
  late,       \* MAX_DURATION_MS have passed since the goal was set or resumed
  saved,      \* the last goal-state entry of the branch
  unkept,     \* entries that could not be appended
  history,    \* states that entries of the session hold, on any branch
  phase,      \* the agent: "idle" or "busy"
  mail,       \* a message that will start a run is queued
  probe,      \* the controller of the probe: its revision, or -1
  asked,      \* evaluations that will answer: [revision, goal, current]
  commands,   \* what the user did so far
  given       \* runs the loop started since the goal was set, resumed or restored

vars == <<state, revision, late, saved, history, unkept, phase, mail, probe, asked, commands,
          given>>

States == [goal : 0 .. MaxCommands, active : BOOLEAN, paused : BOOLEAN, turns : 0 .. MaxTurns + 1]

Init ==
  /\ state = NoGoal
  /\ revision = 0
  /\ late = FALSE
  /\ saved = NoGoal
  /\ history = {NoGoal}
  /\ unkept = 0
  /\ phase = "idle"
  /\ mail = FALSE
  /\ probe = -1
  /\ asked = {}
  /\ commands = 0
  /\ given = 0

Active(s) == s.active /\ ~s.paused
isGoalActive == Active(state)

(* persistGoal.  An entry that cannot be appended is given up without a word *)
Persist(s) ==
  /\ state' = s
  /\ \/ saved' = s /\ history' = history \cup {s} /\ UNCHANGED unkept
     \/ unkept < MaxUnkept /\ unkept' = unkept + 1 /\ UNCHANGED <<saved, history>>

(* The signal of the probe under way is aborted: its answer will not count *)
Cancelled == {[e EXCEPT !.current = FALSE] : e \in asked}
Cancel == probe' = -1 /\ asked' = Cancelled

-----------------------------------------------------------------------------
(* The user.  Each command is a new revision *)

Commands(may) ==
  /\ commands < MaxCommands
  /\ may
  /\ commands' = commands + 1

(* Mutant of SetGoal: the goal changes, its revision does not *)
SetGoalOver ==
  /\ Commands(TRUE)
  /\ Persist([goal |-> commands', active |-> TRUE, paused |-> FALSE, turns |-> 0])
  /\ late' = FALSE
  /\ given' = 0
  /\ mail' = TRUE
  /\ UNCHANGED <<revision, phase, probe, asked>>

SetGoal ==
  /\ Commands(TRUE)
  /\ revision' = revision + 1
  /\ Persist([goal |-> commands', active |-> TRUE, paused |-> FALSE, turns |-> 0])
  /\ late' = FALSE
  /\ given' = 0
  /\ mail' = TRUE
  /\ UNCHANGED <<phase, probe, asked>>

ClearGoal ==
  /\ Commands(TRUE)
  /\ revision' = revision + 1
  /\ Persist(NoGoal)
  /\ late' = FALSE
  /\ UNCHANGED <<phase, mail, probe, asked, given>>

PauseGoal ==
  /\ Commands(state.active)
  /\ revision' = revision + 1
  /\ Persist([state EXCEPT !.paused = TRUE])
  /\ UNCHANGED <<late, phase, mail, probe, asked, given>>

(* Resuming starts a run if the agent is idle *)
ResumeGoal ==
  /\ Commands(state.active)
  /\ revision' = revision + 1
  /\ Persist([state EXCEPT !.paused = FALSE, !.turns = 0])
  /\ late' = FALSE
  /\ given' = 0
  /\ mail' = (mail \/ phase = "idle")
  /\ UNCHANGED <<phase, probe, asked>>

(* A prompt of the user that has nothing to do with the goal *)
Prompt ==
  /\ Commands(TRUE)
  /\ mail' = TRUE
  /\ UNCHANGED <<state, revision, late, saved, history, unkept, phase, probe, asked, given>>

(* Turns that a restored goal has used already *)
Used(s) == IF s.turns > MaxTurns THEN MaxTurns ELSE s.turns

(* session_tree: another branch becomes the current one.  reconstructGoal takes the last
   entry that is on it *)
SessionTree(s) ==
  /\ Commands(phase = "idle")
  /\ revision' = revision + 1
  /\ state' = s /\ saved' = s
  /\ late' \in BOOLEAN
  /\ given' = Used(s)
  /\ Cancel
  /\ UNCHANGED <<history, unkept, phase, mail>>

(* session_start, in a new process: what could not be appended is forgotten *)
Restart ==
  /\ Commands(TRUE)
  /\ revision' = revision + 1
  /\ state' = saved
  /\ given' = IF saved = state THEN given ELSE Used(saved)
  /\ probe' = -1 /\ asked' = {}
  /\ phase' = "idle" /\ mail' = FALSE
  /\ late' \in BOOLEAN
  /\ UNCHANGED <<saved, history, unkept>>

TimePasses ==
  /\ ~late /\ isGoalActive
  /\ late' = TRUE
  /\ UNCHANGED <<state, revision, saved, history, unkept, phase, mail, probe, asked, commands,
                 given>>

-----------------------------------------------------------------------------
(* The agent *)

(* Mutant of AgentStart: the probe goes on beside the run *)
AgentStartBeside ==
  /\ phase = "idle" /\ mail
  /\ phase' = "busy"
  /\ mail' = FALSE
  /\ UNCHANGED <<state, revision, late, saved, history, unkept, probe, asked, commands, given>>

AgentStart ==
  /\ phase = "idle" /\ mail
  /\ phase' = "busy"
  /\ mail' = FALSE
  /\ Cancel
  /\ UNCHANGED <<state, revision, late, saved, history, unkept, commands, given>>

(* A queued message is read by the run in progress *)
Read ==
  /\ phase = "busy" /\ mail
  /\ mail' = FALSE
  /\ UNCHANGED <<state, revision, late, saved, history, unkept, phase, probe, asked, commands,
                 given>>

(* agent_end.  A run that ended well, with nothing else pending, starts the probe *)
AgentEnd ==
  /\ phase = "busy" /\ ~mail
  /\ phase' = "idle"
  /\ \/ /\ isGoalActive
        /\ probe' = revision
        /\ asked' = Cancelled \cup {[revision |-> revision, goal |-> state.goal,
                                     current |-> TRUE]}
     \/ UNCHANGED <<probe, asked>>   \* an error, an abort, other pending work, no goal
  /\ UNCHANGED <<state, revision, late, saved, history, unkept, mail, commands, given>>

-----------------------------------------------------------------------------
(* The evaluation's answer *)

Current(e) == e.current /\ isGoalActive /\ revision = e.revision

Answered(e) ==
  /\ asked' = asked \ {e}
  /\ probe' = IF e.current THEN -1 ELSE probe

(* Too late, or cancelled *)
AnswerDropped(e) ==
  /\ e \in asked /\ ~Current(e)
  /\ Answered(e)
  /\ UNCHANGED <<state, revision, late, saved, history, unkept, phase, mail, commands, given>>

(* YES: achieveGoal *)
Met(e) ==
  /\ e \in asked /\ Current(e)
  /\ Answered(e)
  /\ revision' = revision + 1
  /\ Persist(NoGoal)
  /\ late' = FALSE
  /\ UNCHANGED <<phase, mail, commands, given>>

(* The probe failed: budgetPauseGoal *)
EvaluationFailed(e) ==
  /\ e \in asked /\ Current(e)
  /\ Answered(e)
  /\ Persist([state EXCEPT !.paused = TRUE])
  /\ UNCHANGED <<revision, late, phase, mail, commands, given>>

(* Mutant of Continue: another run, uncounted *)
ContinueForever == mail' = TRUE /\ UNCHANGED <<state, saved, history, unkept, given>>

(* continueGoal, and goalStuckResume for a run that waits for other work: another run
   within the budget, a pause beyond it *)
Continue ==
  LET next == [state EXCEPT !.turns = @ + 1] IN
  IF next.turns > MaxTurns \/ late
  THEN Persist([next EXCEPT !.paused = TRUE]) /\ UNCHANGED <<mail, given>>
  ELSE /\ Persist(next)
       /\ mail' = TRUE
       /\ given' = given + 1

(* NO, or an answer that is neither *)
NotMet(e) ==
  /\ e \in asked /\ Current(e)
  /\ Answered(e)
  /\ Continue
  /\ UNCHANGED <<revision, late, phase, commands>>

(* The anti-stuck check of a wait *)
StuckResume ==
  /\ phase = "idle" /\ ~mail /\ probe = -1 /\ isGoalActive
  /\ Continue
  /\ UNCHANGED <<revision, late, phase, probe, asked, commands>>

-----------------------------------------------------------------------------
Answer(e) == AnswerDropped(e) \/ Met(e) \/ EvaluationFailed(e) \/ NotMet(e)

User ==
  \/ SetGoal \/ ClearGoal \/ PauseGoal \/ ResumeGoal \/ Prompt \/ Restart
  \/ \E s \in history : SessionTree(s)

Next ==
  \/ User \/ TimePasses
  \/ AgentStart \/ Read \/ AgentEnd \/ StuckResume
  \/ \E e \in asked : Answer(e)

(* Runs end, and a probe answers or times out *)
Spec ==
  /\ Init /\ [][Next]_vars
  /\ WF_vars(AgentStart) /\ WF_vars(Read) /\ WF_vars(AgentEnd)
  /\ WF_vars(\E e \in asked : Answer(e))

-----------------------------------------------------------------------------
(* Properties *)

(* Types, and the controller belongs to the evaluation that can still count *)
TypeOK ==
  /\ state \in States /\ saved \in States /\ history \subseteq States
  /\ revision \in Nat
  /\ unkept \in Nat
  /\ late \in BOOLEAN
  /\ phase \in {"idle", "busy"}
  /\ mail \in BOOLEAN
  /\ asked \subseteq [revision : Nat, goal : 1 .. MaxCommands, current : BOOLEAN]
  /\ probe = -1 \/ \E e \in asked : e.current /\ e.revision = probe
  /\ commands \in 0 .. MaxCommands
  /\ given \in Nat

(* An answer ends, pauses or continues only the goal it is about *)
AnswerIsAboutGoal ==
  [][\A e \in asked : Answer(e) /\ state' # state => e.goal = state.goal]_vars

(* No evaluation whose answer counts runs beside the agent, and there is one at a time
   (docs/goals.md: evaluation happens between turns) *)
EvaluatedBetweenRuns ==
  /\ phase = "busy" => \A e \in asked : ~e.current
  /\ \A e, f \in asked : e.current /\ f.current => e = f

(* The loop starts no more than MaxTurns runs without the user, and neither a restart nor
   a return to this branch gives the budget back: what they restore is in force, unless
   an entry could not be appended *)
WithinBudget == given <= MaxTurns /\ (saved = state \/ unkept > 0)

(* A goal does not run forever: once the user stays away it is met, paused, or waits
   with the agent idle *)
LoopEnds ==
  []<>(~isGoalActive \/ (phase = "idle" /\ ~mail /\ probe = -1))

=============================================================================
