---------------------------- MODULE Conversations ----------------------------
(***************************************************************************)
(* What several write and read together later: the board of tuidos, what   *)
(* hangs on its cards, the conversation of a session with its compactions, *)
(* and the accounts of what sessions cost.  As modelled they share no      *)
(* state.                                                                  *)
(***************************************************************************)
EXTENDS Integers, FiniteSets, Sequences

CONSTANTS
  Editors, Defaults, MaxColumns, MaxTasks, MaxPosition, Nil,
  Clients, Cards, Topics, Messages, Media, Blobs,
  Dirs, Launch, Files, Above, Trusted, MaxEntries, MaxTroubles,
  Sessions, Runs, Sub, Old, MaxAnswers, MaxUsed, MaxForks, MaxStarts, MaxFaults

VARIABLES
  project, columns, tasks, requests,
  shownCards, topics, tags, messages, media, blobs, cut, calls,
  cwd, seen, session, saved, branch, work, troubles,
  log, costs, phase, at, runId, reason, ledgers, ledger, lastSent, pending, sub, captured, open,
  used, subSent, subPending, subMail, up, mail, by, sessionOf, starts, forks, faults

Board == INSTANCE Board WITH Clients <- Editors
Thread == INSTANCE CardThread
Context == INSTANCE Compaction
Costs == INSTANCE CostTree WITH None <- Nil

boardVars == <<project, columns, tasks, requests>>
threadVars == <<shownCards, topics, tags, messages, media, blobs, cut, calls>>
contextVars == <<cwd, seen, session, saved, branch, work, troubles>>
costVars == <<log, costs, phase, at, runId, reason, ledgers, ledger, lastSent, pending, sub,
              captured, open, used, subSent, subPending, subMail, up, mail, by, sessionOf,
              starts, forks, faults>>

(* The directory the process was started in is one of those it works in *)
ASSUME ConversationsAssumption ==
  /\ MaxColumns \in Nat /\ MaxTasks \in Nat /\ MaxPosition \in Nat /\ Defaults \in Seq(STRING)
  /\ Nil \notin Topics \cup Messages \cup Cards \cup Blobs
  /\ Launch \in Dirs /\ Above \in [Dirs -> SUBSET Files] /\ Trusted \in BOOLEAN
  /\ MaxEntries \in Nat /\ MaxTroubles \in Nat
  /\ Nil \notin Sessions \cup Runs /\ Sub \notin Runs /\ Old \in Sessions
  /\ MaxAnswers \in Nat \ {0} /\ MaxUsed \in Nat /\ MaxFaults \in Nat

-----------------------------------------------------------------------------
(* Types, and the relations of state that the parts' type invariants state  *)
TypesOK == Board!TypeOK /\ Thread!TypeOK /\ Context!TypeOK /\ Costs!TypeOK

(* A card that is shown is in a column that is shown, and no two cards of a column have one
   place; the file of an attachment is there, and whole unless a write was cut *)
BoardsSafe == Board!CardsInSight /\ Thread!MediaHasBlob

(* Only its own move changes where a column stands, and a new one is last; an attachment is
   on a message of the card that was named *)
BoardsKeep == Board!ColumnsKeepOrder /\ Thread!MediaOfItsCard

(* A summary is about the very entries whose place it takes                 *)
SummaryFits == Context!SummaryFits

(* A compaction does not take from the model the instructions it works under *)
CompactionKeeps == Context!CompactionKeeps

(* What was spent is counted once, in the run that spent it, and what a subagent was told is
   counted is saved *)
CostsSafe ==
  /\ Costs!LedgerIsSaved /\ Costs!AcknowledgedIsSaved /\ Costs!CountedOnce
  /\ Costs!CountsItsOwn

=============================================================================
