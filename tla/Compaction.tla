----------------------------- MODULE Compaction -----------------------------
(***************************************************************************)
(* The instructions a session's agent works under (AGENTS.md files of the  *)
(* directories above the one it works in), and the compaction that puts a  *)
(* summary in place of the older part of the conversation                  *)
(* (packages/harness/src/cwd.ts, lib/agents.ts, lib/compaction*.ts).       *)
(*                                                                         *)
(* Files are shown once in a process: the set of those shown is global and *)
(* is never reset.  A summary takes minutes to write.  Meanwhile the       *)
(* session goes on: alarms and shells report, the user edits or rewinds    *)
(* the conversation, a woken agent changes its directory.                  *)
(*                                                                         *)
(* A branch is the sequence of entries from the root of the session to its *)
(* leaf.  Entries that neither show a file nor can be edited are left out, *)
(* and so are the reminders of the working directory: they are recomputed  *)
(* for each request.                                                       *)
(***************************************************************************)
EXTENDS Integers, Sequences, FiniteSets

CONSTANTS
  Dirs,          \* directories the agent may work in
  Launch,        \* the one the process was started in
  Files,         \* instruction files
  Above,         \* Above[d]: the files in d and in the directories above it
  Trusted,       \* the user trusts the project
  MaxEntries,    \* bounds: entries of a branch,
  MaxTroubles    \*   rewinds, failures, new sessions and restarts together

VARIABLES
  cwd,       \* the logical working directory of the process
  seen,      \* files counted as shown, in this process
  session,   \* number of the session in this process
  saved,     \* the working directory that the session's file records last
  branch,    \* the entries of the conversation
  work,      \* the compaction under way
  troubles   \* how many of those there were

vars == <<cwd, seen, session, saved, branch, work, troubles>>

NoWork == [session |-> 0, source |-> <<>>]

(* What the host itself puts in the system prompt *)
System == Above[Launch]

-----------------------------------------------------------------------------
(* The conversation as the model sees it *)

Largest(S) == CHOOSE n \in S : \A m \in S : m <= n

Compacted(b) == Largest({0} \cup {i \in DOMAIN b : b[i].kind = "compaction"})

Index(b, id) == CHOOSE i \in DOMAIN b : b[i].id = id

MessagesOf(b) == {i \in DOMAIN b : b[i].kind \in {"cd", "tool", "text"}}

(* The last compaction stands for all entries before the first that it kept *)
Projected(b) ==
  IF Compacted(b) = 0 THEN MessagesOf(b)
  ELSE {Compacted(b)}
         \cup {i \in MessagesOf(b) : i >= Index(b, b[Compacted(b)].first)}

(* An entry, and the edit that gives its present text (0: none) *)
Content(b, i) ==
  [id |-> b[i].id,
   edit |-> Largest({0} \cup {b[j].id : j \in {k \in DOMAIN b :
                                 b[k].kind = "edit" /\ b[k].of = b[i].id}})]

(* What a summary covers when messages from index f on are kept *)
Summarized(b, f) ==
  {Content(b, i) : i \in {j \in Projected(b) : j = Compacted(b) \/ j < f}}

(* The bodies that set_cwd showed before a checkpoint are taken out: the checkpoint has
   those that matter *)
Stripped(b, i) ==
  LET c == Compacted(b) IN
  c # 0 /\ b[c].checkpoint /\ b[i].kind = "cd" /\ i <= Index(b, b[c].boundary)

Shown(b, i) ==
  CASE b[i].kind = "compaction" -> b[i].documents
    [] b[i].kind = "text" -> {}
    [] OTHER -> IF Stripped(b, i) THEN {} ELSE b[i].shown

(* The instruction files whose text is before the model *)
Context(b) == System \cup UNION {Shown(b, i) : i \in Projected(b)}

-----------------------------------------------------------------------------
(* An identifier that no entry and no compaction under way knows *)
Fresh ==
  1 + Largest({0} \cup {branch[i].id : i \in DOMAIN branch}
                \cup {work.source[i] : i \in DOMAIN work.source})

Message(kind, files) == [kind |-> kind, id |-> Fresh, shown |-> files]

Grow(e) ==
  /\ Len(branch) < MaxEntries
  /\ branch' = Append(branch, e)

Trouble == troubles < MaxTroubles /\ troubles' = troubles + 1

(* surfaceNewAgents: the files of a directory that this process has not shown *)
New(d) == Above[d] \ seen

(* The files a checkpoint restores *)
Documents(d) == IF Trusted THEN Above[d] \ System ELSE {}

Init ==
  /\ cwd = Launch /\ saved = Launch /\ seen = System
  /\ session = 1 /\ branch = <<>> /\ work = NoWork
  /\ troubles = 0

SetCwd(d) ==
  /\ Grow(Message("cd", New(d)))
  /\ seen' = seen \cup Above[d] /\ cwd' = d /\ saved' = d
  /\ UNCHANGED <<session, work, troubles>>

(* A file is read or edited, or a shell changes to a directory: its result shows the
   files *)
Use(d) ==
  /\ New(d) # {}
  /\ Grow(Message("tool", New(d)))
  /\ seen' = seen \cup Above[d]
  /\ UNCHANGED <<cwd, session, saved, work, troubles>>

(* The shell's environment file cannot be read: the tool throws after it took the files
   as shown, and its result is the error *)
UseFails(d) ==
  /\ New(d) # {} /\ Trouble
  /\ Grow(Message("text", {}))
  /\ seen' = seen \cup Above[d]
  /\ UNCHANGED <<cwd, session, saved, work>>

(* A prompt, an answer, a notification *)
Say ==
  /\ Grow(Message("text", {}))
  /\ UNCHANGED <<cwd, seen, session, saved, work, troubles>>

(* The user edits a message, or leaves it out *)
Edit(i) ==
  /\ branch[i].kind = "text"
  /\ Grow([kind |-> "edit", id |-> Fresh, of |-> branch[i].id])
  /\ UNCHANGED <<cwd, seen, session, saved, work, troubles>>

(* The conversation is taken up again from an earlier entry; the directory stays *)
Rewind(n) ==
  /\ Trouble
  /\ branch' = SubSeq(branch, 1, n)
  /\ UNCHANGED <<cwd, seen, session, saved, work>>

(* session_start of a session without entries, in the same process *)
NewSession ==
  /\ Trouble
  /\ session' = session + 1 /\ branch' = <<>> /\ cwd' = Launch /\ saved' = Launch
  /\ UNCHANGED <<seen, work>>

(* session_start of a new process that opens the session again: the files of the
   directory it finds recorded count as shown *)
Restart ==
  /\ Trouble
  /\ cwd' = saved /\ seen' = Above[saved] /\ work' = NoWork
  /\ UNCHANGED <<session, saved, branch>>

-----------------------------------------------------------------------------
(* session_before_compact: the host chose the first message to keep; the boundary is
   noted, the references are collected, and a model is asked for the summary *)
Prepare(f) ==
  /\ work = NoWork /\ f \in Projected(branch) \ {Compacted(branch)}
  /\ Summarized(branch, f) # {}
  /\ work' = [session |-> session, first |-> branch[f].id,
              source |-> [i \in DOMAIN branch |-> branch[i].id],
              about |-> Summarized(branch, f), documents |-> Documents(cwd)]
  /\ UNCHANGED <<cwd, seen, session, saved, branch, troubles>>

(* A mutant: the check overlooks edits *)
CurrentNoEdits ==
  /\ work.session = session
  /\ Len(branch) >= Len(work.source)
  /\ \A i \in DOMAIN work.source : branch[i].id = work.source[i]
  /\ \A i \in Len(work.source) + 1 .. Len(branch) : branch[i].kind # "compaction"

(* The history that the summary is about was neither replaced nor edited *)
Current ==
  /\ work.session = session
  /\ Len(branch) >= Len(work.source)
  /\ \A i \in DOMAIN work.source : branch[i].id = work.source[i]
  /\ \A i \in Len(work.source) + 1 .. Len(branch) :
       /\ branch[i].kind # "compaction"
       /\ branch[i].kind = "edit" => \A c \in work.about : c.id # branch[i].of

(* A mutant: the checkpoint is the one made at the start *)
RestoredEarly == work.documents

(* What the checkpoint restores is collected anew *)
Restored == Documents(cwd)

(* The summary is there: the compaction is recorded with its checkpoint *)
Commit ==
  /\ work # NoWork /\ Current
  /\ Grow([kind |-> "compaction", id |-> Fresh, first |-> work.first,
           boundary |-> work.source[Len(work.source)], checkpoint |-> TRUE,
           documents |-> Restored, about |-> work.about])
  /\ work' = NoWork
  /\ UNCHANGED <<cwd, seen, session, saved, troubles>>

(* The history changed, no summary came, it was too long or the user aborted *)
Cancel ==
  /\ work # NoWork /\ work' = NoWork
  /\ UNCHANGED <<cwd, seen, session, saved, branch, troubles>>

(* A compaction of someone else, without a checkpoint, while one is under way *)
Compete(f) ==
  /\ work # NoWork /\ f \in Projected(branch) \ {Compacted(branch)}
  /\ Grow([kind |-> "compaction", id |-> Fresh, first |-> branch[f].id,
           boundary |-> 0, checkpoint |-> FALSE, documents |-> {}, about |-> {}])
  /\ UNCHANGED <<cwd, seen, session, saved, work, troubles>>

Next ==
  \/ \E d \in Dirs : SetCwd(d) \/ Use(d) \/ UseFails(d)
  \/ Say \/ NewSession \/ Restart \/ Commit \/ Cancel
  \/ \E i \in DOMAIN branch : Edit(i) \/ Prepare(i) \/ Compete(i)
  \/ \E n \in 1 .. Len(branch) - 1 : Rewind(n)

Spec == Init /\ [][Next]_vars

-----------------------------------------------------------------------------
Ids == Nat

Entries ==
  [kind : {"cd", "tool", "text"}, id : Ids, shown : SUBSET Files]
    \cup [kind : {"edit"}, id : Ids, of : Ids]
    \cup [kind : {"compaction"}, id : Ids, first : Ids, boundary : Ids,
          checkpoint : BOOLEAN, documents : SUBSET Files,
          about : SUBSET [id : Ids, edit : Ids]]

(* Types; identifiers grow along a branch; a compaction keeps from a message before it,
   and its boundary lies between the two; the working directory is the recorded one *)
TypeOK ==
  /\ {cwd, saved} \subseteq Dirs /\ seen \subseteq Files
  /\ session \in 1 .. troubles + 1
  /\ \A i \in DOMAIN branch : branch[i] \in Entries
  /\ \A i \in 2 .. Len(branch) : branch[i - 1].id < branch[i].id
  /\ \A i \in DOMAIN branch : branch[i].kind = "compaction" =>
       /\ \E k \in MessagesOf(branch) : branch[k].id = branch[i].first
       /\ branch[i].checkpoint =>
            branch[i].first <= branch[i].boundary /\ branch[i].boundary < branch[i].id
  /\ cwd = saved

(* A summary that took the place of entries is about those entries as the model saw them
   up to then: none was left out, none was edited meanwhile, and none is kept besides
   (compaction-boundary.ts:31-49) *)
SummaryFits ==
  \A i \in DOMAIN branch :
    branch[i].kind = "compaction" /\ branch[i].checkpoint =>
      LET before == SubSeq(branch, 1, i - 1) IN
      branch[i].about = Summarized(before, Index(before, branch[i].first))

(* A compaction of a trusted project never takes from the model an instruction file of
   the directory it works in when the compaction ends, wherever it worked when the
   compaction began (compaction.ts:366-371, compaction-references.ts:196-209) *)
CompactionKeeps ==
  [][Trusted /\ Len(branch') > Len(branch) /\ branch'[Len(branch')].kind = "compaction"
       /\ branch'[Len(branch')].checkpoint
       => Above[cwd] \cap Context(branch) \subseteq Context(branch')]_vars

(* "cpi surfaces newly-entered trees' files": the instructions of the directory that the
   agent works in are before it (lib/agents.ts:1) *)
InstructionsHere == Above[cwd] \subseteq Context(branch)

=============================================================================
