------------------------------ MODULE FileEdit ------------------------------
(***************************************************************************)
(* The tools write, edit and apply_patch on one file (llm-editor/tool.ts,  *)
(* file-edit.ts, editor.ts, subagent.ts, lock.ts).  Calls for the same     *)
(* path queue up in their thread; threads of subagents have queues of      *)
(* their own, and shells, editors and people need none.  A call that       *)
(* edits reads the file, computes what becomes of it, for `edit` with a    *)
(* model that may be corrected a few times, and replaces the file.         *)
(*                                                                         *)
(* Of a file's content only the changes in it matter: each call leaves its *)
(* mark, and an edit keeps the marks it has read.                          *)
(***************************************************************************)
EXTENDS Integers, Sequences, FiniteSets

CONSTANTS
  Calls,           \* calls of the tools, each made once
  KindsOf,         \* of each the kinds it may be: "write", "edit" or "patch"
  ThreadOf,        \* the thread it is made in
  MaxCorrections,  \* maxCorrectionTurns
  MaxOutside,      \* bound on what others do to the file
  MaxFaults,       \* bound on operations that fail and threads that end
  None             \* no file, nothing read, no answer yet

VARIABLES
  file,            \* None or [node, marks]: which file it is, and what is in it
  chain,           \* of each thread the calls queued for the path, the holder first
  kind, pc,        \* of each call; "done" with a result
  read,            \* the marks it has read
  outcome,         \* of the model's last candidate: "none", "retryable", "fatal", "applied"
  turns, sent,     \* candidates received and corrections sent
  aborted, timedOut,  \* the calls that were, and whose model was too slow
  staging,         \* the calls whose staging file exists
  recovery,        \* the calls whose text was saved elsewhere
  result,
  outside, faults  \* counters

askVars == <<outcome, turns, sent, timedOut>>
diskVars == <<file, staging, recovery>>
vars == <<diskVars, chain, kind, pc, read, askVars, aborted, result, outside, faults>>

Threads == {ThreadOf[c] : c \in Calls}

Init ==
  /\ file \in {None, [node |-> "before", marks |-> {}]}
  /\ chain = [t \in Threads |-> <<>>]
  /\ kind \in [Calls -> {"write", "edit", "patch"}] /\ \A c \in Calls : kind[c] \in KindsOf[c]
  /\ pc = [c \in Calls |-> "none"]
  /\ read = [c \in Calls |-> None]
  /\ outcome = [c \in Calls |-> "none"]
  /\ turns = [c \in Calls |-> 0] /\ sent = [c \in Calls |-> 0]
  /\ aborted = {} /\ timedOut = {}
  /\ staging = {} /\ recovery = {}
  /\ result = [c \in Calls |-> None]
  /\ outside = 0 /\ faults = 0

Goes(c, to) == pc' = [pc EXCEPT ![c] = to]
Fault == faults < MaxFaults /\ faults' = faults + 1
NoFault == UNCHANGED faults

-----------------------------------------------------------------------------
(* withPathLock: after everyone who came before, and until it has its answer *)

Invoke(c) ==
  /\ pc[c] = "none"
  /\ Goes(c, "queued")
  /\ chain' = [chain EXCEPT ![ThreadOf[c]] = Append(@, c)]
  /\ UNCHANGED <<diskVars, kind, read, askVars, aborted, result, outside, faults>>

(* Mutant of Holds: the next one does not wait for those before *)
HoldsWithAll(c) == \E k \in DOMAIN chain[ThreadOf[c]] : chain[ThreadOf[c]][k] = c

Holds(c) == Head(chain[ThreadOf[c]]) = c

Enters(c) == pc[c] = "queued" /\ Holds(c)

(* Mutant of Answer: a call that was aborted leaves without letting the next one in *)
AnswerKeepsLock(c, answer) ==
  /\ Goes(c, "done")
  /\ result' = [result EXCEPT ![c] = answer]
  /\ chain' = IF answer = "aborted" THEN chain
              ELSE [chain EXCEPT ![ThreadOf[c]] = Tail(@)]

Answer(c, answer) ==
  /\ Goes(c, "done")
  /\ result' = [result EXCEPT ![c] = answer]
  /\ chain' = [chain EXCEPT ![ThreadOf[c]] = Tail(@)]

(* The caller no longer waits; a write does not look *)
Abort(c) ==
  /\ pc[c] \notin {"none", "done"} /\ kind[c] # "write"
  /\ aborted' = aborted \cup {c}
  /\ UNCHANGED <<diskVars, chain, kind, pc, read, askVars, result, outside, faults>>

-----------------------------------------------------------------------------
(* executeWrite: a new file, which nobody may have made before *)

WriteCreates(c) ==
  /\ Enters(c) /\ kind[c] = "write"
  /\ \/ Answer(c, "failed") /\ Fault /\ UNCHANGED file
     \/ /\ file = None /\ file' = [node |-> c, marks |-> {}]
        /\ Goes(c, "writing") /\ NoFault /\ UNCHANGED <<result, chain>>
     \/ /\ file # None
        /\ Goes(c, "saving") /\ NoFault /\ UNCHANGED <<file, result, chain>>
  /\ UNCHANGED <<staging, recovery, kind, read, askVars, aborted, outside>>

(* Its text goes to the file it has created, whatever has become of that *)
WriteFills(c) ==
  /\ pc[c] = "writing"
  /\ \/ /\ NoFault
        /\ file' = IF file # None /\ file.node = c THEN [file EXCEPT !.marks = {c}] ELSE file
        /\ Goes(c, "reporting") /\ UNCHANGED <<result, chain>>
     \/ Answer(c, "failed") /\ Fault /\ UNCHANGED file
  /\ UNCHANGED <<staging, recovery, kind, read, askVars, aborted, outside>>

(* There is a file: the text is kept for the agent *)
WriteSaves(c) ==
  /\ pc[c] = "saving"
  /\ \/ NoFault /\ recovery' = recovery \cup {c} /\ Answer(c, "saved")
     \/ Fault /\ UNCHANGED recovery /\ Answer(c, "exists")
  /\ UNCHANGED <<file, staging, kind, read, askVars, aborted, outside>>

-----------------------------------------------------------------------------
(* withFileEdit: read, update, replace *)

EditReads(c) ==
  /\ Enters(c) /\ kind[c] # "write"
  /\ IF c \in aborted THEN Answer(c, "aborted") /\ NoFault /\ UNCHANGED read
     ELSE IF file = None THEN Answer(c, "failed") /\ NoFault /\ UNCHANGED read
     ELSE \/ Answer(c, "failed") /\ Fault /\ UNCHANGED read
          \/ /\ read' = [read EXCEPT ![c] = file.marks]
             /\ Goes(c, "updating") /\ NoFault /\ UNCHANGED <<result, chain>>
  /\ UNCHANGED <<diskVars, kind, askVars, aborted, outside>>

(* applyPatchFile: a patch applies to what was read or does not; an edit asks a model *)
Updates(c) ==
  /\ pc[c] = "updating"
  /\ IF c \in aborted THEN Answer(c, "aborted")
     ELSE \/ kind[c] = "patch" /\ Answer(c, "failed")
          \/ kind[c] = "patch" /\ Goes(c, "staging") /\ UNCHANGED <<result, chain>>
          \/ kind[c] = "edit" /\ Goes(c, "asking") /\ UNCHANGED <<result, chain>>
  /\ UNCHANGED <<diskVars, kind, read, askVars, aborted, outside, faults>>

(* onMessage, onCandidate: what the model answers is validated against what was read; the
   run goes on with a correction or is told to finish *)
Candidate(c, found) ==
  /\ pc[c] = "asking"
  /\ IF c \in aborted \cup timedOut
     THEN Goes(c, "finishing") /\ UNCHANGED <<outcome, turns, sent>>
     ELSE /\ outcome' = [outcome EXCEPT ![c] = found]
          /\ turns' = [turns EXCEPT ![c] = @ + 1]
          /\ IF found = "retryable" /\ sent[c] < MaxCorrections
             THEN sent' = [sent EXCEPT ![c] = @ + 1] /\ UNCHANGED pc
             ELSE Goes(c, "finishing") /\ UNCHANGED sent
  /\ UNCHANGED <<diskVars, chain, kind, read, timedOut, aborted, result, outside, faults>>

(* The timer of the call *)
TimesOut(c) ==
  /\ pc[c] \in {"asking", "finishing"} /\ c \notin timedOut
  /\ timedOut' = timedOut \cup {c}
  /\ UNCHANGED <<diskVars, chain, kind, pc, read, outcome, turns, sent, aborted, result, outside,
                 faults>>

(* The run has ended: it was told to, was terminated, or ended by itself, with an error or
   without one *)
RunEnds(c) ==
  /\ pc[c] \in {"asking", "finishing"}
  /\ \/ pc[c] = "finishing" /\ NoFault
     \/ c \in aborted \cup timedOut /\ NoFault
     \/ Fault
  /\ IF c \in timedOut THEN Answer(c, "timeout")
     ELSE IF c \in aborted THEN Answer(c, "aborted")
     ELSE \/ faults' # faults /\ Answer(c, "failed")
          \/ /\ outcome[c] # "applied" \/ sent[c] >= turns[c]
             /\ Answer(c, "failed")
          \/ /\ outcome[c] = "applied" /\ sent[c] < turns[c]
             /\ Goes(c, "staging") /\ UNCHANGED <<result, chain>>
  /\ UNCHANGED <<diskVars, kind, read, askVars, aborted, outside>>

(* The new content is written beside the file *)
Stages(c) ==
  /\ pc[c] = "staging"
  /\ \/ NoFault /\ staging' = staging \cup {c} /\ Goes(c, "staged")
        /\ UNCHANGED <<result, chain>>
     \/ Fault /\ UNCHANGED staging /\ Answer(c, "failed")
  /\ UNCHANGED <<file, recovery, kind, read, askVars, aborted, outside>>

(* Mutant of Replaces: the caller is looked after when the file is there already *)
ReplacesFirst(c) ==
  /\ pc[c] = "staged"
  /\ staging' = staging \ {c}
  /\ file' = [node |-> c, marks |-> read[c] \cup {c}]
  /\ IF c \in aborted THEN Answer(c, "aborted")
     ELSE Goes(c, "reporting") /\ UNCHANGED <<result, chain>>
  /\ UNCHANGED <<recovery, kind, read, askVars, aborted, outside, faults>>

(* and put in its place, unless the caller no longer wants it *)
Replaces(c) ==
  /\ pc[c] = "staged"
  /\ IF c \in aborted
     THEN /\ Answer(c, "aborted") /\ UNCHANGED file
          /\ \/ staging' = staging \ {c} /\ NoFault
             \/ UNCHANGED staging /\ Fault
     ELSE /\ staging' = staging \ {c}
          /\ \/ /\ file' = [node |-> c, marks |-> read[c] \cup {c}]
                /\ Goes(c, "reporting") /\ UNCHANGED <<result, chain>> /\ NoFault
             \/ Answer(c, "failed") /\ UNCHANGED file /\ Fault
  /\ UNCHANGED <<recovery, kind, read, askVars, aborted, outside>>

(* lspFields, under the lock *)
Reports(c) ==
  /\ pc[c] = "reporting"
  /\ Answer(c, "ok")
  /\ UNCHANGED <<diskVars, kind, read, askVars, aborted, outside, faults>>

-----------------------------------------------------------------------------
(* Others *)

(* A thread ends with its calls *)
Dies(t) ==
  /\ Fault
  /\ \E c \in Calls : ThreadOf[c] = t /\ pc[c] \notin {"none", "done"}
  /\ LET lost == {c \in Calls : ThreadOf[c] = t /\ pc[c] # "done"} IN
       /\ pc' = [c \in Calls |-> IF c \in lost THEN "done" ELSE pc[c]]
       /\ result' = [c \in Calls |-> IF c \in lost THEN "died" ELSE result[c]]
  /\ chain' = [chain EXCEPT ![t] = <<>>]
  /\ UNCHANGED <<diskVars, kind, read, askVars, aborted, outside>>

(* Commands of a shell and the user's editor write to the file, or remove it *)
Outside ==
  /\ outside < MaxOutside /\ outside' = outside + 1
  /\ LET mark == <<"outside", outside>> IN
       \/ file' = IF file = None THEN [node |-> mark, marks |-> {mark}]
                  ELSE [file EXCEPT !.marks = @ \cup {mark}]
       \/ file # None /\ file' = None
  /\ UNCHANGED <<staging, recovery, chain, kind, pc, read, askVars, aborted, result, faults>>

(* What a call does without waiting for a model *)
Step(c) ==
  \/ WriteCreates(c) \/ WriteFills(c) \/ WriteSaves(c)
  \/ EditReads(c) \/ Updates(c) \/ TimesOut(c) \/ RunEnds(c)
  \/ Stages(c) \/ Replaces(c) \/ Reports(c)

Next ==
  \/ \E c \in Calls : Invoke(c) \/ Abort(c) \/ Step(c)
  \/ \E c \in Calls, found \in {"retryable", "fatal", "applied"} : Candidate(c, found)
  \/ \E t \in Threads : Dies(t)
  \/ Outside

Fairness == \A c \in Calls : WF_vars(Step(c))
Spec == Init /\ [][Next]_vars /\ Fairness

-----------------------------------------------------------------------------
(* Types.  One call at a time has left the queue of its thread; no correction is asked for
   beyond the turns that the run was given, which would end it with an error; what is left
   beside the file an operation that failed or a thread that ended has left there *)
TypeOK ==
  /\ file # None => file.marks \subseteq Calls \cup ({"outside"} \X (0 .. MaxOutside))
  /\ \A t \in Threads : \A k \in 2 .. Len(chain[t]) : pc[chain[t][k]] = "queued"
  /\ \A c \in Calls : pc[c] \notin {"none", "done"} <=>
                       \E k \in DOMAIN chain[ThreadOf[c]] : chain[ThreadOf[c]][k] = c
  /\ \A c \in Calls : pc[c] = "asking" => turns[c] = sent[c] /\ turns[c] <= MaxCorrections
  /\ \A c \in Calls : (pc[c] = "done") = (result[c] # None)
  /\ Cardinality({c \in staging : pc[c] = "done"}) <= faults

(* A call that was told an error has changed nothing: what it would have written is not in the
   file, however late it was aborted, timed out or failed *)
ErrorChangesNothing ==
  \A c \in Calls :
    file # None /\ c \in file.marks => pc[c] = "reporting" \/ result[c] \in {"ok", "died"}

(* Call d of another thread had read m, and has put it back since c read the file *)
PutBack(m, c) ==
  \E d \in Calls : d \in file.marks \ read[c] /\ ThreadOf[d] # ThreadOf[c] /\ m \in read[d]

(* A call undoes one of another thread only if it read the file before that came, and one of
   its own thread only if that was gone when it read the file, and another thread put it back
   since.  A write undoes nothing.  And what is told of as done was there *)
KeepsEdits ==
  /\ \A m \in Calls :
       /\ file # None /\ m \in file.marks
       /\ file' = None \/ m \notin file'.marks
       => \/ outside' # outside
          \/ \E c \in Calls : /\ pc[c] = "staged" /\ pc'[c] = "reporting"
                              /\ m \notin read[c]
                              /\ ThreadOf[c] # ThreadOf[m] \/ PutBack(m, c)
  /\ \A c \in Calls :
       pc[c] = "staged" /\ pc'[c] = "reporting" =>
         c \in file'.marks /\ read[c] \subseteq file'.marks

EditsSurvive == [][KeepsEdits]_vars

(* Whoever queues for a file gets an answer, whatever becomes of those before *)
Answered == \A c \in Calls : pc[c] = "queued" ~> pc[c] = "done"

=============================================================================
