-------------------------------- MODULE Files --------------------------------
(***************************************************************************)
(* What lies on disk and several work on: the managed directories, which   *)
(* are this module's own, a file that tools write and edit, and what a     *)
(* patch makes of a file's content.  As modelled they share no state.      *)
(***************************************************************************)
EXTENDS TempDirs, Sequences

CONSTANTS
  Calls, KindsOf, ThreadOf, MaxCorrections, MaxOutside, MaxFaults,   \* a file
  Sources, Hunks, Alike                                              \* a patch

VARIABLES
  file, chain, kind, callPc, read, outcome, turns, sent, aborted, timedOut, staging, recovery,
  answer, outside, faults,
  lines, fuzzy, splices, newline, scoped, cursor, taken, failed, result

Edit == INSTANCE FileEdit WITH pc <- callPc, result <- answer
Patch == INSTANCE PatchApply

editVars == <<file, chain, kind, callPc, read, outcome, turns, sent, aborted, timedOut, staging,
              recovery, answer, outside, faults>>
patchVars == <<lines, fuzzy, splices, newline, scoped, cursor, taken, failed, result>>

ASSUME EditAssumption ==
  /\ MaxCorrections \in Nat /\ MaxOutside \in Nat /\ MaxFaults \in Nat
  /\ "before" \notin Calls /\ \A k \in 0 .. MaxOutside : <<"outside", k>> \notin Calls
  /\ None \notin {"ok", "saved", "exists", "failed", "aborted", "timeout", "died"}
  /\ None \notin [node : Calls,
                  marks : SUBSET (Calls \cup ({"outside"} \X (0 .. MaxOutside)))]

(* Texts, the lines of a content, and hunks *)
Texts == {"text"} \X Nat \X STRING
LineRecord == [text : Texts, eol : {"lf", "crlf", ""}]
RowRecord == [operation : {"context", "delete", "add"}, text : Texts,
              source : BOOLEAN, target : BOOLEAN]
HunkRecord == [rows : Seq(RowRecord), at : {None} \cup Nat, scope : {None} \cup Texts]

ASSUME PatchAssumption ==
  /\ Sources \subseteq Seq(LineRecord)
  /\ \A k \in DOMAIN Hunks : Hunks[k] \subseteq HunkRecord

-----------------------------------------------------------------------------
(* Types, and the relations of state that the parts' type invariants state: who holds the lock of
   a file, what is left beside it, and that the splices of a patch do not overlap *)
TypesOK == TypeOK /\ Edit!TypeOK /\ Patch!TypeOK

(* A call that was told an error has changed nothing                         *)
ErrorChangesNothing == Edit!ErrorChangesNothing

(* A call undoes another one only if it could not know of it                 *)
EditsSurvive == Edit!EditsSurvive

(* What is written are the lines that the patch means                        *)
PatchIsMeant == Patch!PatchIsMeant

=============================================================================
