------------------------------ MODULE MCTempDirs ------------------------------
(***************************************************************************)
(* What lies on disk and several work on: the managed directories, a file  *)
(* that tools write and edit, and what a patch makes of a file's content.  *)
(* They share no state; a behaviour is one of one of them, chosen at the   *)
(* start.  The file is looked at twice: with calls of two threads, between *)
(* which others change it, and with an edit whose model is corrected while *)
(* operations fail and others change the file.                             *)
(***************************************************************************)
EXTENDS Files, TLC

CONSTANTS t1, t2, t3, h1, h2, c1, c2, c3, p, q

VARIABLE part

(* Calls in one process, and t3 in another *)
HostOfDef == [t \in Tasks |-> IF t = t3 THEN h2 ELSE h1]

(* Identifiers, and the tasks of one host, are alike to the directories and are in no state of
   the other parts, which are the ones that have a liveness property: for those there is
   nothing to permute *)
TaskSymmetry == {f @@ g : f \in Permutations(Ids), g \in Permutations({t1, t2})}

(* Two calls in one thread, and c3 in another *)
ThreadOfDef == [c \in Calls |-> IF c = c3 THEN q ELSE p]
KindsDef == [c \in Calls |-> CASE c = c1 -> {"write", "patch"}
                               [] c = c2 -> {"edit"}
                               [] c = c3 -> {"patch"}]

-----------------------------------------------------------------------------
(* Contents of up to three lines: empty, without a final line end, with line ends of both
   kinds, with a line that is there twice, indented, or blank *)
A == <<"text", 0, "a">>
B == <<"text", 0, "b">>
IndentedA == <<"text", 1, "a">>
Line(t, e) == [text |-> t, eol |-> e]
SourcesDef ==
  {<<>>,
   <<Line(A, "")>>,
   <<Line(A, "lf"), Line(A, "lf")>>,
   <<Line(B, "lf"), Line(IndentedA, "")>>,
   <<Line(A, "crlf"), Line(B, "lf"), Line(A, "")>>,
   <<Line(IndentedA, "lf"), Line(B, "crlf"), Line(<<"text", 0, "">>, "crlf")>>}

(* A first hunk with all marks, coordinates and a scope, or of three rows, and a second one *)
Row == [operation : {"context", "delete", "add"}, text : {A, B},
        source : BOOLEAN, target : BOOLEAN]
Unmarked == {row \in Row : ~row.source /\ ~row.target}
AlikeDef == {{"a", "b"}}
Rows(of, most) == UNION {[1 .. n -> of] : n \in 0 .. most}
HunksDef ==
  <<[rows : Rows(Row, 2), at : {1, None}, scope : {B, None}]
      \cup [rows : Rows(Unmarked, 3), at : {None}, scope : {None}],
    [rows : Rows(Unmarked, 2), at : {2, None}, scope : {None}]>>

-----------------------------------------------------------------------------
allVars == <<part, vars, editVars, patchVars>>

\* Parts that do not run have one initial state each.
MCInit ==
  /\ part \in {"directories", "across", "within", "patch"}
  /\ Init
  /\ Edit!Init
  /\ part \notin {"across", "within"} => file = None /\ kind[c1] = "write"
  /\ Patch!Init
  /\ part # "patch" => lines = <<>> /\ ~fuzzy

(* Across threads nothing fails, nobody gives up waiting and no correction is asked for; others
   change the file twice, when three calls edit it, and within one thread or with a write once *)
Bounded ==
  /\ part = "across" => faults' = faults /\ sent' = sent /\ aborted' = aborted
  /\ part = "within" => callPc'[c3] = "none"
  /\ part = "within" \/ kind[c1] = "write" => outside' <= 1

MCNext ==
  \/ part = "directories" /\ Next /\ UNCHANGED <<part, editVars, patchVars>>
  \/ /\ part \in {"across", "within"} /\ Edit!Next /\ Bounded
     /\ UNCHANGED <<part, vars, patchVars>>
  \/ part = "patch" /\ Patch!Next /\ UNCHANGED <<part, vars, editVars>>

(* The fairness of the files' parts, while one of them runs *)
Fairness ==
  \A c \in Calls : WF_editVars(part \in {"across", "within"} /\ Edit!Step(c) /\ Bounded)

MCSpec == MCInit /\ [][MCNext]_allVars /\ Fairness

-----------------------------------------------------------------------------
(* DirectoriesAccounted, LostOnlyByFailure and ImplementsPool are those of TempDirs,
   TypesOK, ErrorChangesNothing, EditsSurvive and PatchIsMeant those of Files. *)

(* Whoever queues for a file gets an answer                                  *)
Answered == Edit!Answered

=============================================================================
