----------------------------- MODULE PatchApply -----------------------------
(***************************************************************************)
(* A patch applied to the content of a file (llm-editor/udiff-apply.ts,    *)
(* udiff-match.ts, udiff-splice.ts; its hunks are those that udiff.ts lets *)
(* through).  Hunk after hunk is located in the original content, by its   *)
(* coordinates, by its source rows, exactly or up to indentation, and at   *)
(* last without a few outer context rows.  Its changes become splices of   *)
(* the content, which are carried out together in the end.  The first hunk *)
(* that fails ends the patch, and what came before is kept or not.         *)
(*                                                                         *)
(* A text is an indentation and a word, the word "" that of a blank line.  *)
(* Content is a sequence of tokens, which are texts and line ends.         *)
(* Positions of lines are counted from 0, as in the code.                  *)
(***************************************************************************)
EXTENDS Integers, Sequences, FiniteSets, SequencesExt

CONSTANTS
  Sources,     \* the contents to patch: sequences of [text, eol], eol "" only at the end
  Hunks,       \* of the first, the second, ... hunk the set it is from
  Alike,       \* sets of two words that differ little (recognizable)
  None         \* no coordinates, no scope, no match, nothing yet

VARIABLES
  lines,       \* splitSource of the content
  fuzzy,       \* the option to match up to indentation and outer rows
  splices, newline,   \* what to do: splices, and a final line end to "add" or "remove"
  scoped, cursor,     \* whether hunks are looked for after the earlier ones, and from where
  taken,       \* the hunks located, as they were matched, with their matches
  failed,      \* whether a hunk failed
  result       \* None or [ok, content]: whether the file is written, and with what

vars == <<lines, fuzzy, splices, newline, scoped, cursor, taken, failed, result>>

-----------------------------------------------------------------------------
(* Content *)

Text(indent, word) == <<"text", indent, word>>
Eol(kind) == <<"eol", kind>>
IsEol(token) == token[1] = "eol"
Blank(text) == text[3] = ""

Count == Len(lines)
EolAt(k) == IF k \in 0 .. Count - 1 THEN lines[k + 1].eol ELSE ""
EndsOpen == Count > 0 /\ EolAt(Count - 1) = ""
Tokens == [p \in 1 .. 2 * Count - (IF EndsOpen THEN 1 ELSE 0) |->
             IF p % 2 = 1 THEN lines[(p + 1) \div 2].text ELSE Eol(lines[p \div 2].eol)]
Start(k) == IF k < Count THEN 2 * k ELSE Len(Tokens)
End(k) == IF k = Count - 1 THEN Len(Tokens) ELSE 2 * k + 2

(* dominantEol *)
Dominant ==
  LET of(kind) == Cardinality({k \in DOMAIN lines : lines[k].eol = kind})
  IN IF of("crlf") > of("lf") THEN "crlf" ELSE "lf"

(* A blank text without a line end is nothing *)
Trimmed(tokens) ==
  IF tokens # <<>> /\ Last(tokens) = Text(0, "") THEN Front(tokens) ELSE tokens
EndsWithEol(tokens) == tokens # <<>> /\ IsEol(Last(tokens))

-----------------------------------------------------------------------------
(* Hunks.  A row has an operation, a text, and marks that its source or target has no final
   line end *)

SourceRows(h) == {r \in DOMAIN h.rows : h.rows[r].operation # "add"}
TargetRows(h) == {r \in DOMAIN h.rows : h.rows[r].operation # "delete"}
ContextOnly(h) == \A r \in DOMAIN h.rows : h.rows[r].operation = "context"
Marked(h, field) == {r \in DOMAIN h.rows : h.rows[r][field]}

(* parseHunk: what it lets through *)
WellFormed(h) ==
  /\ h.at = None \/ h.scope = None
  /\ h.rows = <<>> => h.scope # None
  /\ \A r \in Marked(h, "source") : r \in SourceRows(h) /\ \A q \in SourceRows(h) : q <= r
  /\ \A r \in Marked(h, "target") : r \in TargetRows(h) /\ \A q \in TargetRows(h) : q <= r
  /\ \A r \in DOMAIN h.rows :
       h.rows[r].operation = "context" => h.rows[r].source = h.rows[r].target

(* The line that a source row covers *)
LineOf(h, start, row) == start + Cardinality({r \in SourceRows(h) : r < row})

-----------------------------------------------------------------------------
(* matchAt.  The lines' texts may be indented more than the rows', all by the same; a blank
   first row fixes that at nothing *)

Miss == [kind |-> "miss"]
Ambiguous == [kind |-> "ambiguous"]
Match(h, start, mode, indent) ==
  [kind |-> "match", rows |-> h.rows, start |-> start,
   end |-> start + Cardinality(SourceRows(h)), mode |-> mode, indent |-> indent]

MatchAt(h, start, mode) ==
  LET file(r) == lines[LineOf(h, start, r) + 1].text
      row(r) == h.rows[r].text
      shift(r) == file(r)[2] - row(r)[2]
      first == Min(SourceRows(h))
      indent == IF mode = "exact" \/ Blank(row(first)) THEN 0 ELSE shift(first)
  IN IF /\ start >= 0 /\ start + Cardinality(SourceRows(h)) <= Count
        /\ \A r \in SourceRows(h) :
             \/ file(r) = row(r) /\ mode = "exact"
             \/ /\ mode = "fuzzy" /\ indent >= 0
                /\ file(r)[3] = row(r)[3]
                /\ Blank(row(r)) \/ shift(r) = indent
     THEN Match(h, start, mode, indent) ELSE Miss

(* searchAll: the only place there is *)
SearchAll(h, mode, from) ==
  LET places == {s \in from .. Count : MatchAt(h, s, mode) # Miss} IN
  IF places = {} THEN Miss
  ELSE IF Cardinality(places) > 1 THEN Ambiguous
  ELSE MatchAt(h, Min(places), mode)

(* The first of some attempts that is not a miss *)
FirstHit(attempts) ==
  LET hits == {k \in DOMAIN attempts : attempts[k] # Miss}
  IN IF hits = {} THEN Miss ELSE attempts[Min(hits)]

(* resolveExact: where the coordinates say, or else anywhere *)
Resolve(h, from) ==
  LET modes == IF fuzzy THEN <<"exact", "fuzzy">> ELSE <<"exact">>
      at == IF h.at = None THEN from ELSE h.at
  IN IF SourceRows(h) = {}
     THEN IF (h.at = None /\ from = 0) \/ at < from \/ at > Count THEN [kind |-> "bad_anchor"]
          ELSE Match(h, at, "exact", 0)
     ELSE FirstHit((IF h.at # None /\ h.at > from
                    THEN [k \in DOMAIN modes |-> MatchAt(h, h.at - 1, modes[k])] ELSE <<>>)
                   \o [k \in DOMAIN modes |-> SearchAll(h, modes[k], from)])

(* fuzzHunk: without some outer context rows, and boundaryHolds: what they would cover is
   much like them *)
FuzzLevels == <<<<0, 1>>, <<1, 0>>, <<0, 2>>, <<1, 1>>, <<2, 0>>>>
Outer(h, lead, tail) ==
  {r \in DOMAIN h.rows : r <= lead \/ r > Len(h.rows) - tail}
CanTrim(h, lead, tail) ==
  /\ lead + tail < Len(h.rows)
  /\ \A r \in Outer(h, lead, tail) :
       /\ h.rows[r].operation = "context" /\ ~h.rows[r].source /\ ~h.rows[r].target
  /\ SourceRows(h) \ Outer(h, lead, tail) # {}
Trim(h, lead, tail) ==
  [h EXCEPT !.rows = SubSeq(h.rows, lead + 1, Len(h.rows) - tail),
            !.at = IF h.at = None THEN None ELSE h.at + lead]
Recognizable(dropped, text) ==
  ~Blank(dropped) /\ ~Blank(text) /\ (dropped[3] = text[3] \/ {dropped[3], text[3]} \in Alike)
BoundaryHolds(h, m, lead, tail) ==
  \A r \in Outer(h, lead, tail) :
    LET k == IF r <= lead THEN m.start - lead + r - 1
             ELSE m.end + r - (Len(h.rows) - tail) - 1
    IN k \in 0 .. Count - 1 /\ Recognizable(h.rows[r].text, lines[k + 1].text)

(* resolveHunk *)
ResolveHunk(h, from) ==
  LET whole == Resolve(h, from)
      level(k) ==
        LET lead == FuzzLevels[k][1]
            tail == FuzzLevels[k][2]
            m == Resolve(Trim(h, lead, tail), from + lead)
        IN IF ~CanTrim(h, lead, tail) THEN Miss
           ELSE IF m.kind = "match" /\ ~BoundaryHolds(h, m, lead, tail) THEN Miss
           ELSE m
  IN IF whole # Miss \/ ~fuzzy THEN whole
     ELSE FirstHit([k \in DOMAIN FuzzLevels |-> level(k)])

(* locateHunk: after the scope's line, if it has one *)
Locate(h) ==
  LET from == IF scoped THEN cursor ELSE 0
      scopes == {k \in from .. Count - 1 : lines[k + 1].text = h.scope}
  IN IF h.scope = None THEN ResolveHunk(h, from)
     ELSE IF scopes = {} THEN Miss
     ELSE IF Cardinality(scopes) > 1 THEN Ambiguous
     ELSE ResolveHunk(h, Min(scopes) + 1)

-----------------------------------------------------------------------------
(* changeSplices: one for each run of rows that are not context *)

Runs(h) ==
  LET changed(r) == r \in DOMAIN h.rows /\ h.rows[r].operation # "context"
  IN {run \in (DOMAIN h.rows) \X (DOMAIN h.rows) :
        /\ run[1] <= run[2] /\ \A r \in run[1] .. run[2] : changed(r)
        /\ ~changed(run[1] - 1) /\ ~changed(run[2] + 1)}

Adjusted(m, text) ==
  IF m.mode = "exact" \/ Blank(text) THEN text ELSE Text(text[2] + m.indent, text[3])
Added(m, run) ==
  LET rows == SelectSeq(SubSeq(m.rows, run[1], run[2]), LAMBDA row : row.operation = "add")
  IN [k \in DOMAIN rows |-> Adjusted(m, rows[k].text)]
Deleted(m, run) ==
  {LineOf(m, m.start, r) : r \in {q \in run[1] .. run[2] :
                                        m.rows[q].operation = "delete"}}
At(m, run) == LineOf(m, m.start, run[1])

(* Mutant of EndsAdded: it always does *)
EndsAlways(end) == TRUE

(* A line end follows what is added, except at an end that had none *)
EndsAdded(end) == end # Len(Tokens) \/ EndsWithEol(Tokens)

SpliceOf(m, run) ==
  LET at == At(m, run)
      end == IF Deleted(m, run) = {} THEN Start(at) ELSE End(Max(Deleted(m, run)))
      eol == Eol(IF EolAt(at) # "" THEN EolAt(at)
                 ELSE IF EolAt(at - 1) # "" THEN EolAt(at - 1) ELSE Dominant)
      added == Added(m, run)
      joined == [k \in 1 .. 2 * Len(added) - 1 |->
                   IF k % 2 = 1 THEN added[(k + 1) \div 2] ELSE eol]
  IN [start |-> Start(at), end |-> end,
      text |-> (IF Deleted(m, run) = {} /\ at = Count /\ EndsOpen THEN <<eol>> ELSE <<>>)
               \o (IF added = <<>> THEN <<>> ELSE joined)
               \o (IF added # <<>> /\ EndsAdded(end) THEN <<eol>> ELSE <<>>)]

(* Mutant of Overlap: two insertions at one place are both made *)
OverlapOfLines(p, q) == p.start # p.end /\ p.start < q.start /\ q.start < p.end

(* conflicts, of two splices of which the first starts no later *)
Overlap(p, q) ==
  IF p.start = p.end THEN q.start = q.end /\ p.start = q.start
  ELSE IF q.start = q.end THEN p.start < q.start /\ q.start < p.end
  ELSE q.start < p.end

Conflicts(p, q) == IF p.start <= q.start THEN Overlap(p, q) ELSE Overlap(q, p)

(* newlineIntent *)
BadNewline(m) ==
  LET source == Marked(m, "source") IN
  \/ \E r \in source : LineOf(m, m.start, r) # Count - 1 \/ ~EndsOpen
  \/ Marked(m, "target") # {} /\ m.end # Count
Intent(m) ==
  LET source == Marked(m, "source") # {}
      target == Marked(m, "target") # {}
  IN IF source = target THEN None ELSE IF source THEN "add" ELSE "remove"

-----------------------------------------------------------------------------
Init ==
  /\ lines \in Sources
  /\ fuzzy \in BOOLEAN
  /\ splices = {} /\ newline = None
  /\ scoped = FALSE /\ cursor = 0
  /\ taken = <<>> /\ failed = FALSE
  /\ result = None

(* applyUdiffs, one turn of the loop *)
TakeHunk(h) ==
  LET m == Locate(h)
      changes == {SpliceOf(m, run) : run \in Runs(m)}
  IN
  /\ result = None /\ ~failed /\ WellFormed(h)
  /\ IF \/ m.kind # "match"
        \/ BadNewline(m)
        \/ newline # None /\ Intent(m) \notin {None, newline}
        \/ \E p \in splices, q \in changes : Conflicts(p, q)
     THEN /\ failed' = TRUE
          /\ UNCHANGED <<splices, newline, scoped, cursor, taken>>
     ELSE /\ splices' = splices \cup changes
          /\ newline' = IF Intent(m) = None THEN newline ELSE Intent(m)
          /\ scoped' = (scoped \/ h.scope # None \/ ContextOnly(m))
          /\ cursor' = IF scoped' THEN m.end ELSE cursor
          /\ taken' = Append(taken, m)
          /\ UNCHANGED failed
  /\ UNCHANGED <<lines, fuzzy, result>>

(* The next hunk is none that can be parsed, or the matching has taken too long *)
Fails ==
  /\ result = None /\ ~failed /\ Len(taken) < Len(Hunks)
  /\ failed' = TRUE
  /\ UNCHANGED <<lines, fuzzy, splices, newline, scoped, cursor, taken, result>>

(* The splices are carried out, the last one first *)
Spliced ==
  FoldRight(LAMBDA s, after : SubSeq(after, 1, s.start) \o s.text
                              \o SubSeq(after, s.end + 1, Len(after)),
            SetToSortSeq(splices, LAMBDA p, q : \/ p.start < q.start
                                                \/ p.start = q.start /\ p.end < q.end),
            Tokens)
Ended ==
  LET content == Trimmed(Spliced) IN
  IF newline = "add" /\ ~EndsWithEol(content) THEN content \o <<Eol(Dominant)>>
  ELSE IF newline = "remove" /\ EndsWithEol(content) THEN Front(content)
  ELSE content

(* applyFileDiff: after a failure the file is written if it may be patched in part *)
Finish(partial) ==
  /\ result = None /\ (failed \/ taken # <<>>)
  /\ result' = [ok |-> Trimmed(Ended) # Tokens /\ (failed => partial),
                content |-> Trimmed(Ended)]
  /\ UNCHANGED <<lines, fuzzy, splices, newline, scoped, cursor, taken, failed>>

Next ==
  \/ \E k \in DOMAIN Hunks : k = Len(taken) + 1 /\ \E h \in Hunks[k] : TakeHunk(h)
  \/ Fails
  \/ \E partial \in BOOLEAN : Finish(partial)
Spec == Init /\ [][Next]_vars

-----------------------------------------------------------------------------
(* Types.  Splices lie within the content, and no two of them overlap, be they of one hunk or of
   several: to carry one out leaves what comes before it, and so the places of the others *)
TypeOK ==
  /\ cursor \in 0 .. Count /\ newline \in {None, "add", "remove"}
  /\ \A p \in splices : 0 <= p.start /\ p.start <= p.end /\ p.end <= Len(Tokens)
  /\ \A p, q \in splices : p # q => ~Conflicts(p, q)
  /\ taken = <<>> => splices = {}

(* What the patch means, line by line: before a line come the rows that are inserted there and
   those that replace it, and of the lines those stay that no hunk deletes, with their ends *)
Changes == UNION {{i} \X Runs(taken[i]) : i \in DOMAIN taken}
Gone == UNION {Deleted(taken[c[1]], c[2]) : c \in Changes}
New(k, deletes) ==
  LET here == {c \in Changes : At(taken[c[1]], c[2]) = k
                               /\ (Deleted(taken[c[1]], c[2]) # {}) = deletes}
      texts == FoldSet(LAMBDA c, before : before \o Added(taken[c[1]], c[2]), <<>>, here)
  IN [j \in DOMAIN texts |-> [text |-> texts[j], eol |-> None]]
Meant ==
  FoldLeft(LAMBDA before, k : before \o New(k, FALSE) \o New(k, TRUE)
                             \o IF k < Count /\ k \notin Gone THEN <<lines[k + 1]>> ELSE <<>>,
          <<>>, [k \in 1 .. Count + 1 |-> k - 1])

(* A last line without a line end is deleted, and another hunk inserts after it, or the patch
   asks for a final line end and nothing else is there: an empty line is left *)
OpenEndIsGone ==
  /\ EndsOpen /\ Count - 1 \in Gone
  /\ New(Count, FALSE) # <<>> \/ Meant = <<>>

(* However hunks overlap, and wherever they are, what is written are the lines the patch means,
   those that stay with the ends they had; and there is a final line end as before, or as the
   patch says, unless the last line is gone *)
PatchIsMeant ==
  result # None /\ result.ok /\ ~OpenEndIsGone =>
    LET content == result.content
        meant == Meant
        closed == Len(content) = 2 * Len(meant)
    IN /\ \/ closed
          \/ Len(content) = 2 * Len(meant) - 1
          \/ Len(content) = 2 * Len(meant) - 2 /\ meant[Len(meant)].text = Text(0, "")
       /\ \A j \in DOMAIN meant :
            /\ 2 * j - 1 <= Len(content) => content[2 * j - 1] = meant[j].text
            /\ 2 * j <= Len(content) => /\ IsEol(content[2 * j])
                                        /\ meant[j].eol \notin {None, ""} =>
                                             content[2 * j] = Eol(meant[j].eol)
       /\ newline = "add" => closed
       /\ newline = "remove" => ~closed
       /\ newline = None /\ EndsWithEol(Tokens) => closed
       /\ newline = None /\ EndsOpen /\ Count - 1 \notin Gone => ~closed

=============================================================================
