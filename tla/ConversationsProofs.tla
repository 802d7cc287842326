------------------------ MODULE ConversationsProofs ------------------------
(***************************************************************************)
(* Proofs about Conversations: for any number of editors, columns, cards,  *)
(* clients, attachments, directories, entries, sessions, runs and answers. *)
(***************************************************************************)
EXTENDS Conversations, FiniteSetTheorems, SequenceTheorems, WellFoundedInduction, TLAPS

-----------------------------------------------------------------------------
(* Numbers and sequences.  What an induction would show of a number is shown by the least *)
(* number it does not hold of *)

LEMMA LeastNat ==
  ASSUME NEW S, S \subseteq Nat, S # {}
  PROVE  \E x \in S : \A y \in S : x <= y
<1>1. PICK x \in S : \A y \in S : <<y, x>> \notin OpToRel(<, Nat)
  BY NatLessThanWellFounded, WFMin
<1>2. \A y \in S : ~(y < x)
  BY <1>1 DEF OpToRel
<1>3. QED
  BY <1>2

LEMMA LargestOf ==
  ASSUME NEW S, NEW m \in Nat, \A x \in S : x \in Int /\ x <= m, S # {}
  PROVE  \E x \in S : \A y \in S : x >= y
<1> DEFINE T == {m - x : x \in S}
<1>1. PICK x \in S : \A y \in S : m - x <= m - y
  <2>1. T \subseteq Nat /\ T # {}
    OBVIOUS
  <2>2. PICK z \in T : \A y \in T : z <= y
    BY <2>1, LeastNat
  <2>3. QED
    BY <2>2
<1>2. QED
  BY <1>1

LEMMA SeqOf ==
  ASSUME NEW R, NEW n \in Nat, NEW f, f = [i \in 1 .. n |-> f[i]], \A i \in 1 .. n : f[i] \in R
  PROVE  f \in Seq(R) /\ Len(f) = n
  OBVIOUS

(* Finitely many numbers have a bound *)
LEMMA Bounded ==
  ASSUME NEW n \in Nat, NEW f, \A i \in 1 .. n : f[i] \in Nat
  PROVE  \E m \in Nat : \A i \in 1 .. n : f[i] <= m
<1> DEFINE S == {k \in 0 .. n : ~\E m \in Nat : \A i \in 1 .. k : f[i] <= m}
<1>1. ASSUME S # {} PROVE FALSE
  <2>1. PICK k \in S : \A j \in S : k <= j
    <3>1. S \subseteq Nat
      OBVIOUS
    <3> HIDE DEF S
    <3>2. QED
      BY <1>1, <3>1, LeastNat
  <2>2. k # 0
    <3>1. \A i \in 1 .. 0 : f[i] <= 0
      OBVIOUS
    <3>2. QED
      BY <2>1, <3>1
  <2>3. k - 1 \in 0 .. n /\ k - 1 \notin S /\ k \in 1 .. n
    <3>1. k \in 0 .. n
      OBVIOUS
    <3> HIDE DEF S
    <3>2. QED
      BY <2>1, <2>2, <3>1
  <2>4. PICK m \in Nat : \A i \in 1 .. (k - 1) : f[i] <= m
    BY <2>3
  <2>5. f[k] \in Nat
    BY <2>3
  <2>6. \A i \in 1 .. k : f[i] <= m + f[k]
    <3>1. TAKE i \in 1 .. k
    <3>2. CASE i = k
      BY <2>5, <3>2
    <3>3. CASE i # k
      <4>1. i \in 1 .. (k - 1) /\ f[i] \in Nat
        BY <2>3, <3>3
      <4>2. QED
        BY <2>4, <2>5, <4>1
    <3>4. QED
      BY <3>2, <3>3
  <2>7. m + f[k] \in Nat
    BY <2>5
  <2>8. QED
    BY <2>1, <2>6, <2>7
<1>2. n \notin S
  BY <1>1
<1>3. QED
  BY <1>2

-----------------------------------------------------------------------------
(* The board *)

-----------------------------------------------------------------------------
(* What a client is about to do to a card, there is a card for *)
RequestInv ==
  \A c \in Editors : requests[c].op \in {"editMove", "move"} =>
    requests[c].task \in DOMAIN tasks /\ requests[c].column \in Board!Columns

BoardInv == Board!TypeOK /\ RequestInv /\ Board!CardsInSight

(* Rows and their tables *)
LEMMA Rows ==
  ASSUME Board!TypeOK
  PROVE  /\ Len(columns) \in Nat /\ DOMAIN columns = 1 .. Len(columns)
         /\ Len(tasks) \in Nat /\ DOMAIN tasks = 1 .. Len(tasks)
         /\ DOMAIN columns \subseteq Board!Columns /\ DOMAIN tasks \subseteq Board!Tasks
         /\ \A k \in DOMAIN columns : columns[k] \in Board!ColumnRow
         /\ \A t \in DOMAIN tasks : tasks[t] \in Board!TaskRow
  BY ConversationsAssumption DEF Board!TypeOK, Board!Columns, Board!Tasks

(* Appended to a column, a card gets a place beyond those that are taken *)
LEMMA NextPlace ==
  ASSUME Board!TypeOK, NEW k
  PROVE  /\ Board!NextPosition(k) \in Nat
         /\ \A t \in DOMAIN tasks :
              tasks[t].column = k => tasks[t].position < Board!NextPosition(k)
<1> DEFINE S == {-1} \cup {tasks[t].position : t \in Board!InColumn(k)}
<1>1. \A x \in S : x \in Int /\ x >= -1 /\ x <= MaxPosition
  BY Rows, ConversationsAssumption DEF Board!InColumn, Board!TaskRow
<1>2. MaxPosition \in Nat /\ -1 \in S
  BY ConversationsAssumption
<1>3. \E x \in S : \A y \in S : x >= y
  <2> HIDE DEF S
  <2>1. QED
    BY <1>1, <1>2, LargestOf
<1>4. Board!Max(S) \in S /\ \A y \in S : Board!Max(S) >= y
  <2> HIDE DEF S
  <2>1. QED
    BY <1>3 DEF Board!Max
<1>5. Board!NextPosition(k) = Board!Max(S) + 1
  BY DEF Board!NextPosition
<1>6. \A t \in DOMAIN tasks : tasks[t].column = k => tasks[t].position \in S
  BY DEF Board!InColumn
<1> HIDE DEF S
<1>7. QED
  BY <1>1, <1>4, <1>5, <1>6

(* Of the columns that are shown, one is first *)
LEMMA FirstIsShown ==
  ASSUME Board!TypeOK, Board!ActiveColumns # {}
  PROVE  Board!FirstColumn \in Board!ActiveColumns
<1> DEFINE A == Board!ActiveColumns
           P == {columns[k].position : k \in A}
<1>1. A \subseteq DOMAIN columns /\ A \subseteq Nat
  BY Rows DEF Board!ActiveColumns
<1>2. P \subseteq Nat /\ P # {}
  BY <1>1, Rows DEF Board!ColumnRow
<1>3. PICK least \in P : \A x \in P : least <= x
  BY <1>2, LeastNat
<1> DEFINE T == {k \in A : columns[k].position = least}
<1>4. T \subseteq Nat /\ T # {}
  BY <1>1, <1>3
<1>5. PICK c \in T : \A k \in T : c <= k
  <2> HIDE DEF T
  <2>1. QED
    BY <1>4, LeastNat
<1>6. c \in A /\ columns[c].position = least
  BY <1>5
<1>7. \A k \in A \ {c} : Board!Before(c, k)
  <2>1. ASSUME NEW k \in A \ {c} PROVE Board!Before(c, k)
    <3>1. least <= columns[k].position /\ columns[k].position \in Nat /\ least \in Nat
      BY <1>2, <1>3
    <3>2. c \in Nat /\ k \in Nat
      BY <1>1, <1>6
    <3>3. CASE columns[k].position = least
      BY <1>5, <1>6, <3>2, <3>3 DEF Board!Before
    <3>4. CASE columns[k].position # least
      BY <1>6, <3>1, <3>4 DEF Board!Before
    <3>5. QED
      BY <3>3, <3>4
  <2>2. QED
    BY <2>1
<1> HIDE DEF A, P, T
<1>8. QED
  BY <1>6, <1>7 DEF Board!FirstColumn, A

-----------------------------------------------------------------------------
(* The steps of the board *)

LEMMA BoardInit == Board!Init => BoardInv
<1> SUFFICES ASSUME Board!Init PROVE BoardInv
  OBVIOUS
<1> USE DEF Board!Init
<1>1. requests \in [Editors -> [op : Board!Ops, task : Board!Tasks \cup {Board!NoId},
                                column : Board!Columns \cup {Board!NoId}]]
  BY DEF Board!Idle, Board!Ops
<1>2. Board!TypeOK
  BY <1>1, ConversationsAssumption, EmptySeq DEF Board!TypeOK
<1>3. RequestInv /\ Board!CardsInSight
  BY DEF RequestInv, Board!CardsInSight, Board!ActiveInActive, Board!OwnPlace, Board!Idle
<1>4. QED
  BY <1>2, <1>3 DEF BoardInv

(* What a client turns to *)
LEMMA Turns ==
  ASSUME BoardInv, NEW c \in Editors, NEW op \in Board!Ops, Board!Turn(c, op)
  PROVE  /\ requests' \in [Editors -> [op : Board!Ops, task : Board!Tasks \cup {Board!NoId},
                                       column : Board!Columns \cup {Board!NoId}]]
         /\ \A d \in Editors \ {c} : requests'[d] = requests[d]
         /\ op = "none" => requests'[c] = Board!Idle
         /\ op # "none" => requests'[c].op = op /\ requests'[c].task = requests[c].task
                           /\ requests'[c].column = requests[c].column
<1>1. requests[c] \in [op : Board!Ops, task : Board!Tasks \cup {Board!NoId},
                       column : Board!Columns \cup {Board!NoId}]
  BY DEF BoardInv, Board!TypeOK
<1>2. Board!Idle \in [op : Board!Ops, task : Board!Tasks \cup {Board!NoId},
                      column : Board!Columns \cup {Board!NoId}]
  BY DEF Board!Idle, Board!Ops
<1> DEFINE next == IF op = "none" THEN Board!Idle ELSE [requests[c] EXCEPT !.op = op]
<1>3. requests' = [requests EXCEPT ![c] = next]
  BY DEF Board!Turn
<1>4. next \in [op : Board!Ops, task : Board!Tasks \cup {Board!NoId},
                column : Board!Columns \cup {Board!NoId}]
  BY <1>1, <1>2
<1>5. op # "none" => next.op = op /\ next.task = requests[c].task
                     /\ next.column = requests[c].column
  BY <1>1
<1>6. op = "none" => next = Board!Idle
  OBVIOUS
<1> HIDE DEF next
<1>7. DOMAIN requests = Editors
  BY DEF BoardInv, Board!TypeOK
<1>8. QED
  BY <1>3, <1>4, <1>5, <1>6, <1>7 DEF BoardInv, Board!TypeOK

(* Columns that are shown stay so, and cards where they are *)
LEMMA ColumnsStay ==
  ASSUME BoardInv, UNCHANGED tasks, columns' \in Seq(Board!ColumnRow),
         Len(columns') <= MaxColumns,
         \A k \in Board!ActiveColumns : k \in DOMAIN columns' /\ columns'[k].active
  PROVE  Board!CardsInSight'
<1>1. Board!ActiveColumns \subseteq Board!ActiveColumns'
  BY DEF Board!ActiveColumns
<1>2. QED
  BY <1>1 DEF BoardInv, Board!CardsInSight, Board!ActiveInActive, Board!OwnPlace

LEMMA ProjectSteps ==
  ASSUME BoardInv, NEW c \in Editors, Board!OnProject(c)
  PROVE  BoardInv'
<1> USE DEF BoardInv
<1>1. CASE \/ Board!CreateProject(c) \/ Board!InitProjectDb(c)
           \/ Board!AddDefaults(c) \/ Board!Stop(c)
  <2>1. PICK op \in Board!Ops : Board!Turn(c, op) /\ op \notin {"editMove", "move"}
    BY <1>1 DEF Board!CreateProject, Board!InitProjectDb, Board!AddDefaults, Board!Stop,
       Board!Done, Board!Ops
  <2>2. UNCHANGED <<columns, tasks>> /\ project' \in {"absent", "listed", "ready"}
    BY <1>1 DEF Board!CreateProject, Board!InitProjectDb, Board!AddDefaults, Board!Stop,
       Board!TypeOK
  <2>3. Board!TypeOK'
    BY <2>1, <2>2, Turns DEF Board!TypeOK
  <2>4. RequestInv'
    BY <2>1, <2>2, Turns DEF RequestInv, Board!Idle
  <2>5. Board!CardsInSight'
    BY <2>2 DEF Board!CardsInSight, Board!ActiveInActive, Board!OwnPlace, Board!ActiveColumns
  <2>6. QED
    BY <2>3, <2>4, <2>5
<1>2. CASE Board!SeedColumns(c)
  <2> DEFINE missing == {i \in DOMAIN Defaults : Defaults[i] \notin Board!NamesInUse}
  <2>1. PICK order \in [1 .. Cardinality(missing) -> missing] :
          columns' = columns \o [i \in DOMAIN order |->
            [name |-> Defaults[order[i]], active |-> TRUE, position |-> order[i] - 1]]
    BY <1>2 DEF Board!SeedColumns, Board!Cardinality, Cardinality
  <2>2. /\ Board!Turn(c, "none") /\ "none" \in Board!Ops /\ UNCHANGED <<project, tasks>>
        /\ Len(columns) + Cardinality(missing) <= MaxColumns
    BY <1>2 DEF Board!SeedColumns, Board!Done, Board!Ops, Board!Cardinality, Cardinality
  <2>3. IsFiniteSet(missing) /\ Cardinality(missing) \in Nat
    <3>1. missing \subseteq 1 .. Len(Defaults) /\ Len(Defaults) \in Nat
      BY ConversationsAssumption
    <3>2. IsFiniteSet(1 .. Len(Defaults))
      BY <3>1, FS_Interval
    <3>3. QED
      BY <3>1, <3>2, FS_Subset, FS_CardinalityType
  <2> DEFINE new == [i \in DOMAIN order |->
                      [name |-> Defaults[order[i]], active |-> TRUE, position |-> order[i] - 1]]
  <2>4. new \in Seq(Board!ColumnRow) /\ Len(new) = Cardinality(missing)
    <3>1. \A i \in DOMAIN order : new[i] \in Board!ColumnRow
      <4>1. TAKE i \in DOMAIN order
      <4>2. order[i] \in DOMAIN Defaults /\ DOMAIN Defaults = 1 .. Len(Defaults)
            /\ Len(Defaults) \in Nat
        BY <2>1, ConversationsAssumption
      <4>3. Defaults[order[i]] \in Board!Names
        BY <4>2 DEF Board!Names, Board!Range
      <4>4. QED
        BY <4>2, <4>3 DEF Board!ColumnRow
    <3>2. DOMAIN order = 1 .. Cardinality(missing) /\ DOMAIN new = DOMAIN order
          /\ new = [i \in 1 .. Cardinality(missing) |-> new[i]]
      BY <2>1
    <3> HIDE DEF new, missing
    <3>3. QED
      BY <2>3, <3>1, <3>2, SeqOf
  <2> HIDE DEF new, missing
  <2>5. /\ columns' \in Seq(Board!ColumnRow) /\ Len(columns') <= MaxColumns
        /\ \A k \in DOMAIN columns : k \in DOMAIN columns' /\ columns'[k] = columns[k]
    <3>1. columns \in Seq(Board!ColumnRow) /\ columns' = columns \o new
      BY <2>1 DEF Board!TypeOK, new
    <3>2. QED
      BY <2>2, <2>3, <2>4, <3>1
  <2>6. Board!CardsInSight'
    BY <2>2, <2>5, ColumnsStay DEF Board!ActiveColumns
  <2>7. Board!TypeOK' /\ RequestInv'
    BY <2>2, <2>5, Turns DEF Board!TypeOK, RequestInv, Board!Idle
  <2>8. QED
    BY <2>6, <2>7
<1>3. QED
  BY <1>1, <1>2 DEF Board!OnProject

(* A new column is shown after all others *)
LEMMA NextColumn ==
  ASSUME Board!TypeOK
  PROVE  /\ Board!NextColumnPosition \in Nat
         /\ \A k \in DOMAIN columns : columns[k].position < Board!NextColumnPosition
<1> DEFINE S == {-1} \cup {columns[k].position : k \in DOMAIN columns}
           f == [k \in DOMAIN columns |-> columns[k].position]
<1>1. \A k \in DOMAIN columns : columns[k].position \in Nat
  BY Rows DEF Board!ColumnRow
<1>2. PICK m \in Nat : \A k \in DOMAIN columns : columns[k].position <= m
  <2>1. \A i \in 1 .. Len(columns) : f[i] \in Nat /\ f[i] = columns[i].position
    BY <1>1, Rows
  <2>2. Len(columns) \in Nat /\ DOMAIN columns = 1 .. Len(columns)
    BY Rows
  <2> HIDE DEF f
  <2>3. PICK m \in Nat : \A i \in 1 .. Len(columns) : f[i] <= m
    BY <2>1, <2>2, Bounded
  <2>4. QED
    BY <2>1, <2>2, <2>3
<1>3. \A x \in S : x \in Int /\ x >= -1 /\ x <= m
  BY <1>1, <1>2
<1>4. \E x \in S : \A y \in S : x >= y
  <2>1. -1 \in S
    OBVIOUS
  <2> HIDE DEF S
  <2>2. QED
    BY <1>3, <2>1, LargestOf
<1>5. Board!Max(S) \in S /\ \A y \in S : Board!Max(S) >= y
  <2> HIDE DEF S
  <2>1. QED
    BY <1>4 DEF Board!Max
<1>6. Board!NextColumnPosition = Board!Max(S) + 1
  BY DEF Board!NextColumnPosition
<1>7. \A k \in DOMAIN columns : columns[k].position \in S
  OBVIOUS
<1> HIDE DEF S
<1>8. QED
  BY <1>3, <1>5, <1>6, <1>7

(* How many are shown before a column is a number *)
LEMMA Placed ==
  ASSUME Board!TypeOK, NEW k, NEW S, S \subseteq DOMAIN columns
  PROVE  /\ IsFiniteSet(S) /\ Cardinality(S) \in Nat
         /\ Board!Place(k, S) = Cardinality({j \in S : Board!Before(j, k)})
         /\ Board!Place(k, S) \in 0 .. Cardinality(S)
<1>1. IsFiniteSet(S) /\ Cardinality(S) \in Nat
  <2>1. IsFiniteSet(1 .. Len(columns))
    BY Rows, FS_Interval
  <2>2. IsFiniteSet(S)
    BY <2>1, Rows, FS_Subset
  <2>3. QED
    BY <2>2, FS_CardinalityType
<1> DEFINE T == {j \in S : Board!Before(j, k)}
<1>2. T \in SUBSET S
  OBVIOUS
<1>3. IsFiniteSet(T) /\ Cardinality(T) <= Cardinality(S) /\ Cardinality(T) \in Nat
  <2> HIDE DEF T
  <2>1. QED
    BY <1>1, <1>2, FS_Subset, FS_CardinalityType
<1>4. Board!Place(k, S) = Cardinality(T)
  BY DEF Board!Place, Board!Cardinality, Cardinality
<1>5. QED
  BY <1>1, <1>3, <1>4

(* What moving a column makes of the columns *)
LEMMA ColumnMoves ==
  ASSUME Board!TypeOK, NEW column, NEW n \in Nat, Board!MoveColumn(column, n)
  PROVE  /\ columns' \in Seq(Board!ColumnRow) /\ Len(columns') = Len(columns)
         /\ \A k \in DOMAIN columns : columns'[k].active = columns[k].active
         /\ column \in Board!ActiveColumns /\ n < Cardinality(Board!ActiveColumns)
         /\ columns'[column].position = n
         /\ \A k \in Board!ActiveColumns \ {column} :
              LET place == Board!Place(k, Board!ActiveColumns \ {column}) IN
              columns'[k].position = IF place < n THEN place ELSE place + 1
<1> DEFINE place(k) == Board!Place(k, Board!ActiveColumns \ {column})
           moved(k) == IF k = column THEN n ELSE IF place(k) < n THEN place(k) ELSE place(k) + 1
           row(k) == IF k \in Board!ActiveColumns THEN [columns[k] EXCEPT !.position = moved(k)]
                     ELSE columns[k]
<1>1. /\ columns' = [k \in DOMAIN columns |-> row(k)]
      /\ column \in Board!ActiveColumns /\ n < Cardinality(Board!ActiveColumns)
  BY DEF Board!MoveColumn, Board!Cardinality, Cardinality
<1>2. \A k : place(k) \in Nat
  <2>1. Board!ActiveColumns \ {column} \subseteq DOMAIN columns
    BY DEF Board!ActiveColumns
  <2>2. TAKE k
  <2> DEFINE S == Board!ActiveColumns \ {column}
  <2>3. Cardinality(S) \in Nat /\ Board!Place(k, S) \in 0 .. Cardinality(S)
    <3> HIDE DEF S
    <3>1. QED
      BY <2>1, Placed DEF S
  <2>4. QED
    BY <2>3
<1>3. \A k : moved(k) \in Nat
  <2> HIDE DEF place
  <2>1. QED
    BY <1>2
<1>4. \A k \in DOMAIN columns :
        /\ row(k) \in Board!ColumnRow /\ row(k).active = columns[k].active
        /\ k \in Board!ActiveColumns => row(k).position = moved(k)
  <2> HIDE DEF moved
  <2>1. TAKE k \in DOMAIN columns
  <2>2. columns[k] \in Board!ColumnRow /\ moved(k) \in Nat
    BY <1>3, Rows
  <2>3. QED
    BY <2>2 DEF Board!ColumnRow
<1> HIDE DEF row, moved
<1>5. DOMAIN columns = 1 .. Len(columns) /\ Len(columns) \in Nat
  BY Rows
<1>6. columns' = [k \in 1 .. Len(columns) |-> columns'[k]]
      /\ \A k \in DOMAIN columns : columns'[k] = row(k)
  BY <1>1, <1>5
<1>7. columns' \in Seq(Board!ColumnRow) /\ Len(columns') = Len(columns)
  BY <1>4, <1>5, <1>6, SeqOf
<1>8. Board!ActiveColumns \subseteq DOMAIN columns
  BY DEF Board!ActiveColumns
<1>9. \A k \in Board!ActiveColumns : columns'[k].position = moved(k)
  BY <1>4, <1>6, <1>8
<1>10. QED
  BY <1>1, <1>4, <1>6, <1>7, <1>9 DEF moved

LEMMA ColumnSteps == ASSUME BoardInv, Board!OnColumns PROVE BoardInv'
<1> USE DEF BoardInv
<1>0. UNCHANGED <<project, tasks, requests>>
  BY DEF Board!OnColumns, Board!CreateColumn, Board!RenameColumn, Board!MoveColumn,
     Board!ArchiveColumn
<1>1. CASE \E name \in Board!Names : Board!CreateColumn(name)
  <2>1. PICK name \in Board!Names : Board!CreateColumn(name)
    BY <1>1
  <2> DEFINE row == [name |-> name, active |-> TRUE, position |-> Board!NextColumnPosition]
  <2>2. Board!NextColumnPosition \in Nat
    BY NextColumn
  <2>3. row \in Board!ColumnRow
    BY <2>2 DEF Board!ColumnRow
  <2>4. columns' = Append(columns, row) /\ Len(columns) < MaxColumns
    BY <2>1 DEF Board!CreateColumn
  <2> HIDE DEF row
  <2>5. /\ columns' \in Seq(Board!ColumnRow) /\ Len(columns') <= MaxColumns
        /\ \A k \in DOMAIN columns : k \in DOMAIN columns' /\ columns'[k] = columns[k]
    BY <2>3, <2>4, ConversationsAssumption DEF Board!TypeOK
  <2>6. Board!CardsInSight'
    BY <1>0, <2>5, ColumnsStay DEF Board!ActiveColumns
  <2>7. QED
    BY <1>0, <2>5, <2>6 DEF Board!TypeOK, RequestInv
<1>2. CASE \E column \in Board!Columns, name \in Board!Names : Board!RenameColumn(column, name)
  <2>1. PICK column \in Board!Columns, name \in Board!Names : Board!RenameColumn(column, name)
    BY <1>2
  <2>2. columns' = [columns EXCEPT ![column].name = name]
    BY <2>1 DEF Board!RenameColumn
  <2>3. /\ columns' \in Seq(Board!ColumnRow) /\ Len(columns') = Len(columns)
        /\ \A k \in DOMAIN columns : columns'[k].active = columns[k].active
    <3>1. /\ columns' = [k \in 1 .. Len(columns) |-> columns'[k]] /\ Len(columns) \in Nat
          /\ DOMAIN columns = 1 .. Len(columns)
      BY <2>2, Rows
    <3>2. \A k \in 1 .. Len(columns) :
            columns'[k] \in Board!ColumnRow /\ columns'[k].active = columns[k].active
      BY <2>2, <3>1, Rows DEF Board!ColumnRow
    <3>3. QED
      BY <3>1, <3>2, SeqOf
  <2>4. Board!CardsInSight'
    BY <1>0, <2>3, Rows, ColumnsStay DEF Board!ActiveColumns, Board!TypeOK
  <2>5. QED
    BY <1>0, <2>3, <2>4 DEF Board!TypeOK, RequestInv
<1>3. CASE \E column \in Board!Columns, n \in 0 .. MaxColumns - 1 : Board!MoveColumn(column, n)
  <2>1. PICK column \in Board!Columns, n \in 0 .. MaxColumns - 1 : Board!MoveColumn(column, n)
    BY <1>3
  <2>2. /\ columns' \in Seq(Board!ColumnRow) /\ Len(columns') = Len(columns)
        /\ \A k \in DOMAIN columns : columns'[k].active = columns[k].active
    <3>1. n \in Nat
      BY ConversationsAssumption
    <3>2. QED
      BY <2>1, <3>1, ColumnMoves
  <2>3. Board!CardsInSight'
    BY <1>0, <2>2, Rows, ColumnsStay DEF Board!ActiveColumns, Board!TypeOK
  <2>4. QED
    BY <1>0, <2>2, <2>3 DEF Board!TypeOK, RequestInv
<1>4. CASE \E column \in Board!Columns : Board!ArchiveColumn(column)
  <2>1. PICK column \in Board!Columns : Board!ArchiveColumn(column)
    BY <1>4
  <2>2. /\ columns' = [columns EXCEPT ![column].active = FALSE] /\ column \in DOMAIN columns
        /\ \A t \in DOMAIN tasks : tasks[t].column = column => ~tasks[t].active
    BY <2>1 DEF Board!ArchiveColumn, Board!ActiveColumns, Board!InColumn
  <2>3. /\ columns' \in Seq(Board!ColumnRow) /\ Len(columns') = Len(columns)
        /\ \A k \in DOMAIN columns : k # column => columns'[k] = columns[k]
    <3>1. /\ columns' = [k \in 1 .. Len(columns) |-> columns'[k]] /\ Len(columns) \in Nat
          /\ DOMAIN columns = 1 .. Len(columns)
      BY <2>2, Rows
    <3>2. \A k \in 1 .. Len(columns) :
            columns'[k] \in Board!ColumnRow /\ (k # column => columns'[k] = columns[k])
      BY <2>2, <3>1, Rows DEF Board!ColumnRow
    <3>3. QED
      BY <3>1, <3>2, SeqOf
  <2>4. \A k \in Board!ActiveColumns : k # column => k \in Board!ActiveColumns'
    BY <2>3, Rows DEF Board!ActiveColumns, Board!TypeOK
  <2>5. Board!CardsInSight'
    BY <1>0, <2>2, <2>4 DEF Board!CardsInSight, Board!ActiveInActive, Board!OwnPlace
  <2>6. QED
    BY <1>0, <2>3, <2>5 DEF Board!TypeOK, RequestInv
<1>5. QED
  BY <1>1, <1>2, <1>3, <1>4 DEF Board!OnColumns

(* A card that gets a place in a column: its own, if it had none, or another one *)
LEMMA CardAdded ==
  ASSUME BoardInv, UNCHANGED <<project, columns>>, NEW k \in Board!ActiveColumns,
         Board!NextPosition(k) <= MaxPosition, Len(tasks) < MaxTasks,
         tasks' = Append(tasks, [column |-> k, active |-> TRUE,
                                 position |-> Board!NextPosition(k)])
  PROVE  /\ tasks' \in Seq(Board!TaskRow) /\ Len(tasks') <= MaxTasks
         /\ DOMAIN tasks \subseteq DOMAIN tasks' /\ Board!CardsInSight'
<1> DEFINE row == [column |-> k, active |-> TRUE, position |-> Board!NextPosition(k)]
           p == Board!NextPosition(k)
<1>1. p \in Nat /\ p <= MaxPosition
      /\ \A t \in DOMAIN tasks : tasks[t].column = k => tasks[t].position < p
  BY NextPlace DEF BoardInv
<1>2. \A t \in DOMAIN tasks : tasks[t].position \in Nat
  BY Rows DEF BoardInv, Board!TaskRow
<1>3. k \in Board!Columns
  BY Rows DEF BoardInv, Board!ActiveColumns
<1> HIDE DEF p
<1>4. row \in Board!TaskRow /\ row.column = k /\ row.position = p
  BY <1>1, <1>3, ConversationsAssumption DEF Board!TaskRow, p
<1> HIDE DEF row
<1>5. tasks \in Seq(Board!TaskRow) /\ tasks' = Append(tasks, row)
  BY DEF BoardInv, Board!TypeOK, row
<1>6. /\ tasks' \in Seq(Board!TaskRow) /\ Len(tasks') = Len(tasks) + 1
      /\ tasks'[Len(tasks) + 1] = row
      /\ \A t \in DOMAIN tasks : tasks'[t] = tasks[t]
      /\ DOMAIN tasks' = DOMAIN tasks \cup {Len(tasks) + 1}
  BY <1>4, <1>5
<1>7. Board!ActiveInActive'
  BY <1>4, <1>6 DEF BoardInv, Board!CardsInSight, Board!ActiveInActive, Board!ActiveColumns
<1>8. Board!OwnPlace'
  BY <1>1, <1>2, <1>4, <1>6 DEF BoardInv, Board!CardsInSight, Board!OwnPlace
<1>9. Len(tasks) \in Nat
  BY Rows DEF BoardInv
<1>10. QED
  BY <1>6, <1>7, <1>8, <1>9, ConversationsAssumption DEF Board!CardsInSight

LEMMA CardPlaced ==
  ASSUME BoardInv, UNCHANGED <<project, columns>>, NEW card \in DOMAIN tasks,
         NEW row \in Board!TaskRow, tasks' = [tasks EXCEPT ![card] = row],
         row.active => row.column \in Board!ActiveColumns,
         \/ row.column = tasks[card].column /\ row.position = tasks[card].position
         \/ row.position = Board!NextPosition(row.column)
  PROVE  /\ tasks' \in Seq(Board!TaskRow) /\ Len(tasks') <= MaxTasks
         /\ DOMAIN tasks' = DOMAIN tasks /\ Board!CardsInSight'
<1>1. /\ Board!NextPosition(row.column) \in Nat
      /\ \A t \in DOMAIN tasks :
           tasks[t].column = row.column => tasks[t].position < Board!NextPosition(row.column)
  BY NextPlace DEF BoardInv
<1>2. \A t \in DOMAIN tasks : tasks[t].position \in Nat
  BY Rows DEF BoardInv, Board!TaskRow
<1>3. tasks \in Seq(Board!TaskRow) /\ Len(tasks) <= MaxTasks
  BY DEF BoardInv, Board!TypeOK
<1>4. /\ tasks' \in Seq(Board!TaskRow) /\ Len(tasks') = Len(tasks)
      /\ DOMAIN tasks' = DOMAIN tasks /\ tasks'[card] = row
      /\ \A t \in DOMAIN tasks : t # card => tasks'[t] = tasks[t]
  BY <1>3
<1>5. Board!ActiveInActive'
  BY <1>4 DEF BoardInv, Board!CardsInSight, Board!ActiveInActive, Board!ActiveColumns
<1>6. Board!OwnPlace'
  BY <1>1, <1>2, <1>4 DEF BoardInv, Board!CardsInSight, Board!OwnPlace
<1>7. QED
  BY <1>3, <1>4, <1>5, <1>6 DEF Board!CardsInSight

LEMMA CardSteps ==
  ASSUME BoardInv, NEW c \in Editors, Board!OnTasks(c)
  PROVE  BoardInv'
<1> USE DEF BoardInv
<1>1. ASSUME NEW op \in {"newTask", "move", "editMove"},
             NEW task \in Board!Tasks \cup {Board!NoId},
             NEW column \in Board!Columns \cup {Board!NoId}, Board!Ask(c, op, task, column)
      PROVE  BoardInv'
  <2>1. /\ requests' = [requests EXCEPT ![c] = [op |-> op, task |-> task, column |-> column]]
        /\ UNCHANGED <<project, columns, tasks>>
    BY <1>1 DEF Board!Ask
  <2>2. op \in {"move", "editMove"} =>
          task \in DOMAIN tasks /\ column \in Board!Columns
    BY <1>1, Rows DEF Board!Ask, Board!ActiveColumns
  <2>3. Board!TypeOK'
    BY <2>1 DEF Board!TypeOK, Board!Ops
  <2>4. RequestInv'
    BY <2>1, <2>2 DEF RequestInv, Board!TypeOK
  <2>5. Board!CardsInSight'
    BY <2>1 DEF Board!CardsInSight, Board!ActiveInActive, Board!OwnPlace, Board!ActiveColumns
  <2>6. QED
    BY <2>3, <2>4, <2>5
<1>2. CASE Board!CreateTask(c)
  <2> DEFINE k == IF requests[c].column = Board!NoId THEN Board!FirstColumn
                  ELSE requests[c].column
  <2>1. /\ Board!NextPosition(k) <= MaxPosition /\ Len(tasks) < MaxTasks
        /\ tasks' = Append(tasks, [column |-> k, active |-> TRUE,
                                   position |-> Board!NextPosition(k)])
        /\ UNCHANGED <<project, columns>> /\ Board!Turn(c, "none")
        /\ requests[c].column \in Board!ActiveColumns \cup {Board!NoId}
        /\ requests[c].column = Board!NoId => Board!ActiveColumns # {}
    BY <1>2 DEF Board!CreateTask, Board!CreateTaskUnchecked, Board!Done
  <2>2. k \in Board!ActiveColumns
    BY <2>1, FirstIsShown
  <2> HIDE DEF k
  <2>3. /\ tasks' \in Seq(Board!TaskRow) /\ Len(tasks') <= MaxTasks
        /\ DOMAIN tasks \subseteq DOMAIN tasks' /\ Board!CardsInSight'
    BY <2>1, <2>2, CardAdded
  <2>4. "none" \in Board!Ops
    BY DEF Board!Ops
  <2>5. Board!TypeOK' /\ RequestInv'
    BY <2>1, <2>3, <2>4, Turns DEF Board!TypeOK, RequestInv, Board!Idle
  <2>6. QED
    BY <2>3, <2>5
<1>3. CASE Board!UpdateTask(c)
  <2>1. /\ requests[c].op = "editMove" /\ Board!Turn(c, "move") /\ "move" \in Board!Ops
        /\ UNCHANGED <<project, columns, tasks>>
    BY <1>3 DEF Board!UpdateTask, Board!Ops
  <2>2. Board!TypeOK' /\ RequestInv'
    BY <2>1, Turns DEF Board!TypeOK, RequestInv
  <2>3. Board!CardsInSight'
    BY <2>1 DEF Board!CardsInSight, Board!ActiveInActive, Board!OwnPlace, Board!ActiveColumns
  <2>4. QED
    BY <2>2, <2>3
<1>4. CASE Board!MoveTask(c)
  <2> DEFINE card == requests[c].task
             k == requests[c].column
             row == [tasks[card] EXCEPT !.column = k, !.position = Board!NextPosition(k)]
  <2>1. /\ requests[c].op = "move" /\ k \in Board!ActiveColumns
        /\ Board!NextPosition(k) <= MaxPosition
        /\ tasks' = [tasks EXCEPT ![card].column = k, ![card].position = Board!NextPosition(k)]
        /\ UNCHANGED <<project, columns>> /\ Board!Turn(c, "none")
    BY <1>4 DEF Board!MoveTask, Board!Done
  <2>2. card \in DOMAIN tasks /\ k \in Board!Columns
    BY <2>1 DEF RequestInv
  <2>3. /\ tasks[card] \in Board!TaskRow /\ Board!NextPosition(k) \in 0 .. MaxPosition
    BY <2>1, <2>2, Rows, NextPlace, ConversationsAssumption
  <2>4. row \in Board!TaskRow /\ row.column = k /\ row.position = Board!NextPosition(k)
    BY <2>2, <2>3 DEF Board!TaskRow
  <2>5. tasks' = [tasks EXCEPT ![card] = row]
    BY <2>1
  <2> HIDE DEF row
  <2>6. /\ tasks' \in Seq(Board!TaskRow) /\ Len(tasks') <= MaxTasks
        /\ DOMAIN tasks' = DOMAIN tasks /\ Board!CardsInSight'
    BY <2>1, <2>2, <2>4, <2>5, CardPlaced
  <2>7. "none" \in Board!Ops
    BY DEF Board!Ops
  <2>8. Board!TypeOK' /\ RequestInv'
    BY <2>1, <2>6, <2>7, Turns DEF Board!TypeOK, RequestInv, Board!Idle
  <2>9. QED
    BY <2>6, <2>8
<1>5. QED
  BY <1>1, <1>2, <1>3, <1>4 DEF Board!OnTasks

LEMMA ArchiveSteps ==
  ASSUME BoardInv, NEW card \in Board!Tasks, Board!ArchiveTask(card) \/ Board!UnarchiveTask(card)
  PROVE  BoardInv'
<1> USE DEF BoardInv
<1> DEFINE row == tasks'[card]
<1>0. UNCHANGED <<project, columns, requests>> /\ card \in DOMAIN tasks
      /\ tasks[card] \in Board!TaskRow /\ tasks \in Seq(Board!TaskRow)
  BY Rows DEF Board!ArchiveTask, Board!UnarchiveTask, Board!TypeOK
<1>1. /\ row \in Board!TaskRow /\ tasks' = [tasks EXCEPT ![card] = row]
      /\ row.active => row.column \in Board!ActiveColumns
      /\ \/ row.column = tasks[card].column /\ row.position = tasks[card].position
         \/ row.position = Board!NextPosition(row.column)
  <2>1. CASE Board!ArchiveTask(card)
    <3>1. tasks' = [tasks EXCEPT ![card].active = FALSE]
      BY <2>1 DEF Board!ArchiveTask
    <3>2. /\ row = [tasks[card] EXCEPT !.active = FALSE]
          /\ tasks' = [tasks EXCEPT ![card] = row]
      BY <1>0, <3>1
    <3>3. QED
      BY <1>0, <3>2 DEF Board!TaskRow
  <2>2. CASE Board!UnarchiveTask(card)
    <3> DEFINE old == tasks[card].column
               k == IF old \notin Board!ActiveColumns THEN Board!FirstColumn ELSE old
               p == IF old \notin Board!ActiveColumns THEN Board!NextPosition(k)
                    ELSE tasks[card].position
    <3>1. /\ tasks' = [tasks EXCEPT ![card].active = TRUE, ![card].column = k,
                                   ![card].position = p]
          /\ old \notin Board!ActiveColumns => Board!ActiveColumns # {}
          /\ p <= MaxPosition
      BY <2>2 DEF Board!UnarchiveTask
    <3>2. k \in Board!ActiveColumns
      BY <3>1, FirstIsShown
    <3>3. p \in 0 .. MaxPosition /\ k \in Board!Columns
      BY <1>0, <3>1, <3>2, Rows, NextPlace, ConversationsAssumption
         DEF Board!TaskRow, Board!ActiveColumns
    <3>4. (k = old /\ p = tasks[card].position) \/ p = Board!NextPosition(k)
      OBVIOUS
    <3> HIDE DEF k, p
    <3>5. /\ row = [tasks[card] EXCEPT !.active = TRUE, !.column = k, !.position = p]
          /\ tasks' = [tasks EXCEPT ![card] = row]
      BY <1>0, <3>1
    <3>6. row \in Board!TaskRow /\ row.column = k /\ row.position = p
      BY <1>0, <3>3, <3>5 DEF Board!TaskRow
    <3>7. QED
      BY <3>2, <3>4, <3>5, <3>6
  <2>3. QED
    BY <2>1, <2>2
<1> HIDE DEF row
<1>2. /\ tasks' \in Seq(Board!TaskRow) /\ Len(tasks') <= MaxTasks
      /\ DOMAIN tasks' = DOMAIN tasks /\ Board!CardsInSight'
  BY <1>0, <1>1, CardPlaced
<1>3. QED
  BY <1>0, <1>2 DEF Board!TypeOK, RequestInv

LEMMA BoardStep == BoardInv /\ [Board!Next]_(Board!vars) => BoardInv'
<1> SUFFICES ASSUME BoardInv, [Board!Next]_(Board!vars) PROVE BoardInv'
  OBVIOUS
<1>1. CASE UNCHANGED Board!vars
  BY <1>1 DEF BoardInv, Board!vars, Board!TypeOK, RequestInv, Board!CardsInSight,
     Board!ActiveInActive, Board!OwnPlace, Board!ActiveColumns
<1>2. QED
  BY <1>1, ProjectSteps, ColumnSteps, CardSteps, ArchiveSteps DEF Board!Next

-----------------------------------------------------------------------------
(* The order of the columns *)

LEMMA BeforeOrders ==
  ASSUME Board!TypeOK
  PROVE  \A a, b, c \in DOMAIN columns :
           /\ ~Board!Before(a, a)
           /\ Board!Before(a, b) /\ Board!Before(b, c) => Board!Before(a, c)
           /\ a # b => Board!Before(a, b) \/ Board!Before(b, a)
<1>1. \A a \in DOMAIN columns : a \in Nat /\ columns[a].position \in Nat
  BY Rows DEF Board!ColumnRow
<1>2. QED
  BY <1>1 DEF Board!Before

(* Whoever is shown before has fewer before it *)
LEMMA PlaceGrows ==
  ASSUME Board!TypeOK, NEW S, S \subseteq DOMAIN columns,
         NEW a \in S, NEW b \in S, Board!Before(a, b)
  PROVE  Board!Place(a, S) < Board!Place(b, S)
<1> DEFINE A == {j \in S : Board!Before(j, a)}
           B == {j \in S : Board!Before(j, b)}
<1>1. A \in SUBSET B /\ a \in B /\ a \notin A
  BY BeforeOrders
<1>2. IsFiniteSet(B) /\ Cardinality(A) \in Nat /\ Cardinality(B) \in Nat
  <2>1. IsFiniteSet(S) /\ B \in SUBSET S
    BY Placed
  <2> HIDE DEF A, B
  <2>2. IsFiniteSet(B)
    BY <2>1, FS_Subset
  <2>3. QED
    BY <1>1, <2>2, FS_Subset, FS_CardinalityType
<1>3. Board!Place(a, S) = Cardinality(A) /\ Board!Place(b, S) = Cardinality(B)
  BY Placed
<1> HIDE DEF A, B
<1>4. Cardinality(A) <= Cardinality(B) /\ Cardinality(A) # Cardinality(B)
  BY <1>1, <1>2, FS_Subset
<1>5. QED
  BY <1>2, <1>3, <1>4

(* No two have one place, and no place is left out: n of them have places below n *)
LEMMA PlacesFill ==
  ASSUME Board!TypeOK, NEW S, S \subseteq DOMAIN columns, NEW n \in Nat, n <= Cardinality(S)
  PROVE  Cardinality({j \in S : Board!Place(j, S) < n}) = n
<1> DEFINE m == Cardinality(S)
           f == [j \in S |-> Board!Place(j, S)]
           T == {j \in S : Board!Place(j, S) < n}
           g == [j \in T |-> Board!Place(j, S)]
<1>1. IsFiniteSet(S) /\ m \in Nat /\ \A j \in S : Board!Place(j, S) \in 0 .. m
  BY Placed
<1>2. \A j \in S : Board!Place(j, S) \in 0 .. (m - 1)
  <2>1. TAKE j \in S
  <2> DEFINE A == {i \in S : Board!Before(i, j)}
  <2>2. A \in SUBSET S /\ j \notin A /\ Board!Place(j, S) = Cardinality(A)
    BY BeforeOrders, Placed
  <2> HIDE DEF A
  <2>3. Cardinality(A) # Cardinality(S)
    BY <1>1, <2>2, FS_Subset
  <2>4. QED
    BY <1>1, <2>2, <2>3
<1>3. \A i, j \in S : Board!Place(i, S) = Board!Place(j, S) => i = j
  <2>1. SUFFICES ASSUME NEW i \in S, NEW j \in S, i # j
                 PROVE  Board!Place(i, S) # Board!Place(j, S)
    OBVIOUS
  <2>2. Board!Place(i, S) \in Nat /\ Board!Place(j, S) \in Nat
    BY <1>1
  <2>3. CASE Board!Before(i, j)
    BY <2>2, <2>3, PlaceGrows
  <2>4. CASE Board!Before(j, i)
    BY <2>2, <2>4, PlaceGrows
  <2>5. QED
    BY <2>1, <2>3, <2>4, BeforeOrders
<1>4. f \in Injection(S, 0 .. (m - 1))
  BY <1>2, <1>3 DEF Injection, IsInjective
<1>5. IsFiniteSet(0 .. (m - 1)) /\ Cardinality(0 .. (m - 1)) = m
  <2> HIDE DEF m
  <2>1. QED
    BY <1>1, FS_Interval
<1>6. \A x \in 0 .. (m - 1) : \E j \in S : Board!Place(j, S) = x
  <2>1. f \in Surjection(S, 0 .. (m - 1))
    <3> HIDE DEF f
    <3>1. QED
      BY <1>4, <1>5, FS_Injection
  <2>2. QED
    BY <2>1 DEF Surjection
<1> HIDE DEF f
<1>7. g \in Bijection(T, 0 .. (n - 1))
  <2>1. n \in Nat /\ n <= m /\ m \in Nat
    BY <1>1
  <2> HIDE DEF m
  <2>2. g \in [T -> 0 .. (n - 1)]
    BY <1>2, <2>1
  <2>3. g \in Injection(T, 0 .. (n - 1))
    BY <1>3, <2>2 DEF Injection, IsInjective
  <2>4. \A x \in 0 .. (n - 1) : \E j \in T : g[j] = x
    BY <1>6, <2>1
  <2> HIDE DEF g, T
  <2>5. QED
    BY <2>2, <2>3, <2>4 DEF Bijection, Surjection
<1>8. IsFiniteSet(T)
  <2>1. T \in SUBSET S
    OBVIOUS
  <2> HIDE DEF T
  <2>2. QED
    BY <1>1, <2>1, FS_Subset
<1>9. ExistsBijection(T, 0 .. (n - 1))
  BY <1>7 DEF ExistsBijection
<1>10. Cardinality(0 .. (n - 1)) = n
  BY FS_Interval
<1> HIDE DEF T, g
<1>11. Cardinality(T) = n
  BY <1>8, <1>9, <1>10, FS_Bijection
<1>12. QED
  BY <1>11 DEF T

(* What ColumnsKeepOrder says of a step *)
OrderKept ==
  LET stay == Board!ActiveColumns \cap Board!ActiveColumns'
      new == DOMAIN columns' \ DOMAIN columns
  IN /\ \E moved \in SUBSET stay :
          /\ Board!Cardinality(moved) <= 1
          /\ \A a, b \in stay \ moved : Board!Before(a, b) => Board!Before(a, b)'
          /\ moved = {} \/ \E n \in 0 .. MaxColumns - 1 :
               \A k \in moved :
                 Board!MoveColumn(k, n) /\ Board!Place(k, Board!ActiveColumns)' = n
     /\ new # {} /\ requests' = requests =>
          \A a \in new, b \in Board!ActiveColumns : Board!Before(b, a)'

(* Nothing moves: columns keep their places, and one that a step adds has the last *)
LEMMA OrderStays ==
  ASSUME Board!TypeOK, DOMAIN columns \subseteq DOMAIN columns',
         \A k \in DOMAIN columns : columns'[k].position = columns[k].position,
         requests' = requests =>
           \A a \in DOMAIN columns' \ DOMAIN columns, b \in DOMAIN columns' :
             b # a => Board!Before(b, a)'
  PROVE  OrderKept
<1> DEFINE stay == Board!ActiveColumns \cap Board!ActiveColumns'
           moved == {}
<1>1. stay \subseteq DOMAIN columns
  BY DEF Board!ActiveColumns
<1>2. moved \in SUBSET stay /\ Board!Cardinality(moved) <= 1
  BY FS_EmptySet DEF Board!Cardinality, Cardinality
<1>3. \A a, b \in stay \ moved : Board!Before(a, b) => Board!Before(a, b)'
  BY <1>1 DEF Board!Before
<1>4. requests' = requests =>
        \A a \in DOMAIN columns' \ DOMAIN columns, b \in Board!ActiveColumns :
          Board!Before(b, a)'
  BY DEF Board!ActiveColumns
<1>5. QED
  BY <1>2, <1>3, <1>4 DEF OrderKept

LEMMA MoveKeepsOrder ==
  ASSUME BoardInv, NEW column \in Board!Columns, NEW n \in 0 .. MaxColumns - 1,
         Board!MoveColumn(column, n)
  PROVE  OrderKept
<1> DEFINE A == Board!ActiveColumns
           S == A \ {column}
<1>0. n \in Nat /\ Board!TypeOK
  BY ConversationsAssumption DEF BoardInv
<1>1. /\ columns' \in Seq(Board!ColumnRow) /\ Len(columns') = Len(columns)
      /\ DOMAIN columns' = DOMAIN columns
      /\ Board!ActiveColumns' = A /\ column \in A /\ n < Cardinality(A)
      /\ columns'[column].position = n
      /\ \A k \in S : columns'[k].position =
                          IF Board!Place(k, S) < n THEN Board!Place(k, S)
                          ELSE Board!Place(k, S) + 1
  <2>1. /\ columns' \in Seq(Board!ColumnRow) /\ Len(columns') = Len(columns)
        /\ \A k \in DOMAIN columns : columns'[k].active = columns[k].active
        /\ column \in A /\ n < Cardinality(A) /\ columns'[column].position = n
    BY <1>0, ColumnMoves
  <2>2. \A k \in S : columns'[k].position =
                        IF Board!Place(k, S) < n THEN Board!Place(k, S) ELSE Board!Place(k, S) + 1
    BY <1>0, ColumnMoves
  <2>3. DOMAIN columns' = 1 .. Len(columns') /\ DOMAIN columns = 1 .. Len(columns)
    BY <1>0, <2>1, Rows
  <2>4. DOMAIN columns' = DOMAIN columns
    BY <2>1, <2>3
  <2>5. Board!ActiveColumns' = A
    BY <2>1, <2>4 DEF Board!ActiveColumns
  <2> HIDE DEF S, A
  <2>6. QED
    BY <2>1, <2>2, <2>4, <2>5
<1>2. A \subseteq DOMAIN columns /\ S \subseteq DOMAIN columns /\ column \notin S
  BY DEF Board!ActiveColumns
<1>3. /\ Cardinality(S) \in Nat /\ Cardinality(A) \in Nat
      /\ \A k : Board!Place(k, S) \in Nat
  <2> HIDE DEF A, S
  <2>1. Cardinality(S) \in Nat /\ Cardinality(A) \in Nat
    BY <1>0, <1>2, Placed
  <2>2. ASSUME NEW k PROVE Board!Place(k, S) \in Nat
    <3>1. Board!Place(k, S) \in 0 .. Cardinality(S)
      BY <1>0, <1>2, Placed
    <3>2. QED
      BY <2>1, <3>1
  <2>3. QED
    BY <2>1, <2>2
<1>4. n <= Cardinality(S)
  <2>1. IsFiniteSet(A)
    BY <1>0, <1>2, Placed
  <2>2. Cardinality(S) = Cardinality(A) - 1
    <3> HIDE DEF A
    <3>1. QED
      BY <1>1, <2>1, FS_RemoveElement
  <2> HIDE DEF A, S
  <2>3. QED
    BY <1>0, <1>1, <1>3, <2>2
<1>5. \A a, b \in S : Board!Before(a, b) => Board!Before(a, b)'
  <2>1. SUFFICES ASSUME NEW a \in S, NEW b \in S, Board!Before(a, b) PROVE Board!Before(a, b)'
    OBVIOUS
  <2> HIDE DEF S, A
  <2>2. Board!Place(a, S) < Board!Place(b, S)
    BY <1>0, <1>2, <2>1, PlaceGrows
  <2>3. columns'[a].position < columns'[b].position
    BY <1>0, <1>1, <1>3, <2>2
  <2>4. QED
    BY <2>3 DEF Board!Before
<1>6. Board!Place(column, Board!ActiveColumns)' = n
  <2>1. \A j \in S : Board!Before(j, column)' <=> Board!Place(j, S) < n
    <3>1. TAKE j \in S
    <3> HIDE DEF S, A
    <3>2. Board!Place(j, S) \in Nat
      BY <1>3
    <3>3. QED
      BY <1>0, <1>1, <3>2 DEF Board!Before
  <2>2. ~Board!Before(column, column)'
    BY <1>0, <1>1, <1>2, Rows DEF Board!Before
  <2>3. {j \in A : Board!Before(j, column)'} = {j \in S : Board!Place(j, S) < n}
    BY <2>1, <2>2
  <2>4. Cardinality({j \in A : Board!Before(j, column)'}) = n
    <3> HIDE DEF S, A
    <3>1. QED
      BY <1>0, <1>2, <1>4, <2>3, PlacesFill
  <2>5. QED
    BY <1>1, <2>4 DEF Board!Place, Board!Cardinality, Cardinality
<1>7. {column} \in SUBSET (A \cap Board!ActiveColumns') /\ Board!Cardinality({column}) <= 1
  <2>1. {column} \in SUBSET (A \cap Board!ActiveColumns')
    <3>1. column \in A /\ Board!ActiveColumns' = A
      BY <1>1
    <3>2. QED
      BY <3>1
  <2>2. Cardinality({column}) = 1
    BY FS_Singleton
  <2>3. QED
    BY <2>1, <2>2 DEF Board!Cardinality, Cardinality
<1>8. DOMAIN columns' \ DOMAIN columns = {}
  BY <1>1
<1>9. \A a, b \in (A \cap Board!ActiveColumns') \ {column} :
        Board!Before(a, b) => Board!Before(a, b)'
  BY <1>5
<1>10. \A k \in {column} : Board!MoveColumn(k, n) /\ Board!Place(k, Board!ActiveColumns)' = n
  BY <1>6
<1> HIDE DEF S
<1>11. QED
  BY <1>7, <1>8, <1>9, <1>10 DEF OrderKept


LEMMA StepKeepsOrder == BoardInv /\ [Board!Next]_(Board!vars) => [OrderKept]_(Board!vars)
<1> SUFFICES ASSUME BoardInv, Board!Next PROVE OrderKept
  BY DEF Board!vars
<1>0. Board!TypeOK /\ DOMAIN columns = 1 .. Len(columns) /\ Len(columns) \in Nat
  BY Rows DEF BoardInv
<1>1. CASE UNCHANGED columns
  BY <1>0, <1>1, OrderStays
<1>2. ASSUME NEW c \in Editors, Board!SeedColumns(c) PROVE OrderKept
  <2>1. requests[c].op = "seed" /\ Board!Turn(c, "none")
    BY <1>2 DEF Board!SeedColumns, Board!Done
  <2>2. requests' # requests
    <3>1. requests'[c] = Board!Idle
      <4>1. "none" \in Board!Ops
        BY DEF Board!Ops
      <4>2. QED
        BY <2>1, <4>1, Turns
    <3>2. QED
      BY <2>1, <3>1 DEF Board!Idle
  <2>3. PICK new : columns' = columns \o new /\ \E m \in Nat : DOMAIN new = 1 .. m
    <3> DEFINE missing == {i \in DOMAIN Defaults : Defaults[i] \notin Board!NamesInUse}
    <3>1. PICK order \in [1 .. Cardinality(missing) -> missing] :
            columns' = columns \o [i \in DOMAIN order |->
              [name |-> Defaults[order[i]], active |-> TRUE, position |-> order[i] - 1]]
      BY <1>2 DEF Board!SeedColumns, Board!Cardinality, Cardinality
    <3>2. Cardinality(missing) \in Nat
      <4>1. missing \subseteq 1 .. Len(Defaults) /\ Len(Defaults) \in Nat
        BY ConversationsAssumption
      <4>2. IsFiniteSet(1 .. Len(Defaults))
        BY <4>1, FS_Interval
      <4>3. IsFiniteSet(missing)
        BY <4>1, <4>2, FS_Subset
      <4>4. QED
        BY <4>3, FS_CardinalityType
    <3> HIDE DEF missing
    <3> DEFINE new == [i \in DOMAIN order |->
              [name |-> Defaults[order[i]], active |-> TRUE, position |-> order[i] - 1]]
    <3>3. columns' = columns \o new
      BY <3>1
    <3>4. DOMAIN new = 1 .. Cardinality(missing)
      BY <3>1
    <3> HIDE DEF new
    <3>5. QED
      BY <3>2, <3>3, <3>4
  <2>4. PICK m \in Nat : DOMAIN new = 1 .. m
    BY <2>3
  <2>5. \A k \in DOMAIN columns : k \in DOMAIN columns' /\ columns'[k] = columns[k]
    <3>1. Len(new) = m
      BY <2>4
    <3>2. columns \in Seq(Board!ColumnRow)
      BY <1>0 DEF Board!TypeOK
    <3>3. QED
      BY <1>0, <2>3, <3>1, <3>2
  <2>6. QED
    BY <1>0, <2>2, <2>5, OrderStays
<1>3. ASSUME NEW name \in Board!Names, Board!CreateColumn(name) PROVE OrderKept
  <2> DEFINE row == [name |-> name, active |-> TRUE, position |-> Board!NextColumnPosition]
  <2>1. columns' = Append(columns, row) /\ columns \in Seq(Board!ColumnRow)
    BY <1>0, <1>3 DEF Board!CreateColumn, Board!TypeOK
  <2>2. row.position = Board!NextColumnPosition
    OBVIOUS
  <2> HIDE DEF row
  <2>3. /\ DOMAIN columns' = 1 .. Len(columns) + 1 /\ columns'[Len(columns) + 1] = row
        /\ \A k \in DOMAIN columns : columns'[k] = columns[k]
    BY <1>0, <2>1
  <2>4. DOMAIN columns' \ DOMAIN columns = {Len(columns) + 1}
    BY <1>0, <2>3
  <2>5. ASSUME NEW a \in DOMAIN columns' \ DOMAIN columns, NEW b \in DOMAIN columns', b # a
        PROVE  Board!Before(b, a)'
    <3>1. columns'[a].position = Board!NextColumnPosition
      BY <2>2, <2>3, <2>4
    <3>2. b \in DOMAIN columns /\ columns'[b] = columns[b]
      BY <2>3, <2>4, <2>5
    <3>3. columns[b].position < Board!NextColumnPosition
      BY <1>0, <3>2, NextColumn
    <3>4. QED
      BY <3>1, <3>2, <3>3 DEF Board!Before
  <2>6. DOMAIN columns \subseteq DOMAIN columns'
    BY <1>0, <2>3
  <2>7. QED
    BY <1>0, <2>3, <2>5, <2>6, OrderStays
<1>4. ASSUME NEW column \in Board!Columns,
             \/ \E name \in Board!Names : Board!RenameColumn(column, name)
             \/ Board!ArchiveColumn(column)
      PROVE  OrderKept
  <2>1. column \in DOMAIN columns
    BY <1>4 DEF Board!RenameColumn, Board!ArchiveColumn, Board!ActiveColumns
  <2>2. columns[column] \in Board!ColumnRow
    BY <1>0, <2>1, Rows
  <2>3. \/ \E name \in Board!Names : columns' = [columns EXCEPT ![column].name = name]
        \/ columns' = [columns EXCEPT ![column].active = FALSE]
    BY <1>4 DEF Board!RenameColumn, Board!ArchiveColumn
  <2>4. DOMAIN columns' = DOMAIN columns
    BY <2>3
  <2>5. columns'[column].position = columns[column].position
    BY <2>1, <2>2, <2>3 DEF Board!ColumnRow
  <2>6. \A k \in DOMAIN columns : columns'[k].position = columns[k].position
    BY <2>3, <2>5
  <2>7. QED
    BY <1>0, <2>4, <2>6, OrderStays
<1>5. ASSUME NEW column \in Board!Columns, NEW n \in 0 .. MaxColumns - 1,
             Board!MoveColumn(column, n)
      PROVE  OrderKept
  BY <1>5, MoveKeepsOrder
<1>6. ASSUME NEW c \in Editors, Board!OnProject(c) \/ Board!OnTasks(c) PROVE OrderKept
  <2>1. \/ UNCHANGED columns \/ Board!SeedColumns(c)
    BY <1>6 DEF Board!OnProject, Board!OnTasks, Board!CreateProject, Board!InitProjectDb,
       Board!AddDefaults, Board!Stop, Board!Ask, Board!CreateTask, Board!CreateTaskUnchecked,
       Board!UpdateTask, Board!MoveTask
  <2>2. QED
    BY <1>1, <1>2, <2>1
<1>7. CASE Board!OnColumns
  BY <1>3, <1>4, <1>5, <1>7 DEF Board!OnColumns
<1>8. ASSUME NEW task \in Board!Tasks, Board!ArchiveTask(task) \/ Board!UnarchiveTask(task)
      PROVE  OrderKept
  BY <1>1, <1>8 DEF Board!ArchiveTask, Board!UnarchiveTask
<1>9. QED
  BY <1>6, <1>7, <1>8 DEF Board!Next

(* Whatever the editors of a board do between each other's steps: a card that is shown is in a
   column that is shown, and no two cards of a column have one place *)
THEOREM BoardIsSafe == Board!Spec => [](Board!TypeOK /\ Board!CardsInSight)
<1>1. BoardInv => Board!TypeOK /\ Board!CardsInSight
  BY DEF BoardInv
<1>2. QED
  BY <1>1, BoardInit, BoardStep, PTL DEF Board!Spec

(* Only its own move changes where a column stands among the others, it then stands where it
   was moved to, and a new column is last *)
THEOREM ColumnsStayInOrder == Board!Spec => Board!ColumnsKeepOrder
<1>1. OrderKept <=> LET stay == Board!ActiveColumns \cap Board!ActiveColumns'
      new == DOMAIN columns' \ DOMAIN columns
  IN /\ \E moved \in SUBSET stay :
          /\ Board!Cardinality(moved) <= 1
          /\ \A a, b \in stay \ moved : Board!Before(a, b) => Board!Before(a, b)'
          /\ moved = {} \/ \E n \in 0 .. MaxColumns - 1 :
               \A k \in moved :
                 Board!MoveColumn(k, n) /\ Board!Place(k, Board!ActiveColumns)' = n
     /\ new # {} /\ requests' = requests =>
          \A a \in new, b \in Board!ActiveColumns : Board!Before(b, a)'
  BY DEF OrderKept
<1>2. QED
  BY <1>1, BoardInit, BoardStep, StepKeepsOrder, PTL DEF Board!Spec, Board!ColumnsKeepOrder

-----------------------------------------------------------------------------
(* What hangs on its cards *)

(* What a client is about to do names things there are, a file it will refer to is there, and
   one that is short has a reason *)
CallInv ==
  /\ \A c \in Clients :
       /\ calls[c].step = "tag" => calls[c].card \in Cards /\ calls[c].id \in Topics
       /\ calls[c].step \in {"open", "write", "attach"} =>
            calls[c].id \in DOMAIN messages /\ calls[c].blob \in Blobs
       /\ calls[c].step \in {"write", "attach"} => blobs[calls[c].blob] # "absent"
  /\ \A a \in DOMAIN media : blobs[media[a].blob] # "absent"
  /\ \A b \in Blobs : blobs[b] = "part" =>
       b \in cut \/ \E c \in Clients : calls[c].step = "write" /\ calls[c].blob = b

ThreadInv == Thread!TypeOK /\ CallInv

CallRecords == [step : Thread!Steps, card : Cards \cup {Nil},
                id : Topics \cup Messages \cup {Nil}, blob : Blobs \cup {Nil}]

MessageRows == [card : Cards, active : BOOLEAN]
MediaRows == [message : Messages, blob : Blobs, active : BOOLEAN]

(* A table with one row more *)
LEMMA PutsTyped ==
  ASSUME NEW K, NEW V, NEW made \in SUBSET K, NEW f \in [made -> V],
         NEW key \in K, NEW value \in V
  PROVE  \E more \in SUBSET K : Thread!Put(f, key, value) \in [more -> V]
<1>1. Thread!Put(f, key, value) \in [made \cup {key} -> V]
  BY DEF Thread!Put
<1>2. QED
  BY <1>1

(* The call of one client changes *)
LEMMA CallGoes ==
  ASSUME ThreadInv, NEW c \in Clients, NEW step \in Thread!Steps, Thread!Goes(c, step)
  PROVE  /\ calls' \in [Clients -> CallRecords]
         /\ \A d \in Clients \ {c} : calls'[d] = calls[d]
         /\ calls'[c].step = step
         /\ step # "none" => /\ calls'[c].id = calls[c].id /\ calls'[c].blob = calls[c].blob
                             /\ calls'[c].card = calls[c].card
<1> DEFINE next == IF step = "none" THEN Thread!NoCall ELSE [calls[c] EXCEPT !.step = step]
<1>1. calls \in [Clients -> CallRecords] /\ calls' = [calls EXCEPT ![c] = next]
  BY DEF ThreadInv, Thread!TypeOK, CallRecords, Thread!Goes
<1>2. calls[c] \in CallRecords /\ Thread!NoCall \in CallRecords
  BY <1>1 DEF CallRecords, Thread!NoCall, Thread!Steps
<1>3. /\ next \in CallRecords /\ next.step = step
      /\ step # "none" => /\ next.id = calls[c].id /\ next.blob = calls[c].blob
                          /\ next.card = calls[c].card
  BY <1>2 DEF CallRecords, Thread!NoCall
<1> HIDE DEF next
<1>4. QED
  BY <1>1, <1>3

LEMMA ThreadInit == Thread!Init => ThreadInv
<1> SUFFICES ASSUME Thread!Init PROVE ThreadInv
  OBVIOUS
<1>1. /\ \E made \in SUBSET Topics : topics \in [made -> BOOLEAN]
      /\ \E made \in SUBSET Messages : messages \in [made -> MessageRows]
      /\ \E made \in SUBSET Media : media \in [made -> MediaRows]
  <2>1. /\ topics \in [{} -> BOOLEAN] /\ messages \in [{} -> MessageRows]
        /\ media \in [{} -> MediaRows]
    BY DEF Thread!Init
  <2>2. QED
    BY <2>1
<1>2. calls \in [Clients -> CallRecords] /\ \A c \in Clients : calls[c].step = "none"
  BY DEF Thread!Init, CallRecords, Thread!NoCall, Thread!Steps
<1>3. /\ blobs \in [Blobs -> {"absent", "part", "whole"}] /\ cut \subseteq Blobs
      /\ shownCards \subseteq Cards /\ tags \subseteq Cards \X Topics
      /\ \A b \in Blobs : blobs[b] = "absent"
  BY DEF Thread!Init
<1>4. DOMAIN media = {}
  BY DEF Thread!Init
<1>5. Thread!TypeOK
  BY <1>1, <1>2, <1>3 DEF Thread!TypeOK, CallRecords, MessageRows, MediaRows
<1>6. CallInv
  BY <1>2, <1>3, <1>4 DEF CallInv
<1>7. QED
  BY <1>5, <1>6 DEF ThreadInv

(* Topics, tags, cards: nothing of what the attachments rest on changes *)
LEMMA TopicSteps ==
  ASSUME ThreadInv,
         \/ \E t \in Topics : \/ Thread!CreateTopic(t) \/ Thread!ArchiveTopic(t)
                              \/ \E card \in Cards : Thread!DetachTopic(card, t)
         \/ \E card \in Cards : Thread!ArchiveOrRestore(card)
  PROVE  ThreadInv'
<1>1. UNCHANGED <<messages, media, blobs, cut, calls>>
  BY DEF Thread!CreateTopic, Thread!ArchiveTopic, Thread!DetachTopic, Thread!ArchiveOrRestore
<1>2. shownCards' \subseteq Cards /\ tags' \subseteq Cards \X Topics
  BY DEF Thread!CreateTopic, Thread!ArchiveTopic, Thread!DetachTopic, Thread!ArchiveOrRestore,
     ThreadInv, Thread!TypeOK
<1>3. \E made \in SUBSET Topics : topics' \in [made -> BOOLEAN]
  <2>1. PICK made \in SUBSET Topics : topics \in [made -> BOOLEAN]
    BY DEF ThreadInv, Thread!TypeOK
  <2>2. ASSUME NEW t \in Topics, topics' = Thread!Put(topics, t, TRUE)
        PROVE  \E more \in SUBSET Topics : topics' \in [more -> BOOLEAN]
    BY <2>1, <2>2, PutsTyped, ZenonT(30)
  <2>3. ASSUME UNCHANGED topics \/ \E t : topics' = [topics EXCEPT ![t] = FALSE]
        PROVE  \E more \in SUBSET Topics : topics' \in [more -> BOOLEAN]
    <3>1. topics' \in [made -> BOOLEAN]
      BY <2>1, <2>3
    <3>2. QED
      BY <3>1
  <2>4. QED
    BY <2>2, <2>3 DEF Thread!CreateTopic, Thread!ArchiveTopic, Thread!DetachTopic,
       Thread!ArchiveOrRestore
<1>4. QED
  BY <1>1, <1>2, <1>3 DEF ThreadInv, CallInv, Thread!TypeOK

LEMMA MessageSteps ==
  ASSUME ThreadInv, NEW card \in Cards, NEW m \in Messages,
         \/ Thread!CreateMessage(card, m)
         \/ m \in DOMAIN messages /\ Thread!ArchiveMessage(card, m)
  PROVE  ThreadInv'
<1>1. UNCHANGED <<shownCards, topics, tags, media, blobs, cut, calls>>
  BY DEF Thread!CreateMessage, Thread!ArchiveMessage
<1>2. /\ \E made \in SUBSET Messages : messages' \in [made -> MessageRows]
      /\ DOMAIN messages \subseteq DOMAIN messages'
  <2>1. PICK made \in SUBSET Messages : messages \in [made -> MessageRows]
    BY DEF ThreadInv, Thread!TypeOK, MessageRows
  <2>2. CASE Thread!CreateMessage(card, m)
    <3> DEFINE row == [card |-> card, active |-> TRUE]
    <3>1. row \in MessageRows /\ messages' = Thread!Put(messages, m, row)
      BY <2>2 DEF MessageRows, Thread!CreateMessage
    <3> HIDE DEF row
    <3>2. \E more \in SUBSET Messages : messages' \in [more -> MessageRows]
      BY <2>1, <3>1, PutsTyped
    <3>3. DOMAIN messages' = DOMAIN messages \cup {m}
      BY <3>1 DEF Thread!Put
    <3>4. QED
      BY <3>2, <3>3
  <2>3. CASE m \in DOMAIN messages /\ Thread!ArchiveMessage(card, m)
    <3>1. messages[m] \in MessageRows /\ messages' = [messages EXCEPT ![m].active = FALSE]
      BY <2>1, <2>3 DEF Thread!ArchiveMessage
    <3>2. [messages[m] EXCEPT !.active = FALSE] \in MessageRows
      BY <3>1 DEF MessageRows
    <3>3. messages' \in [made -> MessageRows]
      BY <2>1, <3>1, <3>2
    <3>4. QED
      BY <2>1, <3>3
  <2>4. QED
    BY <2>2, <2>3
<1>3. Thread!TypeOK'
  BY <1>1, <1>2 DEF ThreadInv, Thread!TypeOK, MessageRows
<1>4. CallInv'
  BY <1>1, <1>2 DEF ThreadInv, CallInv
<1>5. QED
  BY <1>3, <1>4 DEF ThreadInv

(* A client looks up what it will tag, or finds out whether there is the file *)
LEMMA AskSteps ==
  ASSUME ThreadInv, NEW c \in Clients, NEW card \in Cards,
         \/ \E t \in Topics : Thread!RequireActiveTopic(c, card, t)
         \/ \E m \in DOMAIN messages, b \in Blobs : Thread!AddMedia(c, card, m, b)
  PROVE  ThreadInv'
<1>1. UNCHANGED <<shownCards, topics, tags, messages, media, blobs, cut>>
      /\ calls[c] = Thread!NoCall
  BY DEF Thread!RequireActiveTopic, Thread!AddMedia
<1>2. DOMAIN messages \subseteq Messages
  BY DEF ThreadInv, Thread!TypeOK
<1>3. PICK next \in CallRecords :
        /\ calls' = [calls EXCEPT ![c] = next]
        /\ \/ next.step = "tag" /\ next.card \in Cards /\ next.id \in Topics
           \/ /\ next.step \in {"open", "attach"}
              /\ next.id \in DOMAIN messages /\ next.blob \in Blobs
              /\ next.step = "attach" => blobs[next.blob] # "absent"
  <2>1. CASE \E t \in Topics : Thread!RequireActiveTopic(c, card, t)
    <3>1. PICK t \in Topics : Thread!RequireActiveTopic(c, card, t)
      BY <2>1
    <3> DEFINE next == [step |-> "tag", card |-> card, id |-> t, blob |-> Nil]
    <3>2. /\ next \in CallRecords /\ calls' = [calls EXCEPT ![c] = next]
          /\ next.step = "tag" /\ next.card \in Cards /\ next.id \in Topics
      BY <3>1 DEF Thread!RequireActiveTopic, Thread!Call, CallRecords, Thread!Steps
    <3> HIDE DEF next
    <3>3. QED
      BY <3>2
  <2>2. CASE \E m \in DOMAIN messages, b \in Blobs : Thread!AddMedia(c, card, m, b)
    <3>1. PICK m \in DOMAIN messages, b \in Blobs : Thread!AddMedia(c, card, m, b)
      BY <2>2
    <3> DEFINE step == IF blobs[b] = "absent" THEN "open" ELSE "attach"
               next == [step |-> step, card |-> card, id |-> m, blob |-> b]
    <3>2. step \in {"open", "attach"} /\ (step = "attach" => blobs[b] # "absent")
      OBVIOUS
    <3>3. calls' = [calls EXCEPT ![c] = next]
      BY <3>1 DEF Thread!AddMedia, Thread!Call
    <3> HIDE DEF step
    <3>4. /\ next \in CallRecords /\ next.step = step
          /\ next.id = m /\ next.blob = b
      BY <1>2, <3>2 DEF CallRecords, Thread!Steps
    <3> HIDE DEF next
    <3>5. QED
      BY <3>2, <3>3, <3>4
  <2>3. QED
    BY <2>1, <2>2
<1>4. calls \in [Clients -> CallRecords]
  BY DEF ThreadInv, Thread!TypeOK, CallRecords
<1>5. calls' \in [Clients -> CallRecords] /\ calls'[c] = next
      /\ \A d \in Clients \ {c} : calls'[d] = calls[d]
  BY <1>3, <1>4
<1>6. Thread!TypeOK'
  BY <1>1, <1>5 DEF ThreadInv, Thread!TypeOK, CallRecords
<1>7. CallInv'
  <2>1. calls[c].step = "none"
    BY <1>1 DEF Thread!NoCall
  <2>2. \A d \in Clients : calls[d].step = "write" => d # c
    BY <2>1
  <2>3. QED
    BY <1>1, <1>3, <1>5, <2>2 DEF ThreadInv, CallInv
<1>8. QED
  BY <1>6, <1>7 DEF ThreadInv

(* The next step of a call *)
LEMMA ClientSteps ==
  ASSUME ThreadInv, NEW c \in Clients,
         Thread!AttachTopic(c) \/ Thread!OpenBlob(c) \/ Thread!WriteBlob(c) \/ Thread!Stop(c)
  PROVE  ThreadInv'
<1>0. calls[c] \in CallRecords /\ "none" \in Thread!Steps /\ "write" \in Thread!Steps
      /\ "attach" \in Thread!Steps
  BY DEF ThreadInv, Thread!TypeOK, CallRecords, Thread!Steps
<1>1. CASE Thread!AttachTopic(c)
  <2>1. /\ UNCHANGED <<shownCards, topics, messages, media, blobs, cut>>
        /\ Thread!Goes(c, "none") /\ calls[c].step = "tag"
        /\ tags' = tags \cup {<<calls[c].card, calls[c].id>>}
    BY <1>1 DEF Thread!AttachTopic
  <2>2. tags' \subseteq Cards \X Topics
    BY <2>1 DEF ThreadInv, CallInv, Thread!TypeOK
  <2>3. /\ calls' \in [Clients -> CallRecords] /\ calls'[c].step = "none"
        /\ \A d \in Clients \ {c} : calls'[d] = calls[d]
    BY <1>0, <2>1, CallGoes
  <2>4. Thread!TypeOK'
    BY <2>1, <2>2, <2>3 DEF ThreadInv, Thread!TypeOK, CallRecords
  <2>5. CallInv'
    BY <2>1, <2>3 DEF ThreadInv, CallInv
  <2>6. QED
    BY <2>4, <2>5 DEF ThreadInv
<1>2. CASE Thread!OpenBlob(c)
  <2>1. /\ UNCHANGED <<shownCards, topics, tags, messages, media, cut>>
        /\ Thread!Goes(c, "write") /\ calls[c].step = "open"
        /\ blobs' = [blobs EXCEPT ![calls[c].blob] = "part"]
    BY <1>2 DEF Thread!OpenBlob
  <2>2. /\ calls' \in [Clients -> CallRecords] /\ calls'[c].step = "write"
        /\ calls'[c].blob = calls[c].blob /\ calls'[c].id = calls[c].id
        /\ \A d \in Clients \ {c} : calls'[d] = calls[d]
    BY <1>0, <2>1, CallGoes
  <2>3. calls[c].id \in DOMAIN messages /\ calls[c].blob \in Blobs
    BY <2>1 DEF ThreadInv, CallInv
  <2>4. /\ blobs' \in [Blobs -> {"absent", "part", "whole"}]
        /\ blobs'[calls[c].blob] = "part"
        /\ \A b \in Blobs \ {calls[c].blob} : blobs'[b] = blobs[b]
    BY <2>1, <2>3 DEF ThreadInv, Thread!TypeOK
  <2>5. Thread!TypeOK'
    BY <2>1, <2>2, <2>4 DEF ThreadInv, Thread!TypeOK, CallRecords
  <2>6. \A a \in DOMAIN media : media[a].blob \in Blobs
    BY DEF ThreadInv, Thread!TypeOK
  <2>7. \A d \in Clients \ {c} : calls[d].step \in {"write", "attach"} =>
          calls[d].blob \in Blobs /\ blobs'[calls[d].blob] # "absent"
    BY <2>4 DEF ThreadInv, CallInv
  <2>8. \A b \in Blobs : blobs'[b] = "part" =>
          b \in cut \/ \E d \in Clients : calls'[d].step = "write" /\ calls'[d].blob = b
    <3>1. TAKE b \in Blobs
    <3>2. CASE b = calls[c].blob
      BY <2>2, <3>2
    <3>3. ASSUME b # calls[c].blob, blobs'[b] = "part"
          PROVE b \in cut \/ \E d \in Clients : calls'[d].step = "write" /\ calls'[d].blob = b
      <4>1. b \in cut \/ \E d \in Clients : calls[d].step = "write" /\ calls[d].blob = b
        BY <2>4, <3>3 DEF ThreadInv, CallInv
      <4>2. QED
        BY <2>1, <2>2, <4>1
    <3>4. QED
      BY <3>2, <3>3
  <2>9. CallInv'
    BY <2>1, <2>2, <2>3, <2>4, <2>6, <2>7, <2>8 DEF ThreadInv, CallInv
  <2>10. QED
    BY <2>5, <2>9 DEF ThreadInv
<1>3. CASE Thread!WriteBlob(c)
  <2>1. /\ UNCHANGED <<shownCards, topics, tags, messages, media, cut>>
        /\ Thread!Goes(c, "attach") /\ calls[c].step = "write"
        /\ blobs' = [blobs EXCEPT ![calls[c].blob] = "whole"]
    BY <1>3 DEF Thread!WriteBlob
  <2>2. /\ calls' \in [Clients -> CallRecords] /\ calls'[c].step = "attach"
        /\ calls'[c].blob = calls[c].blob /\ calls'[c].id = calls[c].id
        /\ \A d \in Clients \ {c} : calls'[d] = calls[d]
    BY <1>0, <2>1, CallGoes
  <2>3. calls[c].id \in DOMAIN messages /\ calls[c].blob \in Blobs
    BY <2>1 DEF ThreadInv, CallInv
  <2>4. /\ blobs' \in [Blobs -> {"absent", "part", "whole"}]
        /\ blobs'[calls[c].blob] = "whole"
        /\ \A b \in Blobs \ {calls[c].blob} : blobs'[b] = blobs[b]
    BY <2>1, <2>3 DEF ThreadInv, Thread!TypeOK
  <2>5. Thread!TypeOK'
    BY <2>1, <2>2, <2>4 DEF ThreadInv, Thread!TypeOK, CallRecords
  <2>6. \A a \in DOMAIN media : media[a].blob \in Blobs
    BY DEF ThreadInv, Thread!TypeOK
  <2>7. \A d \in Clients \ {c} : calls[d].step \in {"write", "attach"} =>
          calls[d].blob \in Blobs /\ blobs'[calls[d].blob] # "absent"
    BY <2>4 DEF ThreadInv, CallInv
  <2>8. \A b \in Blobs : blobs'[b] = "part" =>
          b \in cut \/ \E d \in Clients : calls'[d].step = "write" /\ calls'[d].blob = b
    BY <2>1, <2>2, <2>4 DEF ThreadInv, CallInv
  <2>9. CallInv'
    BY <2>1, <2>2, <2>3, <2>4, <2>6, <2>7, <2>8 DEF ThreadInv, CallInv
  <2>10. QED
    BY <2>5, <2>9 DEF ThreadInv
<1>4. CASE Thread!Stop(c)
  <2>1. /\ UNCHANGED <<shownCards, topics, tags, messages, media, blobs>>
        /\ Thread!Goes(c, "none")
        /\ cut' = IF calls[c].step = "write" THEN cut \cup {calls[c].blob} ELSE cut
    BY <1>4 DEF Thread!Stop
  <2>2. /\ calls' \in [Clients -> CallRecords] /\ calls'[c].step = "none"
        /\ \A d \in Clients \ {c} : calls'[d] = calls[d]
    BY <1>0, <2>1, CallGoes
  <2>3. cut' \subseteq Blobs
    BY <2>1 DEF ThreadInv, CallInv, Thread!TypeOK
  <2>4. Thread!TypeOK'
    BY <2>1, <2>2, <2>3 DEF ThreadInv, Thread!TypeOK, CallRecords
  <2>5. \A b \in Blobs : blobs'[b] = "part" =>
          b \in cut' \/ \E d \in Clients : calls'[d].step = "write" /\ calls'[d].blob = b
    BY <2>1, <2>2 DEF ThreadInv, CallInv
  <2>6. CallInv'
    BY <2>1, <2>2, <2>5 DEF ThreadInv, CallInv
  <2>7. QED
    BY <2>4, <2>6 DEF ThreadInv
<1>5. QED
  BY <1>1, <1>2, <1>3, <1>4

LEMMA MediaSteps ==
  ASSUME ThreadInv, NEW a \in Media,
         \/ \E c \in Clients : Thread!AttachMedia(c, a)
         \/ a \in DOMAIN media /\ \E card \in Cards : Thread!ArchiveMedia(card, a)
  PROVE  ThreadInv'
<1>1. ASSUME NEW c \in Clients, Thread!AttachMedia(c, a) PROVE ThreadInv'
  <2> DEFINE row == [message |-> calls[c].id, blob |-> calls[c].blob, active |-> TRUE]
  <2>1. /\ UNCHANGED <<shownCards, topics, tags, messages, blobs, cut>>
        /\ calls[c].step = "attach" /\ Thread!Goes(c, "none") /\ "none" \in Thread!Steps
        /\ media' = Thread!Put(media, a, row) /\ a \notin DOMAIN media
    BY <1>1 DEF Thread!AttachMedia, Thread!AttachMediaAnywhere, Thread!Steps
  <2>2. DOMAIN messages \subseteq Messages
    BY DEF ThreadInv, Thread!TypeOK
  <2>3. row \in MediaRows /\ row.blob = calls[c].blob /\ blobs[calls[c].blob] # "absent"
    BY <2>1, <2>2 DEF ThreadInv, CallInv, MediaRows
  <2> HIDE DEF row
  <2>4. /\ \E made \in SUBSET Media : media' \in [made -> MediaRows]
        /\ DOMAIN media' = DOMAIN media \cup {a} /\ media'[a] = row
        /\ \A k \in DOMAIN media : media'[k] = media[k]
    <3>1. PICK made \in SUBSET Media : media \in [made -> MediaRows]
      BY DEF ThreadInv, Thread!TypeOK, MediaRows
    <3>2. \E more \in SUBSET Media : media' \in [more -> MediaRows]
      BY <2>1, <2>3, <3>1, PutsTyped
    <3>3. QED
      BY <2>1, <3>2 DEF Thread!Put
  <2>5. /\ calls' \in [Clients -> CallRecords] /\ calls'[c].step = "none"
        /\ \A d \in Clients \ {c} : calls'[d] = calls[d]
    BY <2>1, CallGoes
  <2>6. Thread!TypeOK'
    BY <2>1, <2>4, <2>5 DEF ThreadInv, Thread!TypeOK, CallRecords, MediaRows
  <2>7. \A k \in DOMAIN media' : blobs[media'[k].blob] # "absent"
    BY <2>3, <2>4 DEF ThreadInv, CallInv
  <2>8. CallInv'
    BY <2>1, <2>5, <2>7 DEF ThreadInv, CallInv
  <2>9. QED
    BY <2>6, <2>8 DEF ThreadInv
<1>2. ASSUME NEW card \in Cards, a \in DOMAIN media, Thread!ArchiveMedia(card, a)
      PROVE ThreadInv'
  <2>1. PICK made \in SUBSET Media : media \in [made -> MediaRows]
    BY DEF ThreadInv, Thread!TypeOK, MediaRows
  <2>2. /\ media' = [media EXCEPT ![a].active = FALSE]
        /\ UNCHANGED <<shownCards, topics, tags, messages, blobs, cut, calls>>
    BY <1>2 DEF Thread!ArchiveMedia
  <2>3. /\ [media[a] EXCEPT !.active = FALSE] \in MediaRows
        /\ [media[a] EXCEPT !.active = FALSE].blob = media[a].blob
    BY <1>2, <2>1 DEF MediaRows
  <2>4. media' \in [made -> MediaRows] /\ \A k \in DOMAIN media' : media'[k].blob = media[k].blob
    BY <1>2, <2>1, <2>2, <2>3
  <2>5. Thread!TypeOK'
    BY <2>2, <2>4 DEF ThreadInv, Thread!TypeOK, MediaRows
  <2>6. \A k \in DOMAIN media' : blobs[media'[k].blob] # "absent"
    BY <2>1, <2>4 DEF ThreadInv, CallInv
  <2>7. CallInv'
    BY <2>2, <2>6 DEF ThreadInv, CallInv
  <2>8. QED
    BY <2>5, <2>7 DEF ThreadInv
<1>3. QED
  BY <1>1, <1>2

LEMMA ThreadStep == ThreadInv /\ [Thread!Next]_(Thread!vars) => ThreadInv'
<1> SUFFICES ASSUME ThreadInv, [Thread!Next]_(Thread!vars) PROVE ThreadInv'
  OBVIOUS
<1>1. CASE UNCHANGED Thread!vars
  BY <1>1 DEF ThreadInv, CallInv, Thread!TypeOK, Thread!vars
<1>2. DOMAIN messages \subseteq Messages /\ DOMAIN media \subseteq Media
  BY DEF ThreadInv, Thread!TypeOK
<1>3. CASE Thread!Next
  <2>1. ASSUME NEW t \in Topics,
               \/ Thread!CreateTopic(t) \/ Thread!ArchiveTopic(t)
               \/ \E card \in Cards : Thread!DetachTopic(card, t)
        PROVE  ThreadInv'
    BY <2>1, TopicSteps
  <2>2. ASSUME NEW c \in Clients, NEW card \in Cards,
               \/ \E t \in Topics : Thread!RequireActiveTopic(c, card, t)
               \/ \E m \in DOMAIN messages, b \in Blobs : Thread!AddMedia(c, card, m, b)
        PROVE  ThreadInv'
    BY <2>2, AskSteps
  <2>3. ASSUME NEW c \in Clients,
               \/ Thread!AttachTopic(c) \/ Thread!OpenBlob(c) \/ Thread!WriteBlob(c)
               \/ Thread!Stop(c) \/ \E a \in Media : Thread!AttachMedia(c, a)
        PROVE  ThreadInv'
    BY <2>3, ClientSteps, MediaSteps
  <2>4. ASSUME NEW card \in Cards,
               \/ Thread!ArchiveOrRestore(card)
               \/ \E m \in Messages : Thread!CreateMessage(card, m)
               \/ \E m \in DOMAIN messages : Thread!ArchiveMessage(card, m)
               \/ \E a \in DOMAIN media : Thread!ArchiveMedia(card, a)
        PROVE  ThreadInv'
    <3>1. CASE Thread!ArchiveOrRestore(card)
      BY <3>1, TopicSteps
    <3>2. CASE \/ \E m \in Messages : Thread!CreateMessage(card, m)
               \/ \E m \in DOMAIN messages : Thread!ArchiveMessage(card, m)
      BY <1>2, <3>2, MessageSteps
    <3>3. CASE \E a \in DOMAIN media : Thread!ArchiveMedia(card, a)
      BY <1>2, <3>3, MediaSteps
    <3>4. QED
      BY <2>4, <3>1, <3>2, <3>3
  <2>5. QED
    BY <1>3, <2>1, <2>2, <2>3, <2>4 DEF Thread!Next
<1>4. QED
  BY <1>1, <1>3

(* However clients that attach, detach and archive are stopped in between, the file of an
   attachment is there, and whole unless a write was cut *)
THEOREM ThreadIsSafe == Thread!Spec => [](Thread!TypeOK /\ Thread!MediaHasBlob)
<1>1. ThreadInv => Thread!TypeOK /\ Thread!MediaHasBlob
  <2> SUFFICES ASSUME ThreadInv PROVE Thread!MediaHasBlob
    BY DEF ThreadInv
  <2>1. \A a \in DOMAIN media : media[a].blob \in Blobs
    BY DEF ThreadInv, Thread!TypeOK
  <2>2. QED
    BY <2>1 DEF ThreadInv, CallInv, Thread!MediaHasBlob
<1>2. QED
  BY <1>1, ThreadInit, ThreadStep, PTL DEF Thread!Spec

(* What MediaOfItsCard says of a step *)
AttachedWhereNamed ==
  \A c \in Clients, a \in Media, card \in Cards :
    /\ a \in DOMAIN media' \ DOMAIN media
    /\ calls'[c] # calls[c] /\ calls[c].card = card
    => a \in Thread!ShownMedia(card)'

LEMMA StepAttaches ==
  ThreadInv /\ [Thread!Next]_(Thread!vars) => [AttachedWhereNamed]_(Thread!vars)
<1> SUFFICES ASSUME ThreadInv, Thread!Next PROVE AttachedWhereNamed
  BY DEF Thread!vars
<1> SUFFICES ASSUME NEW c \in Clients, NEW a \in Media, NEW card \in Cards,
                    a \in DOMAIN media' \ DOMAIN media,
                    calls'[c] # calls[c], calls[c].card = card
             PROVE  a \in Thread!ShownMedia(card)'
  BY DEF AttachedWhereNamed
<1>1. PICK d \in Clients, b \in Media : Thread!AttachMedia(d, b)
  <2>1. media' # media
    OBVIOUS
  <2>2. \A d \in Cards, k \in DOMAIN media : ~Thread!ArchiveMedia(d, k)
    <3>1. SUFFICES ASSUME NEW d \in Cards, NEW k \in DOMAIN media, Thread!ArchiveMedia(d, k)
                   PROVE  FALSE
      OBVIOUS
    <3>2. media' = [media EXCEPT ![k].active = FALSE]
      BY <3>1 DEF Thread!ArchiveMedia
    <3>3. QED
      BY <3>2
  <2>3. QED
    BY <2>1, <2>2 DEF Thread!Next, Thread!CreateTopic, Thread!ArchiveTopic, Thread!DetachTopic,
       Thread!RequireActiveTopic, Thread!AddMedia, Thread!AttachTopic, Thread!OpenBlob,
       Thread!WriteBlob, Thread!Stop, Thread!ArchiveOrRestore, Thread!CreateMessage,
       Thread!ArchiveMessage
<1> DEFINE row == [message |-> calls[d].id, blob |-> calls[d].blob, active |-> TRUE]
<1>2. /\ calls[d].id \in Thread!Thread(calls[d].card) /\ Thread!Goes(d, "none")
      /\ media' = Thread!Put(media, b, row) /\ UNCHANGED messages
  BY <1>1 DEF Thread!AttachMedia, Thread!AttachMediaAnywhere
<1>3. "none" \in Thread!Steps
  BY DEF Thread!Steps
<1>4. c = d
  BY <1>2, <1>3, CallGoes
<1>5. row.active /\ row.message = calls[d].id
  OBVIOUS
<1> HIDE DEF row
<1>6. a = b /\ media'[b] = row /\ b \in DOMAIN media'
  <2>1. DOMAIN media' = DOMAIN media \cup {b} /\ media'[b] = row
    BY <1>2 DEF Thread!Put
  <2>2. QED
    BY <2>1
<1>7. \A m : m \in Thread!Thread(card) => m \in Thread!Thread(card)'
  BY <1>2 DEF Thread!Thread
<1>8. QED
  BY <1>2, <1>4, <1>5, <1>6, <1>7 DEF Thread!ShownMedia

(* An attachment is on a message of the card that its client named *)
THEOREM AttachmentsStayWithCards == Thread!Spec => Thread!MediaOfItsCard
<1>1. AttachedWhereNamed <=>
        \A c \in Clients, a \in Media, card \in Cards :
          /\ a \in DOMAIN media' \ DOMAIN media
          /\ calls'[c] # calls[c] /\ calls[c].card = card
          => a \in Thread!ShownMedia(card)'
  BY DEF AttachedWhereNamed
<1>2. QED
  BY <1>1, ThreadInit, ThreadStep, StepAttaches, PTL DEF Thread!Spec, Thread!MediaOfItsCard

-----------------------------------------------------------------------------
(* The conversation of a session *)

(* A new column is shown after all others *)
-----------------------------------------------------------------------------
(* A conversation: identifiers grow, and a compaction keeps from a message before it *)
Grows(b) == \A i, j \in DOMAIN b : i < j => b[i].id < b[j].id

CompactionFits(b, i) ==
  b[i].kind = "compaction" =>
    /\ \E k \in Context!MessagesOf(b) : k < i /\ b[k].id = b[i].first
    /\ b[i].checkpoint => b[i].first <= b[i].boundary /\ b[i].boundary < b[i].id

WellFormed(b) ==
  b \in Seq(Context!Entries) /\ Grows(b) /\ \A i \in DOMAIN b : CompactionFits(b, i)

(* What SummaryFits says of an entry *)
SummaryFitsAt(b, i) ==
  b[i].kind = "compaction" /\ b[i].checkpoint =>
    LET before == SubSeq(b, 1, i - 1) IN
    b[i].about = Context!Summarized(before, Context!Index(before, b[i].first))

Summaries(b) == \A i \in DOMAIN b : SummaryFitsAt(b, i)

(* The conversation that the summary is about is still there, whatever came after it *)
Kept ==
  /\ work.session = session
  /\ Len(branch) >= Len(work.source)
  /\ \A i \in DOMAIN work.source : branch[i].id = work.source[i]

Contents == SUBSET [id : Nat, edit : Nat]

WorkInv ==
  /\ work.source \in Seq(Nat) /\ work.session \in Nat /\ work.session <= session
  /\ work # Context!NoWork =>
       /\ work.source # <<>> /\ work.first \in Nat /\ work.about \in Contents
       /\ work.first <= work.source[Len(work.source)]
       /\ Kept => LET part == SubSeq(branch, 1, Len(work.source)) IN
            \E f \in Context!MessagesOf(part) :
              part[f].id = work.first /\ work.about = Context!Summarized(part, f)

PlaceInv ==
  /\ cwd \in Dirs /\ saved = cwd /\ seen \subseteq Files
  /\ troubles \in Nat /\ session \in 1 .. troubles + 1

ContextInv == PlaceInv /\ WellFormed(branch) /\ Summaries(branch) /\ WorkInv

(* Entries *)
LEMMA EntryFields ==
  ASSUME NEW e \in Context!Entries
  PROVE  /\ e.id \in Nat /\ e.kind \in {"cd", "tool", "text", "edit", "compaction"}
         /\ e.kind = "edit" => e.of \in Nat
         /\ e.kind \in {"cd", "tool", "text"} => e.shown \subseteq Files
         /\ e.kind = "compaction" => /\ e.first \in Nat /\ e.boundary \in Nat
                                     /\ e.checkpoint \in BOOLEAN /\ e.documents \subseteq Files
                                     /\ e.about \in Contents
  BY DEF Context!Entries, Context!Ids, Contents

LEMMA Ids ==
  ASSUME NEW b, WellFormed(b)
  PROVE  /\ Len(b) \in Nat /\ DOMAIN b = 1 .. Len(b)
         /\ \A i \in DOMAIN b : b[i] \in Context!Entries /\ b[i].id \in Nat
         /\ \A i, j \in DOMAIN b : b[i].id = b[j].id => i = j
<1>1. b \in Seq(Context!Entries) /\ Len(b) \in Nat /\ DOMAIN b = 1 .. Len(b)
  BY DEF WellFormed
<1>2. \A i \in DOMAIN b : b[i] \in Context!Entries
  BY <1>1
<1>3. \A i \in DOMAIN b : b[i].id \in Nat
  BY <1>2, EntryFields
<1>4. QED
  BY <1>1, <1>2, <1>3 DEF WellFormed, Grows

LEMMA IndexOf ==
  ASSUME NEW b, WellFormed(b), NEW k \in DOMAIN b
  PROVE  Context!Index(b, b[k].id) = k
  BY Ids DEF Context!Index

LEMMA LargestIs ==
  ASSUME NEW S, NEW m \in S, S \subseteq Nat, \A x \in S : x <= m
  PROVE  Context!Largest(S) = m
<1>1. \A n \in S : (\A x \in S : x <= n) => n = m
  OBVIOUS
<1>2. QED
  BY <1>1 DEF Context!Largest

LEMMA LargestIn ==
  ASSUME NEW S, NEW m \in Nat, S \subseteq Nat, \A x \in S : x <= m, S # {}
  PROVE  Context!Largest(S) \in S /\ \A x \in S : x <= Context!Largest(S)
<1>1. \A x \in S : x \in Int /\ x <= m
  OBVIOUS
<1>2. PICK x \in S : \A y \in S : x >= y
  BY <1>1, LargestOf
<1>3. x \in S /\ \A y \in S : y <= x
  BY <1>1, <1>2
<1>4. QED
  BY <1>3 DEF Context!Largest

LEMMA CompactedIn ==
  ASSUME NEW b, WellFormed(b)
  PROVE  /\ Context!Compacted(b) \in Nat
         /\ Context!Compacted(b) # 0 =>
              Context!Compacted(b) \in DOMAIN b /\ b[Context!Compacted(b)].kind = "compaction"
         /\ \A i \in DOMAIN b : b[i].kind = "compaction" => i <= Context!Compacted(b)
<1> DEFINE S == {0} \cup {i \in DOMAIN b : b[i].kind = "compaction"}
<1>1. Len(b) \in Nat /\ DOMAIN b = 1 .. Len(b)
  BY Ids
<1>2. S \subseteq Nat /\ S # {} /\ \A x \in S : x <= Len(b)
  BY <1>1
<1>3. Context!Largest(S) \in S /\ \A x \in S : x <= Context!Largest(S)
  <2> HIDE DEF S
  <2>1. QED
    BY <1>1, <1>2, LargestIn
<1>4. Context!Compacted(b) = Context!Largest(S)
  BY DEF Context!Compacted
<1>5. QED
  BY <1>1, <1>3, <1>4

(* A sequence has an entry larger than none of which is *)
LEMMA ContentTyped ==
  ASSUME NEW b, WellFormed(b), NEW i \in DOMAIN b
  PROVE  Context!Content(b, i) \in [id : Nat, edit : Nat] /\ Context!Content(b, i).id = b[i].id
<1> DEFINE S == {0} \cup {b[j].id : j \in {k \in DOMAIN b : /\ b[k].kind = "edit"
                                                            /\ b[k].of = b[i].id}}
           f == [j \in DOMAIN b |-> b[j].id]
<1>1. Len(b) \in Nat /\ DOMAIN b = 1 .. Len(b) /\ \A j \in DOMAIN b : b[j].id \in Nat
  BY Ids
<1>2. PICK m \in Nat : \A j \in 1 .. Len(b) : f[j] <= m
  <2>1. \A j \in 1 .. Len(b) : f[j] \in Nat
    BY <1>1
  <2> HIDE DEF f
  <2>2. QED
    BY <1>1, <2>1, Bounded
<1>3. S \subseteq Nat /\ S # {} /\ \A x \in S : x <= m
  BY <1>1, <1>2
<1>4. Context!Largest(S) \in Nat
  <2> HIDE DEF S
  <2>1. QED
    BY <1>3, LargestIn
<1>5. Context!Content(b, i) = [id |-> b[i].id, edit |-> Context!Largest(S)]
  BY DEF Context!Content
<1> HIDE DEF S
<1>6. QED
  BY <1>1, <1>4, <1>5

LEMMA ProjectedIn ==
  ASSUME NEW b, WellFormed(b)
  PROVE  /\ Context!Projected(b) \subseteq DOMAIN b
         /\ Context!Projected(b) \ {Context!Compacted(b)} \subseteq Context!MessagesOf(b)
         /\ Context!MessagesOf(b) \subseteq DOMAIN b
  BY CompactedIn DEF Context!Projected, Context!MessagesOf

LEMMA SummarizedTyped ==
  ASSUME NEW b, WellFormed(b), NEW f
  PROVE  Context!Summarized(b, f) \in Contents
<1>1. \A i \in Context!Projected(b) : Context!Content(b, i) \in [id : Nat, edit : Nat]
  BY ContentTyped, ProjectedIn
<1>2. QED
  BY <1>1 DEF Context!Summarized, Contents

(* What comes later leaves a summary as it is, unless it compacts or edits what it is about *)
LEMMA SummaryStays ==
  ASSUME NEW b, NEW n \in Nat, n <= Len(b), WellFormed(b), WellFormed(SubSeq(b, 1, n)),
         NEW f \in 1 .. n,
         \A i \in n + 1 .. Len(b) :
           /\ b[i].kind # "compaction"
           /\ b[i].kind = "edit" =>
                \A c \in Context!Summarized(SubSeq(b, 1, n), f) : c.id # b[i].of
  PROVE  Context!Summarized(b, f) = Context!Summarized(SubSeq(b, 1, n), f)
<1> DEFINE p == SubSeq(b, 1, n)
<1>1. Len(b) \in Nat /\ DOMAIN b = 1 .. Len(b) /\ \A i \in DOMAIN b : b[i] \in Context!Entries
  BY Ids
<1>2. DOMAIN p = 1 .. n /\ \A i \in 1 .. n : p[i] = b[i]
  BY <1>1 DEF WellFormed
<1> HIDE DEF p
<1>3. Context!Compacted(b) = Context!Compacted(p)
  <2>1. {i \in DOMAIN b : b[i].kind = "compaction"} = {i \in DOMAIN p : p[i].kind = "compaction"}
    BY <1>1, <1>2
  <2>2. QED
    BY <2>1 DEF Context!Compacted
<1> DEFINE c == Context!Compacted(p)
<1>4. c \in Nat /\ (c # 0 => c \in 1 .. n /\ p[c].kind = "compaction" /\ b[c].kind = "compaction")
  <2>1. WellFormed(p)
    BY DEF p
  <2>2. QED
    BY <1>2, <2>1, CompactedIn
<1>5. c # 0 => Context!Index(b, b[c].first) = Context!Index(p, p[c].first)
  <2>1. SUFFICES ASSUME c # 0 PROVE Context!Index(b, b[c].first) = Context!Index(p, p[c].first)
    OBVIOUS
  <2>2. WellFormed(p)
    BY DEF p
  <2>3. PICK k \in Context!MessagesOf(p) : p[k].id = p[c].first
    BY <1>2, <1>4, <2>1, <2>2 DEF WellFormed, CompactionFits
  <2>4. k \in 1 .. n /\ k \in DOMAIN b /\ b[k] = p[k] /\ b[c] = p[c]
    BY <1>1, <1>2, <1>4, <2>1, <2>3 DEF Context!MessagesOf
  <2>5. Context!Index(p, p[k].id) = k /\ Context!Index(b, b[k].id) = k
    BY <1>2, <2>2, <2>4, IndexOf
  <2>6. QED
    BY <2>3, <2>4, <2>5
<1> DEFINE about(d) == {j \in Context!Projected(d) : j = Context!Compacted(d) \/ j < f}
<1>6. about(b) = about(p) /\ about(p) \subseteq 1 .. n
  <2>1. \A i : i <= n => (i \in Context!MessagesOf(b) <=> i \in Context!MessagesOf(p))
    BY <1>1, <1>2 DEF Context!MessagesOf
  <2>2. Context!MessagesOf(b) \subseteq 1 .. Len(b) /\ Context!MessagesOf(p) \subseteq 1 .. n
    BY <1>1, <1>2 DEF Context!MessagesOf
  <2>3. CASE c = 0
    <3>1. Context!Projected(b) = Context!MessagesOf(b)
          /\ Context!Projected(p) = Context!MessagesOf(p)
      BY <1>3, <2>3 DEF Context!Projected
    <3>2. QED
      BY <1>1, <1>3, <2>1, <2>2, <2>3, <3>1
  <2>4. CASE c # 0
    <3> DEFINE k == Context!Index(p, p[c].first)
    <3>1. /\ Context!Projected(b) = {c} \cup {i \in Context!MessagesOf(b) : i >= k}
          /\ Context!Projected(p) = {c} \cup {i \in Context!MessagesOf(p) : i >= k}
      BY <1>3, <1>5, <2>4 DEF Context!Projected
    <3> HIDE DEF k, c
    <3>2. QED
      BY <1>1, <1>3, <1>4, <2>1, <2>2, <2>4, <3>1 DEF c
  <2>5. QED
    BY <2>3, <2>4
<1>7. \A i \in about(p) : Context!Content(b, i) = Context!Content(p, i)
  <2>1. SUFFICES ASSUME NEW i \in about(p) PROVE Context!Content(b, i) = Context!Content(p, i)
    OBVIOUS
  <2>2. i \in 1 .. n /\ b[i] = p[i]
    BY <1>2, <1>6
  <2>3. Context!Content(p, i) \in Context!Summarized(p, f)
    BY <2>1 DEF Context!Summarized
  <2>4. Context!Content(p, i).id = b[i].id
    BY <2>2 DEF Context!Content
  <2>5. \A j \in n + 1 .. Len(b) : b[j].kind = "edit" => b[j].of # b[i].id
    BY <2>3, <2>4 DEF p
  <2>6. {k \in DOMAIN b : b[k].kind = "edit" /\ b[k].of = b[i].id}
          = {k \in DOMAIN p : p[k].kind = "edit" /\ p[k].of = p[i].id}
    BY <1>1, <1>2, <2>2, <2>5
  <2> DEFINE E == {k \in DOMAIN p : p[k].kind = "edit" /\ p[k].of = p[i].id}
  <2>7. {b[j].id : j \in E} = {p[j].id : j \in E}
    <3>1. \A j \in E : b[j] = p[j]
      BY <1>2
    <3> HIDE DEF E
    <3>2. QED
      BY <3>1
  <2>8. QED
    BY <2>2, <2>6, <2>7 DEF Context!Content
<1>8. Context!Summarized(b, f) = {Context!Content(b, i) : i \in about(b)}
      /\ Context!Summarized(p, f) = {Context!Content(p, i) : i \in about(p)}
  BY DEF Context!Summarized
<1> HIDE DEF about
<1>9. QED
  BY <1>6, <1>7, <1>8 DEF p

(* A conversation taken up from an earlier entry *)
LEMMA Earlier ==
  ASSUME NEW b, WellFormed(b), NEW n \in Nat, n <= Len(b)
  PROVE  /\ WellFormed(SubSeq(b, 1, n)) /\ (Summaries(b) => Summaries(SubSeq(b, 1, n)))
         /\ DOMAIN SubSeq(b, 1, n) = 1 .. n /\ \A i \in 1 .. n : SubSeq(b, 1, n)[i] = b[i]
<1> DEFINE p == SubSeq(b, 1, n)
<1>1. Len(b) \in Nat /\ DOMAIN b = 1 .. Len(b) /\ b \in Seq(Context!Entries)
  BY Ids DEF WellFormed
<1>2. p \in Seq(Context!Entries) /\ DOMAIN p = 1 .. n /\ \A i \in 1 .. n : p[i] = b[i]
  BY <1>1
<1>3. \A i \in 1 .. n : SubSeq(p, 1, i - 1) = SubSeq(b, 1, i - 1)
  BY <1>1
<1> HIDE DEF p
<1>4. \A i \in 1 .. n : CompactionFits(p, i)
  <2>1. SUFFICES ASSUME NEW i \in 1 .. n, b[i].kind = "compaction"
                 PROVE  CompactionFits(p, i)
    BY <1>2 DEF CompactionFits
  <2>2. i \in DOMAIN b /\ CompactionFits(b, i) /\ p[i] = b[i]
    BY <1>1, <1>2 DEF WellFormed
  <2>3. PICK k \in Context!MessagesOf(b) : k < i /\ b[k].id = b[i].first
    BY <2>1, <2>2 DEF CompactionFits
  <2>4. k \in Context!MessagesOf(p) /\ p[k] = b[k]
    BY <1>1, <1>2, <2>3 DEF Context!MessagesOf
  <2>5. QED
    BY <2>2, <2>3, <2>4 DEF CompactionFits
<1>5. WellFormed(p)
  BY <1>1, <1>2, <1>4 DEF WellFormed, Grows
<1>6. ASSUME Summaries(b) PROVE Summaries(p)
  <2>1. SUFFICES ASSUME NEW i \in 1 .. n PROVE SummaryFitsAt(p, i)
    BY <1>2 DEF Summaries
  <2>2. SummaryFitsAt(b, i) /\ p[i] = b[i] /\ SubSeq(p, 1, i - 1) = SubSeq(b, 1, i - 1)
    BY <1>1, <1>2, <1>3, <1>6 DEF Summaries
  <2>3. QED
    BY <2>2 DEF SummaryFitsAt
<1>7. QED
  BY <1>2, <1>5, <1>6 DEF p

(* And one with an entry more *)
LEMMA Later ==
  ASSUME NEW b, WellFormed(b), Summaries(b), NEW e \in Context!Entries,
         \A i \in DOMAIN b : b[i].id < e.id,
         e.kind = "compaction" =>
           /\ \E k \in Context!MessagesOf(b) : b[k].id = e.first
           /\ e.checkpoint =>
                /\ e.first <= e.boundary /\ e.boundary < e.id
                /\ e.about = Context!Summarized(b, Context!Index(b, e.first))
  PROVE  /\ WellFormed(Append(b, e)) /\ Summaries(Append(b, e))
         /\ Len(Append(b, e)) = Len(b) + 1 /\ Append(b, e)[Len(b) + 1] = e
         /\ \A n \in 0 .. Len(b) : SubSeq(Append(b, e), 1, n) = SubSeq(b, 1, n)
         /\ \A i \in DOMAIN b : Append(b, e)[i] = b[i]
<1> DEFINE d == Append(b, e)
<1>1. Len(b) \in Nat /\ DOMAIN b = 1 .. Len(b) /\ b \in Seq(Context!Entries)
  BY Ids DEF WellFormed
<1>2. /\ d \in Seq(Context!Entries) /\ DOMAIN d = 1 .. Len(b) + 1 /\ d[Len(b) + 1] = e
      /\ Len(d) = Len(b) + 1 /\ \A i \in 1 .. Len(b) : d[i] = b[i]
  BY <1>1
<1>3. \A n \in 0 .. Len(b) : SubSeq(d, 1, n) = SubSeq(b, 1, n)
  BY <1>1
<1>4. SubSeq(b, 1, Len(b)) = b
  BY <1>1
<1> HIDE DEF d
<1>5. /\ Context!MessagesOf(b) \subseteq 1 .. Len(b)
      /\ Context!MessagesOf(b) \subseteq Context!MessagesOf(d)
  BY <1>1, <1>2 DEF Context!MessagesOf
<1>6. \A i \in DOMAIN d : CompactionFits(d, i)
  <2>1. ASSUME NEW i \in 1 .. Len(b) PROVE CompactionFits(d, i)
    <3>1. CompactionFits(b, i) /\ d[i] = b[i]
      BY <1>1, <1>2 DEF WellFormed
    <3>2. \A k \in Context!MessagesOf(b) : k \in Context!MessagesOf(d) /\ d[k] = b[k]
      BY <1>2, <1>5
    <3>3. QED
      BY <3>1, <3>2 DEF CompactionFits
  <2>2. CompactionFits(d, Len(b) + 1)
    <3>1. \A k \in Context!MessagesOf(b) :
            k \in Context!MessagesOf(d) /\ d[k] = b[k] /\ k < Len(b) + 1
      BY <1>1, <1>2, <1>5
    <3>2. QED
      BY <1>2, <3>1 DEF CompactionFits
  <2>3. QED
    BY <1>1, <1>2, <2>1, <2>2
<1>7. Grows(d)
  <2>1. SUFFICES ASSUME NEW i \in DOMAIN d, NEW j \in DOMAIN d, i < j PROVE d[i].id < d[j].id
    BY DEF Grows
  <2>2. i \in 1 .. Len(b) /\ (j \in 1 .. Len(b) \/ j = Len(b) + 1)
    BY <1>1, <1>2, <2>1
  <2>3. QED
    BY <1>1, <1>2, <2>1, <2>2 DEF WellFormed, Grows
<1>8. Summaries(d)
  <2>1. ASSUME NEW i \in 1 .. Len(b) PROVE SummaryFitsAt(d, i)
    <3>1. SummaryFitsAt(b, i) /\ d[i] = b[i] /\ SubSeq(d, 1, i - 1) = SubSeq(b, 1, i - 1)
      BY <1>1, <1>2, <1>3 DEF Summaries
    <3>2. QED
      BY <3>1 DEF SummaryFitsAt
  <2>2. SummaryFitsAt(d, Len(b) + 1)
    <3>1. SubSeq(d, 1, Len(b) + 1 - 1) = b
      BY <1>1, <1>3, <1>4
    <3>2. SUFFICES ASSUME e.kind = "compaction", e.checkpoint
                   PROVE  LET before == SubSeq(d, 1, Len(b) + 1 - 1) IN
                          e.about = Context!Summarized(before, Context!Index(before, e.first))
      BY <1>2 DEF SummaryFitsAt
    <3>3. QED
      BY <3>1, <3>2
  <2>3. QED
    BY <1>1, <1>2, <2>1, <2>2 DEF Summaries
<1>9. QED
  BY <1>1, <1>2, <1>3, <1>6, <1>7, <1>8 DEF WellFormed, d

LEMMA FreshIsNew ==
  ASSUME ContextInv
  PROVE  /\ Context!Fresh \in Nat
         /\ \A i \in DOMAIN branch : branch[i].id < Context!Fresh
         /\ \A i \in DOMAIN work.source : work.source[i] < Context!Fresh
<1> DEFINE S == {0} \cup {branch[i].id : i \in DOMAIN branch}
                  \cup {work.source[i] : i \in DOMAIN work.source}
           f == [i \in DOMAIN branch |-> branch[i].id]
           g == work.source
<1>1. Len(branch) \in Nat /\ DOMAIN branch = 1 .. Len(branch)
      /\ \A i \in DOMAIN branch : branch[i].id \in Nat
  BY Ids DEF ContextInv
<1>2. /\ g \in Seq(Nat) /\ Len(g) \in Nat /\ DOMAIN g = 1 .. Len(g)
      /\ \A i \in 1 .. Len(g) : g[i] \in Nat
  BY DEF ContextInv, WorkInv
<1>3. PICK m \in Nat : \A i \in 1 .. Len(branch) : f[i] <= m
  <2>1. \A i \in 1 .. Len(branch) : f[i] \in Nat
    BY <1>1
  <2> HIDE DEF f
  <2>2. QED
    BY <1>1, <2>1, Bounded
<1>4. PICK n \in Nat : \A i \in 1 .. Len(g) : g[i] <= n
  <2> HIDE DEF g
  <2>1. QED
    BY <1>2, Bounded
<1>5. S \subseteq Nat /\ S # {} /\ \A x \in S : x <= m + n
  BY <1>1, <1>2, <1>3, <1>4
<1>6. Context!Largest(S) \in S /\ \A x \in S : x <= Context!Largest(S)
  <2>1. m + n \in Nat
    OBVIOUS
  <2> HIDE DEF S
  <2>2. QED
    BY <1>5, <2>1, LargestIn
<1>7. Context!Fresh = 1 + Context!Largest(S)
  BY DEF Context!Fresh
<1>8. /\ \A i \in DOMAIN branch : branch[i].id \in S
      /\ \A i \in DOMAIN work.source : work.source[i] \in S
  OBVIOUS
<1> HIDE DEF S, f, g
<1> DEFINE top == Context!Largest(S)
<1>9. top \in Nat /\ \A x \in S : x \in Nat /\ x <= top
  BY <1>5, <1>6
<1>10. Context!Fresh = 1 + top
  BY <1>7
<1> HIDE DEF top
<1>11. Context!Fresh \in Nat /\ \A x \in S : x < Context!Fresh
  BY <1>9, <1>10
<1>12. QED
  BY <1>8, <1>11

LEMMA ContextInit == Context!Init => ContextInv
<1> SUFFICES ASSUME Context!Init PROVE ContextInv
  OBVIOUS
<1>1. branch = <<>> /\ work = Context!NoWork /\ session = 1 /\ troubles = 0
      /\ cwd = Launch /\ saved = Launch /\ seen = Context!System
  BY DEF Context!Init
<1>2. PlaceInv
  BY <1>1, ConversationsAssumption DEF PlaceInv, Context!System
<1>3. WellFormed(branch) /\ Summaries(branch)
  BY <1>1 DEF WellFormed, Grows, Summaries
<1>4. WorkInv
  BY <1>1 DEF WorkInv, Context!NoWork
<1>5. QED
  BY <1>2, <1>3, <1>4 DEF ContextInv

(* The work goes on while entries come *)
LEMMA WorkStays ==
  ASSUME ContextInv, NEW e \in Context!Entries, Context!Grow(e), e.id = Context!Fresh,
         UNCHANGED <<work, session>>, WellFormed(branch)', Len(branch') = Len(branch) + 1,
         branch'[Len(branch) + 1] = e,
         \A i \in DOMAIN branch : branch'[i] = branch[i],
         \A n \in 0 .. Len(branch) : SubSeq(branch', 1, n) = SubSeq(branch, 1, n)
  PROVE  WorkInv'
<1> DEFINE n == Len(work.source)
<1>1. /\ n \in Nat /\ DOMAIN work.source = 1 .. n
      /\ Len(branch) \in Nat /\ DOMAIN branch = 1 .. Len(branch)
  BY Ids DEF ContextInv, WorkInv
<1>2. Kept' => Kept /\ SubSeq(branch', 1, n) = SubSeq(branch, 1, n)
  <2>1. SUFFICES ASSUME Kept' PROVE Kept /\ SubSeq(branch', 1, n) = SubSeq(branch, 1, n)
    OBVIOUS
  <2>2. /\ work.session = session /\ Len(branch') >= n
        /\ \A i \in 1 .. n : branch'[i].id = work.source[i]
    BY <1>1, <2>1 DEF Kept
  <2>3. Len(branch) >= n
    <3>1. SUFFICES ASSUME n = Len(branch) + 1 PROVE FALSE
      BY <1>1, <2>2
    <3>2. n \in DOMAIN work.source /\ work.source[n] = Context!Fresh
      BY <1>1, <2>2, <3>1
    <3>3. Context!Fresh \in Nat /\ work.source[n] < Context!Fresh
      BY <3>2, FreshIsNew
    <3>4. QED
      BY <3>2, <3>3
  <2>4. \A i \in 1 .. n : branch[i].id = work.source[i]
    BY <1>1, <2>2, <2>3
  <2>5. QED
    BY <1>1, <2>2, <2>3, <2>4 DEF Kept
<1>3. QED
  BY <1>2 DEF ContextInv, WorkInv

(* An entry that is no checkpoint *)
LEMMA EntryComes ==
  ASSUME ContextInv, PlaceInv', NEW e \in Context!Entries, Context!Grow(e), e.id = Context!Fresh,
         UNCHANGED <<work, session>>,
         e.kind = "compaction" =>
           ~e.checkpoint /\ \E k \in Context!MessagesOf(branch) : branch[k].id = e.first
  PROVE  ContextInv'
<1>1. branch' = Append(branch, e) /\ WellFormed(branch) /\ Summaries(branch)
  BY DEF Context!Grow, ContextInv
<1>2. \A i \in DOMAIN branch : branch[i].id < e.id
  BY FreshIsNew
<1>3. /\ WellFormed(branch') /\ Summaries(branch') /\ Len(branch') = Len(branch) + 1
      /\ branch'[Len(branch) + 1] = e
      /\ \A i \in DOMAIN branch : branch'[i] = branch[i]
      /\ \A n \in 0 .. Len(branch) : SubSeq(branch', 1, n) = SubSeq(branch, 1, n)
  BY <1>1, <1>2, Later
<1>4. WellFormed(branch)' /\ Summaries(branch)'
  BY <1>3
<1>5. WorkInv'
  BY <1>3, <1>4, WorkStays
<1>6. QED
  BY <1>4, <1>5 DEF ContextInv

LEMMA MessageTyped ==
  ASSUME ContextInv, NEW kind \in {"cd", "tool", "text"}, NEW files \in SUBSET Files
  PROVE  /\ Context!Message(kind, files) \in Context!Entries
         /\ Context!Message(kind, files).id = Context!Fresh
         /\ Context!Message(kind, files).kind = kind
<1>1. Context!Fresh \in Nat
  BY FreshIsNew
<1> DEFINE id == Context!Fresh
<1>2. Context!Message(kind, files) = [kind |-> kind, id |-> id, shown |-> files]
  BY DEF Context!Message
<1> HIDE DEF id
<1>3. [kind |-> kind, id |-> id, shown |-> files] \in Context!Entries
  BY <1>1 DEF Context!Entries, Context!Ids, id
<1>4. QED
  BY <1>2, <1>3 DEF id

(* The agent works, and is spoken to *)
LEMMA TalkSteps ==
  ASSUME ContextInv,
         \/ \E d \in Dirs : Context!SetCwd(d) \/ Context!Use(d) \/ Context!UseFails(d)
         \/ Context!Say
  PROVE  ContextInv'
<1>1. PICK kind \in {"cd", "tool", "text"}, files \in SUBSET Files :
        /\ Context!Grow(Context!Message(kind, files))
        /\ UNCHANGED <<work, session>> /\ PlaceInv'
  <2>1. ASSUME NEW d \in Dirs, Context!SetCwd(d) \/ Context!Use(d) \/ Context!UseFails(d)
        PROVE  /\ UNCHANGED <<work, session>> /\ PlaceInv'
               /\ Context!New(d) \in SUBSET Files /\ {} \in SUBSET Files
               /\ \/ Context!Grow(Context!Message("cd", Context!New(d)))
                  \/ Context!Grow(Context!Message("tool", Context!New(d)))
                  \/ Context!Grow(Context!Message("text", {}))
    <3>1. Context!New(d) \in SUBSET Files /\ Above[d] \subseteq Files
      BY ConversationsAssumption DEF Context!New
    <3>2. UNCHANGED <<work, session>> /\ cwd' \in Dirs /\ saved' = cwd' /\ seen' \subseteq Files
      BY <2>1, <3>1 DEF ContextInv, PlaceInv, Context!SetCwd, Context!Use, Context!UseFails
    <3>3. troubles' \in Nat /\ session' \in 1 .. troubles' + 1
      BY <2>1 DEF ContextInv, PlaceInv, Context!SetCwd, Context!Use, Context!UseFails,
         Context!Trouble
    <3>4. QED
      BY <2>1, <3>1, <3>2, <3>3 DEF PlaceInv, Context!SetCwd, Context!Use, Context!UseFails
  <2>2. CASE Context!Say
    <3>1. UNCHANGED <<work, session>> /\ PlaceInv' /\ Context!Grow(Context!Message("text", {}))
      BY <2>2 DEF ContextInv, PlaceInv, Context!Say
    <3>2. QED
      BY <3>1
  <2>3. QED
    BY <2>1, <2>2
<1>2. QED
  BY <1>1, MessageTyped, EntryComes

LEMMA EditSteps ==
  ASSUME ContextInv, NEW i \in DOMAIN branch, Context!Edit(i) \/ Context!Compete(i)
  PROVE  ContextInv'
<1>0. Context!Fresh \in Nat /\ branch[i].id \in Nat /\ WellFormed(branch)
  BY FreshIsNew, Ids DEF ContextInv
<1> DEFINE id == Context!Fresh
           edit == [kind |-> "edit", id |-> id, of |-> branch[i].id]
           other == [kind |-> "compaction", id |-> id, first |-> branch[i].id,
                     boundary |-> 0, checkpoint |-> FALSE, documents |-> {}, about |-> {}]
<1>1. UNCHANGED <<cwd, seen, session, saved, work, troubles>>
  BY DEF Context!Edit, Context!Compete
<1>2. PlaceInv'
  BY <1>1 DEF ContextInv, PlaceInv
<1>3. CASE Context!Edit(i)
  <2>1. Context!Grow(edit)
    BY <1>3 DEF Context!Edit
  <2>2. edit \in Context!Entries /\ edit.id = id /\ edit.kind = "edit"
    <3> HIDE DEF id
    <3>1. QED
      BY <1>0 DEF Context!Entries, Context!Ids, id
  <2> HIDE DEF edit
  <2>3. QED
    BY <1>1, <1>2, <2>1, <2>2, EntryComes
<1>4. CASE Context!Compete(i)
  <2>1. Context!Grow(other) /\ i \in Context!MessagesOf(branch)
    BY <1>0, <1>4, ProjectedIn DEF Context!Compete
  <2>2. other \in Context!Entries /\ other.id = id /\ ~other.checkpoint
        /\ other.first = branch[i].id
    <3> HIDE DEF id
    <3>1. QED
      BY <1>0 DEF Context!Entries, Context!Ids, id
  <2> HIDE DEF other
  <2>3. QED
    BY <1>1, <1>2, <2>1, <2>2, EntryComes
<1>5. QED
  BY <1>3, <1>4

(* The conversation is left, or taken up from an earlier entry *)
LEMMA TroubleSteps ==
  ASSUME ContextInv,
         \/ Context!NewSession \/ Context!Restart \/ Context!Cancel
         \/ \E n \in 1 .. Len(branch) - 1 : Context!Rewind(n)
  PROVE  ContextInv'
<1>0. Len(branch) \in Nat /\ WellFormed(branch)
  BY Ids DEF ContextInv
<1>1. PlaceInv'
  <2>1. \A d \in Dirs : Above[d] \subseteq Files
    BY ConversationsAssumption
  <2>2. cwd' \in Dirs /\ saved' = cwd' /\ seen' \subseteq Files
    BY <2>1, ConversationsAssumption
       DEF ContextInv, PlaceInv, Context!NewSession, Context!Restart,
          Context!Cancel, Context!Rewind
  <2>3. troubles' \in Nat /\ session' \in 1 .. troubles' + 1
    BY DEF ContextInv, PlaceInv, Context!NewSession, Context!Restart, Context!Cancel,
       Context!Rewind, Context!Trouble
  <2>4. QED
    BY <2>2, <2>3 DEF PlaceInv
<1>2. ASSUME work' = Context!NoWork PROVE WorkInv'
  BY <1>1, <1>2 DEF WorkInv, Context!NoWork, PlaceInv
<1>3. CASE Context!NewSession
  <2>1. branch' = <<>> /\ session' = session + 1 /\ UNCHANGED work
    BY <1>3 DEF Context!NewSession
  <2>2. WellFormed(branch') /\ Summaries(branch')
    BY <2>1 DEF WellFormed, Grows, Summaries
  <2>3. work.session \in Nat /\ session \in Nat /\ work.session <= session
    BY DEF ContextInv, WorkInv, PlaceInv
  <2>4. ~Kept'
    BY <2>1, <2>3 DEF Kept
  <2>5. WorkInv'
    BY <2>1, <2>3, <2>4 DEF ContextInv, WorkInv
  <2>6. QED
    BY <1>1, <2>2, <2>5 DEF ContextInv
<1>4. CASE Context!Restart \/ Context!Cancel
  BY <1>1, <1>2, <1>4 DEF ContextInv, Context!Restart, Context!Cancel
<1>5. ASSUME NEW n \in 1 .. Len(branch) - 1, Context!Rewind(n) PROVE ContextInv'
  <2>1. branch' = SubSeq(branch, 1, n) /\ UNCHANGED <<session, work>>
    BY <1>5 DEF Context!Rewind
  <2>2. n \in Nat /\ n <= Len(branch)
    BY <1>0
  <2>3. /\ WellFormed(branch') /\ Summaries(branch')
        /\ DOMAIN branch' = 1 .. n /\ \A i \in 1 .. n : branch'[i] = branch[i]
    BY <1>0, <2>1, <2>2, Earlier DEF ContextInv
  <2> DEFINE s == work.source
  <2>4. s \in Seq(Nat) /\ Len(s) \in Nat /\ DOMAIN s = 1 .. Len(s)
    BY DEF ContextInv, WorkInv
  <2>5. Len(branch') = n /\ branch \in Seq(Context!Entries)
    BY <1>0, <2>1, <2>2 DEF WellFormed
  <2>6. Kept' => Kept /\ SubSeq(branch', 1, Len(s)) = SubSeq(branch, 1, Len(s))
    <3>1. SUFFICES ASSUME Kept'
                   PROVE  Kept /\ SubSeq(branch', 1, Len(s)) = SubSeq(branch, 1, Len(s))
      OBVIOUS
    <3>2. work.session = session /\ n >= Len(s) /\ \A i \in 1 .. Len(s) : branch'[i].id = s[i]
      BY <2>1, <2>4, <2>5, <3>1 DEF Kept
    <3>3. Kept
      BY <1>0, <2>2, <2>3, <2>4, <3>2 DEF Kept
    <3>4. SubSeq(branch', 1, Len(s)) = SubSeq(branch, 1, Len(s))
      <4> HIDE DEF s
      <4>1. QED
        BY <1>0, <2>1, <2>2, <2>4, <2>5, <3>2
    <3>5. QED
      BY <3>3, <3>4
  <2>7. WorkInv'
    BY <2>1, <2>6 DEF ContextInv, WorkInv
  <2>8. QED
    BY <1>1, <2>3, <2>7 DEF ContextInv
<1>6. QED
  BY <1>3, <1>4, <1>5

LEMMA PrepareSteps ==
  ASSUME ContextInv, NEW f \in DOMAIN branch, Context!Prepare(f)
  PROVE  ContextInv'
<1>0. Len(branch) \in Nat /\ DOMAIN branch = 1 .. Len(branch) /\ WellFormed(branch)
      /\ branch \in Seq(Context!Entries) /\ \A i \in DOMAIN branch : branch[i].id \in Nat
  BY Ids DEF ContextInv, WellFormed
<1> DEFINE source == [i \in DOMAIN branch |-> branch[i].id]
           about == Context!Summarized(branch, f)
<1>1. /\ UNCHANGED <<cwd, seen, session, saved, branch, troubles>>
      /\ f \in Context!MessagesOf(branch)
      /\ work' = [session |-> session, first |-> branch[f].id, source |-> source,
                  about |-> about, documents |-> Context!Documents(cwd)]
  BY <1>0, ProjectedIn DEF Context!Prepare
<1>2. source \in Seq(Nat) /\ Len(source) = Len(branch) /\ source # <<>>
      /\ \A i \in DOMAIN branch : source[i] = branch[i].id
  BY <1>0
<1>3. about \in Contents
  BY <1>0, SummarizedTyped
<1>4. SubSeq(branch, 1, Len(branch)) = branch
  BY <1>0
<1> HIDE DEF source, about
<1>5. /\ work'.session = session /\ work'.first = branch[f].id /\ work'.source = source
      /\ work'.about = about
  BY <1>1
<1>6. branch[f].id <= branch[Len(branch)].id
  BY <1>0 DEF WellFormed, Grows
<1>7. WorkInv'
  <2>1. work'.source \in Seq(Nat) /\ work'.session \in Nat /\ work'.session <= session'
    BY <1>1, <1>2, <1>5 DEF ContextInv, PlaceInv
  <2>2. /\ work'.source # <<>> /\ work'.first \in Nat /\ work'.about \in Contents
        /\ work'.first <= work'.source[Len(work'.source)]
    BY <1>0, <1>2, <1>3, <1>5, <1>6
  <2>3. SubSeq(branch', 1, Len(work'.source)) = branch
    BY <1>1, <1>2, <1>4, <1>5
  <2>4. branch[f].id = work'.first /\ work'.about = Context!Summarized(branch, f)
    BY <1>5 DEF about
  <2>5. QED
    BY <1>1, <2>1, <2>2, <2>3, <2>4 DEF WorkInv
<1>8. QED
  BY <1>1, <1>7 DEF ContextInv, PlaceInv

(* The summary is about what it takes the place of *)
LEMMA CommitSteps == ASSUME ContextInv, Context!Commit PROVE ContextInv'
<1>0. Len(branch) \in Nat /\ DOMAIN branch = 1 .. Len(branch) /\ WellFormed(branch)
      /\ branch \in Seq(Context!Entries) /\ Summaries(branch)
  BY Ids DEF ContextInv, WellFormed
<1> DEFINE n == Len(work.source)
           part == SubSeq(branch, 1, n)
           e == [kind |-> "compaction", id |-> Context!Fresh, first |-> work.first,
                 boundary |-> work.source[Len(work.source)], checkpoint |-> TRUE,
                 documents |-> Context!Restored, about |-> work.about]
<1>1. /\ work # Context!NoWork /\ Context!Current
      /\ branch' = Append(branch, e) /\ work' = Context!NoWork
      /\ UNCHANGED <<cwd, seen, session, saved, troubles>>
  BY DEF Context!Commit, Context!Grow
<1>2. /\ work.source \in Seq(Nat) /\ work.source # <<>> /\ work.first \in Nat
      /\ work.about \in Contents /\ work.first <= work.source[n]
      /\ Kept => \E f \in Context!MessagesOf(part) :
                   part[f].id = work.first /\ work.about = Context!Summarized(part, f)
  BY <1>1 DEF ContextInv, WorkInv
<1>3. n \in Nat /\ n > 0 /\ DOMAIN work.source = 1 .. n /\ work.source[n] \in Nat
  BY <1>2
<1>4. Kept /\ n <= Len(branch)
      /\ \A i \in n + 1 .. Len(branch) :
           /\ branch[i].kind # "compaction"
           /\ branch[i].kind = "edit" => \A c \in work.about : c.id # branch[i].of
  BY <1>0, <1>1, <1>3 DEF Context!Current, Kept
<1>5. PICK f \in Context!MessagesOf(part) :
        part[f].id = work.first /\ work.about = Context!Summarized(part, f)
  BY <1>2, <1>4
<1>6. WellFormed(part) /\ DOMAIN part = 1 .. n /\ \A i \in 1 .. n : part[i] = branch[i]
  BY <1>0, <1>3, <1>4, Earlier
<1>7. f \in 1 .. n /\ part[f] = branch[f] /\ f \in Context!MessagesOf(branch)
      /\ branch[f].id = work.first
  BY <1>0, <1>3, <1>4, <1>5, <1>6 DEF Context!MessagesOf
<1>8. work.about = Context!Summarized(branch, f)
  BY <1>0, <1>3, <1>4, <1>5, <1>6, <1>7, SummaryStays
<1>9. Context!Index(branch, work.first) = f
  BY <1>0, <1>3, <1>4, <1>7, IndexOf
<1>10. /\ Context!Fresh \in Nat /\ \A i \in DOMAIN branch : branch[i].id < Context!Fresh
       /\ work.source[n] < Context!Fresh
  BY <1>3, FreshIsNew
<1>11. Context!Restored \subseteq Files
  BY ConversationsAssumption DEF Context!Restored, Context!Documents, ContextInv, PlaceInv
<1>12. /\ e \in Context!Entries /\ e.id = Context!Fresh /\ e.first = work.first
       /\ e.boundary = work.source[n] /\ e.about = work.about /\ e.kind = "compaction"
  <2> DEFINE id == Context!Fresh
             documents == Context!Restored
             boundary == work.source[Len(work.source)]
             about == work.about
             first == work.first
  <2>1. id \in Nat /\ documents \subseteq Files /\ boundary \in Nat /\ about \in Contents
        /\ first \in Nat
    BY <1>2, <1>3, <1>10, <1>11
  <2>2. e = [kind |-> "compaction", id |-> id, first |-> first, boundary |-> boundary,
             checkpoint |-> TRUE, documents |-> documents, about |-> about]
    OBVIOUS
  <2> HIDE DEF id, documents, boundary, about, first
  <2>3. /\ e \in Context!Entries /\ e.id = id /\ e.first = first
        /\ e.boundary = boundary /\ e.about = about /\ e.kind = "compaction"
    BY <2>1, <2>2 DEF Context!Entries, Context!Ids, Contents
  <2>4. QED
    BY <2>3 DEF id, boundary, about, first
<1> HIDE DEF e, n, part
<1>13. WellFormed(branch') /\ Summaries(branch')
  BY <1>0, <1>1, <1>2, <1>7, <1>8, <1>9, <1>10, <1>12, Later
<1>14. PlaceInv'
  BY <1>1 DEF ContextInv, PlaceInv
<1>15. WorkInv'
  BY <1>1, <1>14 DEF WorkInv, Context!NoWork, PlaceInv
<1>16. QED
  BY <1>13, <1>14, <1>15 DEF ContextInv

LEMMA ContextStep == ContextInv /\ [Context!Next]_(Context!vars) => ContextInv'
<1> SUFFICES ASSUME ContextInv, [Context!Next]_(Context!vars) PROVE ContextInv'
  OBVIOUS
<1>1. CASE UNCHANGED Context!vars
  BY <1>1 DEF Context!vars, ContextInv, PlaceInv, WorkInv, Kept
<1>2. ASSUME NEW i \in DOMAIN branch, Context!Edit(i) \/ Context!Prepare(i) \/ Context!Compete(i)
      PROVE  ContextInv'
  BY <1>2, EditSteps, PrepareSteps
<1>3. QED
  BY <1>1, <1>2, TalkSteps, TroubleSteps, CommitSteps DEF Context!Next

(* The entries of a session are in order, each compaction after what it summarizes *)
THEOREM ContextTypes == Context!Spec => []Context!TypeOK
<1>1. ContextInv => Context!TypeOK
  <2> SUFFICES ASSUME ContextInv PROVE Context!TypeOK
    OBVIOUS
  <2>1. Len(branch) \in Nat /\ DOMAIN branch = 1 .. Len(branch) /\ WellFormed(branch)
        /\ \A i \in DOMAIN branch : branch[i] \in Context!Entries
    BY Ids DEF ContextInv
  <2>2. \A i \in 2 .. Len(branch) : branch[i - 1].id < branch[i].id
    BY <2>1 DEF WellFormed, Grows
  <2>3. QED
    BY <2>1, <2>2 DEF ContextInv, PlaceInv, WellFormed, CompactionFits, Context!TypeOK
<1>2. QED
  BY <1>1, ContextInit, ContextStep, PTL DEF Context!Spec

(* Whatever is said, edited or compacted while a summary is being written, a summary that is
   in the session is about the very entries whose place it takes *)
THEOREM SummariesFit == Context!Spec => []SummaryFits
<1>1. ContextInv => SummaryFits
  BY DEF ContextInv, Summaries, SummaryFitsAt, SummaryFits, Context!SummaryFits
<1>2. QED
  BY <1>1, ContextInit, ContextStep, PTL DEF Context!Spec

(* What CompactionKeeps says of a step *)
InstructionsKept ==
  Trusted /\ Len(branch') > Len(branch) /\ branch'[Len(branch')].kind = "compaction"
    /\ branch'[Len(branch')].checkpoint
    => Above[cwd] \cap Context!Context(branch) \subseteq Context!Context(branch')

LEMMA StepKeepsInstructions ==
  ContextInv /\ [Context!Next]_(Context!vars) => [InstructionsKept]_(Context!vars)
<1> SUFFICES ASSUME ContextInv, Context!Next, Trusted, Len(branch') > Len(branch),
                    branch'[Len(branch')].kind = "compaction", branch'[Len(branch')].checkpoint
             PROVE  Above[cwd] \subseteq Context!Context(branch')
  BY DEF InstructionsKept
<1>0. Len(branch) \in Nat /\ DOMAIN branch = 1 .. Len(branch) /\ WellFormed(branch)
      /\ branch \in Seq(Context!Entries)
  BY Ids DEF ContextInv, WellFormed
<1>1. \A e : branch' = Append(branch, e) =>
              Len(branch') = Len(branch) + 1 /\ branch'[Len(branch')] = e
  BY <1>0
<1>2. Context!Commit
  <2>1. ASSUME NEW e, Context!Grow(e) PROVE e.kind = "compaction" /\ e.checkpoint
    BY <1>1, <2>1 DEF Context!Grow
  <2>2. \A d \in Dirs : ~(Context!SetCwd(d) \/ Context!Use(d) \/ Context!UseFails(d))
    BY <2>1 DEF Context!SetCwd, Context!Use, Context!UseFails, Context!Message
  <2>3. ~Context!Say
    BY <2>1 DEF Context!Say, Context!Message
  <2>4. \A i \in DOMAIN branch : ~(Context!Edit(i) \/ Context!Prepare(i) \/ Context!Compete(i))
    BY <2>1 DEF Context!Edit, Context!Prepare, Context!Compete
  <2>5. ~(Context!NewSession \/ Context!Restart \/ Context!Cancel)
    BY DEF Context!NewSession, Context!Restart, Context!Cancel
  <2>6. \A k \in 1 .. Len(branch) - 1 : ~Context!Rewind(k)
    <3>1. SUFFICES ASSUME NEW k \in 1 .. Len(branch) - 1, Context!Rewind(k) PROVE FALSE
      OBVIOUS
    <3>2. branch' = SubSeq(branch, 1, k)
      BY <3>1 DEF Context!Rewind
    <3>3. QED
      BY <1>0, <3>2
  <2>7. QED
    BY <2>2, <2>3, <2>4, <2>5, <2>6 DEF Context!Next
<1> DEFINE last == Len(branch) + 1
<1>3. /\ branch'[last].documents = Context!Restored /\ branch'[last].kind = "compaction"
      /\ Len(branch') = last
  BY <1>1, <1>2 DEF Context!Commit, Context!Grow
<1>4. WellFormed(branch')
  BY ContextStep DEF ContextInv
<1>5. Context!Compacted(branch') = last
  <2>1. DOMAIN branch' = 1 .. last /\ last \in Nat
    BY <1>0, <1>3, <1>4, Ids
  <2>2. Context!Compacted(branch') \in Nat /\ last <= Context!Compacted(branch')
        /\ (Context!Compacted(branch') # 0 => Context!Compacted(branch') \in 1 .. last)
    BY <1>3, <1>4, <2>1, CompactedIn
  <2>3. QED
    BY <2>1, <2>2
<1>6. last \in Context!Projected(branch')
  BY <1>0, <1>5 DEF Context!Projected
<1>7. /\ Context!Restored \subseteq Context!Context(branch')
      /\ Context!System \subseteq Context!Context(branch')
  BY <1>3, <1>6 DEF Context!Context, Context!Shown
<1>8. QED
  BY <1>7 DEF Context!Restored, Context!Documents

(* After a checkpoint the model has the instruction files of the directory it works in, of those
   it had before *)
THEOREM CompactionsKeepInstructions == Context!Spec => CompactionKeeps
<1>1. InstructionsKept <=>
        (Trusted /\ Len(branch') > Len(branch) /\ branch'[Len(branch')].kind = "compaction"
           /\ branch'[Len(branch')].checkpoint
           => Above[cwd] \cap Context!Context(branch) \subseteq Context!Context(branch'))
  BY DEF InstructionsKept
<1>2. QED
  BY <1>1, ContextInit, ContextStep, StepKeepsInstructions, PTL
     DEF Context!Spec, CompactionKeeps, Context!CompactionKeeps

-----------------------------------------------------------------------------
(* What sessions cost *)

(* A new column is shown after all others *)
-----------------------------------------------------------------------------
(* Accounts and their units *)
LEMMA CardIs == \A S : Costs!Cardinality(S) = Cardinality(S)
  BY DEF Costs!Cardinality, Cardinality

LEMMA IdsDiffer ==
  \A r, q, s, t, m, n :
    /\ Costs!RunId(r) = Costs!RunId(q) => r = q
    /\ Costs!SessionId(s) = Costs!SessionId(t) => s = t
    /\ Costs!AnswerId(m) = Costs!AnswerId(n) => m = n
    /\ Costs!RunId(r) # Costs!SessionId(s) /\ Costs!RunId(r) # Costs!AnswerId(m)
    /\ Costs!SessionId(s) # Costs!AnswerId(m)
    /\ Costs!RunId(r)[1] = "run" /\ Costs!SessionId(s)[1] # "run"
  BY DEF Costs!RunId, Costs!SessionId, Costs!AnswerId

LEMMA MaxOfTwo ==
  ASSUME NEW x \in Nat, NEW y \in Nat
  PROVE  Costs!Max({x, y}) = IF x >= y THEN x ELSE y
<1> DEFINE m == IF x >= y THEN x ELSE y
<1>1. m \in {x, y} /\ \A z \in {x, y} : m >= z
  OBVIOUS
<1>2. \A n \in {x, y} : (\A z \in {x, y} : n >= z) => n = m
  OBVIOUS
<1> HIDE DEF m
<1>3. Costs!Max({x, y}) = m
  BY <1>1, <1>2 DEF Costs!Max
<1>4. QED
  BY <1>3 DEF m

(* The units of an account that counts how many of some things have each of some marks are as
   many as the things *)
LEMMA UnitsOfMarks ==
  ASSUME NEW T, IsFiniteSet(T), NEW D, NEW h \in [T -> D],
         NEW a, a = [i \in D |-> Cardinality({k \in T : h[k] = i})]
  PROVE  IsFiniteSet(Costs!Units(a)) /\ Cardinality(Costs!Units(a)) = Cardinality(T)
<1> DEFINE with(i) == {k \in T : h[k] = i}
           pick == [i \in D |-> CHOOSE f : f \in Bijection(1 .. Cardinality(with(i)), with(i))]
           U == Costs!Units(a)
           g == [u \in U |-> pick[u[1]][u[2]]]
<1>1. \A i \in D : /\ IsFiniteSet(with(i)) /\ Cardinality(with(i)) \in Nat
                   /\ a[i] = Cardinality(with(i))
  <2>1. TAKE i \in D
  <2>2. with(i) \in SUBSET T /\ a[i] = Cardinality(with(i))
    OBVIOUS
  <2> HIDE DEF with
  <2>3. QED
    BY <2>2, FS_Subset, FS_CardinalityType
<1>2. \A i \in D : pick[i] \in Bijection(1 .. Cardinality(with(i)), with(i))
  <2>1. TAKE i \in D
  <2>2. ExistsBijection(1 .. Cardinality(with(i)), with(i))
    <3> HIDE DEF with
    <3>1. QED
      BY <1>1, FS_CardinalityType
  <2>3. QED
    BY <2>2 DEF ExistsBijection
<1> HIDE DEF pick
<1>3. \A i \in D : /\ \A n \in 1 .. a[i] : pick[i][n] \in with(i)
                   /\ \A n, o \in 1 .. a[i] : pick[i][n] = pick[i][o] => n = o
                   /\ \A k \in with(i) : \E n \in 1 .. a[i] : pick[i][n] = k
  <2>1. TAKE i \in D
  <2> DEFINE W == with(i)
             p == pick[i]
  <2>2. p \in Bijection(1 .. Cardinality(W), W) /\ a[i] = Cardinality(W)
    BY <1>1, <1>2
  <2> HIDE DEF W, p
  <2>3. /\ \A n \in 1 .. a[i] : p[n] \in W
        /\ \A n, o \in 1 .. a[i] : p[n] = p[o] => n = o
        /\ \A k \in W : \E n \in 1 .. a[i] : p[n] = k
    BY <2>2 DEF Bijection, Injection, IsInjective, Surjection
  <2>4. QED
    BY <2>3 DEF W, p
<1>4. DOMAIN a = D
  OBVIOUS
<1>5. /\ \A i \in D : \A n \in 1 .. a[i] : <<i, n>> \in U
      /\ \A u \in U : \E i \in D : \E n \in 1 .. a[i] : u = <<i, n>>
  <2> DEFINE units(i) == {i} \X (1 .. a[i])
  <2>1. U = UNION {units(i) : i \in D}
    BY <1>4 DEF Costs!Units
  <2>2. \A i \in D : /\ \A n \in 1 .. a[i] : <<i, n>> \in units(i)
                     /\ \A u \in units(i) : \E n \in 1 .. a[i] : u = <<i, n>>
    OBVIOUS
  <2> HIDE DEF U, units
  <2>3. QED
    BY <2>1, <2>2
<1>6. \A i \in D : \A n \in 1 .. a[i] : g[<<i, n>>] = pick[i][n]
  BY <1>5
<1>7. g \in [U -> T]
  <2>1. ASSUME NEW u \in U PROVE g[u] \in T
    <3>1. PICK i \in D : \E n \in 1 .. a[i] : u = <<i, n>>
      BY <1>5
    <3>2. PICK n \in 1 .. a[i] : u = <<i, n>>
      BY <3>1
    <3>3. g[u] = pick[i][n]
      BY <1>6, <3>2
    <3>4. pick[i][n] \in with(i)
      BY <1>3
    <3> HIDE DEF g
    <3>5. QED
      BY <3>3, <3>4
  <2> HIDE DEF U
  <2>2. QED
    BY <2>1
<1>8. \A u, v \in U : g[u] = g[v] => u = v
  <2>1. SUFFICES ASSUME NEW u \in U, NEW v \in U, g[u] = g[v] PROVE u = v
    OBVIOUS
  <2>2. PICK i \in D : \E n \in 1 .. a[i] : u = <<i, n>>
    BY <1>5
  <2>3. PICK n \in 1 .. a[i] : u = <<i, n>>
    BY <2>2
  <2>4. PICK j \in D : \E o \in 1 .. a[j] : v = <<j, o>>
    BY <1>5
  <2>5. PICK o \in 1 .. a[j] : v = <<j, o>>
    BY <2>4
  <2> HIDE DEF U, g
  <2>6. pick[i][n] = pick[j][o]
    BY <1>6, <2>1, <2>3, <2>5
  <2>7. h[pick[i][n]] = i /\ h[pick[j][o]] = j
    BY <1>3
  <2>8. i = j
    BY <2>6, <2>7
  <2>9. n = o
    BY <1>3, <2>6, <2>8
  <2>10. QED
    BY <2>3, <2>5, <2>8, <2>9
<1>9. \A k \in T : \E u \in U : g[u] = k
  <2>1. TAKE k \in T
  <2>2. h[k] \in D /\ k \in with(h[k])
    OBVIOUS
  <2>3. PICK n \in 1 .. a[h[k]] : pick[h[k]][n] = k
    BY <1>3, <2>2
  <2>4. <<h[k], n>> \in U /\ g[<<h[k], n>>] = k
    BY <1>5, <1>6, <2>2, <2>3
  <2> HIDE DEF U, g
  <2>5. QED
    BY <2>4
<1> HIDE DEF U, g
<1>10. g \in Injection(U, T) /\ g \in Surjection(U, T)
  BY <1>7, <1>8, <1>9 DEF Injection, IsInjective, Surjection
<1>11. QED
  BY <1>10, FS_Injection DEF U

(* Accounts of which each has at most so many *)
LEMMA UnitsBelow ==
  ASSUME NEW a, NEW b, DOMAIN a \subseteq DOMAIN b,
         \A i \in DOMAIN a : a[i] \in Nat /\ b[i] \in Nat /\ a[i] <= b[i]
  PROVE  Costs!Units(a) \subseteq Costs!Units(b)
<1>1. \A i \in DOMAIN a : 1 .. a[i] \subseteq 1 .. b[i]
  OBVIOUS
<1>2. QED
  BY <1>1 DEF Costs!Units

-----------------------------------------------------------------------------
(* The entries of a session *)
OwnerIds == {Costs!RunId(r) : r \in Runs} \cup {Costs!SessionId(s) : s \in Sessions}

LogEntries ==
  [type : {"owner"}, id : OwnerIds, session : Sessions]
    \cup [type : {"message"}, id : {Costs!AnswerId(m) : m \in Nat}]

OwnersIn(l) == {k \in DOMAIN l : l[k].type = "owner"}

(* The last owner entry before a place *)
Governs(l, j, k) == j \in OwnersIn(l) /\ j < k /\ \A i \in OwnersIn(l) : i < k => i <= j

OwnerFits(l, k, of) ==
  \/ \E r \in Runs : l[k].id = Costs!RunId(r) /\ l[k].session = of[r]
  \/ l[k].id = Costs!SessionId(l[k].session)

(* An answer stands under the owner it was made under, or it is the first there was *)
AnswerFits(l, k, b) ==
  \E m \in DOMAIN b :
    /\ l[k].id = Costs!AnswerId(m)
    /\ \/ k = 1 /\ m = 1
       \/ \E j \in OwnersIn(l) : /\ Governs(l, j, k)
                                 /\ l[j].session = b[m].session
                                 /\ l[j].id = Costs!OwnId(b[m].session, b[m].run)

LogFits(l, b, of) ==
  /\ l \in Seq(LogEntries)
  /\ \A k \in OwnersIn(l) : OwnerFits(l, k, of)
  /\ \A k \in DOMAIN l \ OwnersIn(l) : AnswerFits(l, k, b)
  /\ \A j, k \in DOMAIN l \ OwnersIn(l) : l[j].id = l[k].id => j = k

Answered == Seq([run : Runs \cup {Nil}, session : Sessions])

LEMMA LogOf ==
  ASSUME NEW l, NEW b, NEW of, LogFits(l, b, of)
  PROVE  /\ Len(l) \in Nat /\ DOMAIN l = 1 .. Len(l) /\ OwnersIn(l) \subseteq DOMAIN l
         /\ \A k \in DOMAIN l : l[k] \in LogEntries
         /\ \A k \in OwnersIn(l) : l[k].id \in OwnerIds /\ l[k].session \in Sessions
         /\ \A k \in DOMAIN l \ OwnersIn(l) : l[k].type = "message"
<1>1. Len(l) \in Nat /\ DOMAIN l = 1 .. Len(l) /\ \A k \in DOMAIN l : l[k] \in LogEntries
  BY DEF LogFits
<1>2. \A e \in LogEntries : /\ e.type = "owner" => e.id \in OwnerIds /\ e.session \in Sessions
                            /\ e.type # "owner" => e.type = "message"
  BY DEF LogEntries
<1>3. QED
  BY <1>1, <1>2 DEF OwnersIn

(* A part from the start *)
LEMMA LogPrefix ==
  ASSUME NEW l, NEW b, NEW of, LogFits(l, b, of), NEW n \in 1 .. Len(l)
  PROVE  LogFits(SubSeq(l, 1, n), b, of) /\ SubSeq(l, 1, n) # <<>>
<1> DEFINE p == SubSeq(l, 1, n)
<1>1. Len(l) \in Nat /\ DOMAIN l = 1 .. Len(l) /\ l \in Seq(LogEntries)
  BY LogOf DEF LogFits
<1>2. p \in Seq(LogEntries) /\ DOMAIN p = 1 .. n /\ (\A k \in 1 .. n : p[k] = l[k]) /\ p # <<>>
  BY <1>1
<1> HIDE DEF p
<1>3. OwnersIn(p) = {k \in OwnersIn(l) : k <= n}
  BY <1>1, <1>2 DEF OwnersIn
<1>4. \A k \in OwnersIn(p) : k \in OwnersIn(l) /\ p[k] = l[k]
  BY <1>2, <1>3 DEF OwnersIn
<1>5. \A j \in OwnersIn(l), k \in 1 .. n :
        Governs(l, j, k) => j \in OwnersIn(p) /\ Governs(p, j, k)
  BY <1>1, <1>3 DEF Governs, OwnersIn
<1>6. \A k \in OwnersIn(p) : OwnerFits(p, k, of)
  BY <1>4 DEF LogFits, OwnerFits
<1>7. \A k \in DOMAIN p \ OwnersIn(p) : AnswerFits(p, k, b)
  <2>1. TAKE k \in DOMAIN p \ OwnersIn(p)
  <2>2. k \in DOMAIN l \ OwnersIn(l) /\ k \in 1 .. n /\ p[k] = l[k]
    BY <1>1, <1>2, <1>3
  <2>3. AnswerFits(l, k, b)
    BY <2>2 DEF LogFits
  <2>4. PICK m \in DOMAIN b :
          /\ l[k].id = Costs!AnswerId(m)
          /\ \/ k = 1 /\ m = 1
             \/ \E j \in OwnersIn(l) : /\ Governs(l, j, k)
                                       /\ l[j].session = b[m].session
                                       /\ l[j].id = Costs!OwnId(b[m].session, b[m].run)
    BY <2>3 DEF AnswerFits
  <2>5. QED
    BY <1>4, <1>5, <2>2, <2>4 DEF AnswerFits
<1>8. \A j, k \in DOMAIN p \ OwnersIn(p) : p[j].id = p[k].id => j = k
  <2>1. \A k \in DOMAIN p \ OwnersIn(p) : k \in DOMAIN l \ OwnersIn(l) /\ p[k] = l[k]
    BY <1>1, <1>2, <1>3
  <2>2. QED
    BY <2>1 DEF LogFits
<1>9. LogFits(p, b, of)
  BY <1>2, <1>6, <1>7, <1>8 DEF LogFits
<1>10. QED
  BY <1>2, <1>9 DEF p

(* An entry more *)
LEMMA LogGrows ==
  ASSUME NEW l, NEW b, NEW of, LogFits(l, b, of), NEW e \in LogEntries
  PROVE  LET d == Append(l, e)
             new == Len(l) + 1
         IN /\ d \in Seq(LogEntries) /\ DOMAIN d = 1 .. new /\ d # <<>> /\ Len(d) = new
            /\ d[new] = e /\ \A k \in DOMAIN l : d[k] = l[k]
            /\ OwnersIn(d) = OwnersIn(l) \cup (IF e.type = "owner" THEN {new} ELSE {})
            /\ \A j \in OwnersIn(l), k \in 1 .. new : Governs(l, j, k) => Governs(d, j, k)
            /\ \A k \in OwnersIn(l) : OwnerFits(d, k, of)
            /\ \A k \in DOMAIN l \ OwnersIn(l) : AnswerFits(d, k, b)
<1> DEFINE d == Append(l, e)
           new == Len(l) + 1
<1>1. /\ Len(l) \in Nat /\ DOMAIN l = 1 .. Len(l) /\ l \in Seq(LogEntries)
      /\ OwnersIn(l) \subseteq DOMAIN l
  BY LogOf DEF LogFits
<1>2. d \in Seq(LogEntries) /\ DOMAIN d = 1 .. new /\ d # <<>> /\ Len(d) = new
      /\ d[new] = e /\ \A k \in DOMAIN l : d[k] = l[k]
  BY <1>1
<1> HIDE DEF d
<1>3. OwnersIn(d) = OwnersIn(l) \cup (IF e.type = "owner" THEN {new} ELSE {})
  BY <1>1, <1>2 DEF OwnersIn
<1>4. \A j \in OwnersIn(l), k \in 1 .. new : Governs(l, j, k) => Governs(d, j, k)
  BY <1>1, <1>3 DEF Governs
<1>5. \A k \in OwnersIn(l) : OwnerFits(d, k, of)
  BY <1>1, <1>2 DEF LogFits, OwnerFits
<1>6. \A k \in DOMAIN l \ OwnersIn(l) : AnswerFits(d, k, b)
  <2>1. TAKE k \in DOMAIN l \ OwnersIn(l)
  <2>2. k \in 1 .. new /\ d[k] = l[k] /\ AnswerFits(l, k, b)
    BY <1>1, <1>2 DEF LogFits
  <2>3. PICK m \in DOMAIN b :
          /\ l[k].id = Costs!AnswerId(m)
          /\ \/ k = 1 /\ m = 1
             \/ \E j \in OwnersIn(l) : /\ Governs(l, j, k)
                                       /\ l[j].session = b[m].session
                                       /\ l[j].id = Costs!OwnId(b[m].session, b[m].run)
    BY <2>2 DEF AnswerFits
  <2>4. \A j \in OwnersIn(l) : j \in OwnersIn(d) /\ d[j] = l[j]
    BY <1>1, <1>2, <1>3
  <2>5. QED
    BY <1>4, <2>2, <2>3, <2>4 DEF AnswerFits
<1>7. QED
  BY <1>2, <1>3, <1>4, <1>5, <1>6 DEF d

(* More answers elsewhere, and runs that got a session *)
LEMMA LogStays ==
  ASSUME NEW l, NEW b, NEW of, LogFits(l, b, of), NEW c, DOMAIN b \subseteq DOMAIN c,
         \A m \in DOMAIN b : c[m] = b[m],
         NEW og, \A r \in Runs : of[r] # Nil => og[r] = of[r]
  PROVE  LogFits(l, c, og)
<1>1. \A k \in OwnersIn(l) : OwnerFits(l, k, og)
  <2>1. TAKE k \in OwnersIn(l)
  <2>2. OwnerFits(l, k, of) /\ l[k].session \in Sessions /\ Nil \notin Sessions
    BY LogOf, ConversationsAssumption DEF LogFits
  <2>3. QED
    BY <2>2 DEF OwnerFits
<1>2. \A k \in DOMAIN l \ OwnersIn(l) : AnswerFits(l, k, c)
  BY DEF LogFits, AnswerFits
<1>3. QED
  BY <1>1, <1>2 DEF LogFits

(* Whoever owns the session at its end owns what is added *)
LEMMA OwnerAppended ==
  ASSUME NEW l, NEW b, NEW of, LogFits(l, b, of), NEW i \in OwnerIds, NEW s \in Sessions,
         \/ \E r \in Runs : i = Costs!RunId(r) /\ s = of[r]
         \/ i = Costs!SessionId(s)
  PROVE  LET d == Append(l, Costs!Owner(i, s))
             new == Len(l) + 1
         IN /\ LogFits(d, b, of) /\ d # <<>> /\ new \in OwnersIn(d) /\ Governs(d, new, Len(d) + 1)
            /\ d[new].id = i /\ d[new].session = s
            /\ \A k \in DOMAIN l : k \in DOMAIN d /\ d[k] = l[k]
<1> DEFINE e == Costs!Owner(i, s)
           d == Append(l, e)
           new == Len(l) + 1
<1>1. e \in LogEntries /\ e.type = "owner" /\ e.id = i /\ e.session = s
  BY DEF Costs!Owner, LogEntries
<1> HIDE DEF e
<1>2. /\ d \in Seq(LogEntries) /\ DOMAIN d = 1 .. new /\ d # <<>> /\ Len(d) = new
      /\ d[new] = e /\ \A k \in DOMAIN l : d[k] = l[k]
      /\ OwnersIn(d) = OwnersIn(l) \cup {new}
      /\ \A k \in OwnersIn(l) : OwnerFits(d, k, of)
      /\ \A k \in DOMAIN l \ OwnersIn(l) : AnswerFits(d, k, b)
  BY <1>1, LogGrows
<1>3. Len(l) \in Nat /\ DOMAIN l = 1 .. Len(l) /\ OwnersIn(l) \subseteq DOMAIN l
  BY LogOf
<1> HIDE DEF d
<1>4. OwnerFits(d, new, of)
  BY <1>1, <1>2 DEF OwnerFits
<1>5. DOMAIN d \ OwnersIn(d) = DOMAIN l \ OwnersIn(l)
  BY <1>2, <1>3
<1>6. \A j, k \in DOMAIN d \ OwnersIn(d) : d[j].id = d[k].id => j = k
  BY <1>2, <1>5 DEF LogFits
<1>7. LogFits(d, b, of)
  BY <1>2, <1>4, <1>5, <1>6 DEF LogFits
<1>8. Governs(d, new, Len(d) + 1)
  BY <1>2, <1>3 DEF Governs
<1>9. \A k \in DOMAIN l : k \in DOMAIN d /\ d[k] = l[k]
  BY <1>2, <1>3
<1>10. QED
  BY <1>1, <1>2, <1>7, <1>8, <1>9 DEF d, e

LEMMA AnswerAppended ==
  ASSUME NEW l, NEW b \in Answered, NEW of, LogFits(l, b, of),
         NEW s \in Sessions, NEW r \in Runs \cup {Nil},
         NEW j \in OwnersIn(l), Governs(l, j, Len(l) + 1), l[j].session = s,
         l[j].id = Costs!OwnId(s, r)
  PROVE  LET d == Append(l, Costs!Answer(Len(b) + 1))
             c == Append(b, [run |-> r, session |-> s])
         IN /\ LogFits(d, c, of) /\ d # <<>> /\ j \in OwnersIn(d) /\ Governs(d, j, Len(d) + 1)
            /\ \A k \in DOMAIN l : k \in DOMAIN d /\ d[k] = l[k]
            /\ Len(l) + 1 \in DOMAIN d /\ d[Len(l) + 1] = Costs!Answer(Len(b) + 1)
<1> DEFINE m == Len(b) + 1
           e == Costs!Answer(m)
           d == Append(l, e)
           new == Len(l) + 1
           row == [run |-> r, session |-> s]
           c == Append(b, row)
<1>1. e \in LogEntries /\ e.type = "message" /\ e.id = Costs!AnswerId(m) /\ m \in Nat
  BY DEF Costs!Answer, LogEntries, Answered
<1>2. row.run = r /\ row.session = s
  OBVIOUS
<1>3. /\ Len(b) \in Nat /\ DOMAIN b = 1 .. Len(b) /\ DOMAIN c = 1 .. m /\ c[m] = row
      /\ \A k \in DOMAIN b : c[k] = b[k]
  BY DEF Answered
<1> HIDE DEF e, row, c
<1>4. /\ d \in Seq(LogEntries) /\ DOMAIN d = 1 .. new /\ d # <<>> /\ Len(d) = new
      /\ d[new] = e /\ \A k \in DOMAIN l : d[k] = l[k]
      /\ OwnersIn(d) = OwnersIn(l)
      /\ Governs(d, j, new)
      /\ \A k \in OwnersIn(l) : OwnerFits(d, k, of)
      /\ \A k \in DOMAIN l \ OwnersIn(l) : AnswerFits(d, k, b)
  <2>1. Len(l) \in Nat
    BY LogOf
  <2>2. new \in 1 .. new
    BY <2>1
  <2>3. OwnersIn(d) = OwnersIn(l) \cup (IF e.type = "owner" THEN {new} ELSE {})
    BY <1>1, LogGrows
  <2>4. /\ d \in Seq(LogEntries) /\ DOMAIN d = 1 .. new /\ d # <<>> /\ Len(d) = new
        /\ d[new] = e /\ \A k \in DOMAIN l : d[k] = l[k]
        /\ \A k \in OwnersIn(l) : OwnerFits(d, k, of)
        /\ \A k \in DOMAIN l \ OwnersIn(l) : AnswerFits(d, k, b)
        /\ \A i \in OwnersIn(l), k \in 1 .. new : Governs(l, i, k) => Governs(d, i, k)
    BY <1>1, LogGrows
  <2>5. OwnersIn(d) = OwnersIn(l)
    BY <1>1, <2>3
  <2> HIDE DEF d
  <2>6. QED
    BY <2>2, <2>4, <2>5
<1>5. Len(l) \in Nat /\ DOMAIN l = 1 .. Len(l) /\ OwnersIn(l) \subseteq DOMAIN l
  BY LogOf
<1> HIDE DEF d
<1>6. AnswerFits(d, new, c)
  <2>1. m \in DOMAIN c /\ d[new].id = Costs!AnswerId(m) /\ c[m].run = r /\ c[m].session = s
    BY <1>1, <1>2, <1>3, <1>4
  <2>2. j \in OwnersIn(d) /\ Governs(d, j, new) /\ d[j] = l[j]
    BY <1>4, <1>5
  <2>3. d[j].session = c[m].session /\ d[j].id = Costs!OwnId(c[m].session, c[m].run)
    BY <2>1, <2>2
  <2>4. QED
    BY <2>1, <2>2, <2>3 DEF AnswerFits
<1>7. \A k \in DOMAIN l \ OwnersIn(l) : AnswerFits(d, k, c)
  <2>1. TAKE k \in DOMAIN l \ OwnersIn(l)
  <2>2. AnswerFits(d, k, b) /\ DOMAIN b \subseteq DOMAIN c /\ \A o \in DOMAIN b : c[o] = b[o]
    BY <1>3, <1>4
  <2>3. QED
    BY <2>2 DEF AnswerFits
<1>8. DOMAIN d \ OwnersIn(d) = (DOMAIN l \ OwnersIn(l)) \cup {new}
  BY <1>4, <1>5
<1>9. \A k \in DOMAIN l \ OwnersIn(l) : d[k] = l[k] /\ l[k].id # Costs!AnswerId(m)
  <2>1. TAKE k \in DOMAIN l \ OwnersIn(l)
  <2>2. PICK o \in DOMAIN b : l[k].id = Costs!AnswerId(o)
    BY DEF LogFits, AnswerFits
  <2>3. o # m
    BY <1>3
  <2>4. QED
    BY <1>4, <2>2, <2>3, IdsDiffer
<1>10. \A i, k \in DOMAIN d \ OwnersIn(d) : d[i].id = d[k].id => i = k
  <2>1. SUFFICES ASSUME NEW i \in DOMAIN d \ OwnersIn(d), NEW k \in DOMAIN d \ OwnersIn(d),
                        d[i].id = d[k].id
                 PROVE  i = k
    OBVIOUS
  <2>2. d[new].id = Costs!AnswerId(m)
    BY <1>1, <1>4
  <2>3. CASE i = new \/ k = new
    BY <1>8, <1>9, <2>1, <2>2, <2>3
  <2>4. CASE i # new /\ k # new
    BY <1>8, <1>9, <2>1, <2>4 DEF LogFits
  <2>5. QED
    BY <2>3, <2>4
<1>11. LogFits(d, c, of)
  BY <1>4, <1>6, <1>7, <1>8, <1>10 DEF LogFits
<1>12. Governs(d, j, Len(d) + 1)
  BY <1>4, <1>5 DEF Governs
<1>13. \A k \in DOMAIN l : k \in DOMAIN d /\ d[k] = l[k]
  BY <1>4, <1>5
<1>14. new \in DOMAIN d
  BY <1>4, <1>5
<1>15. QED
  BY <1>4, <1>11, <1>12, <1>13, <1>14 DEF d, e, row, c


-----------------------------------------------------------------------------
(* The inductive invariant of the accounts *)
SubAccounts(u) ==
  {Costs!NoAccounts} \cup {Costs!Account(Costs!RunId(Sub), n) : n \in 0 .. u}
LedgerRecords(u) == [session : Sessions, accounts : SubAccounts(u), append : BOOLEAN]
Serving == {"up", "leaving", "flushed"}

(* Whom an answer is charged to *)
Share(b, m) == IF b[m].run = Nil THEN Costs!AnswerId(m) ELSE Costs!RunId(b[m].run)
ShareOf(b, i) == Cardinality({m \in DOMAIN b : Share(b, m) = i})
Fits(a, b, u) ==
  /\ DOMAIN a \subseteq Costs!Ids
  /\ \A i \in DOMAIN a : /\ a[i] \in Nat
                         /\ a[i] <= IF i = Costs!RunId(Sub) THEN u ELSE ShareOf(b, i)

(* Every answer is in the session it was made in, and stays there *)
HistoryInv ==
  /\ DOMAIN log = Sessions /\ by \in Answered /\ DOMAIN sessionOf = Runs
  /\ \A r \in Runs : sessionOf[r] \in Sessions \cup {Nil}
  /\ \A s \in Sessions : LogFits(log[s], by, sessionOf)
  /\ Len(by) \in 1 .. MaxAnswers /\ by[1] = [run |-> Nil, session |-> Old]
  /\ \A m \in DOMAIN by :
       /\ \E k \in DOMAIN log[by[m].session] : log[by[m].session][k] = Costs!Answer(m)
       /\ by[m].run # Nil => sessionOf[by[m].run] = by[m].session

(* The session of the process is its own: its last owner says so *)
ProcessInv ==
  /\ phase \in Serving \cup {"down", "between"}
  /\ at \in Sessions \cup {Nil} /\ runId \in Runs \cup {Nil}
  /\ phase # "down" =>
       /\ at \in Sessions
       /\ runId # Nil => sessionOf[runId] = at
       /\ \E j \in OwnersIn(log[at]) : /\ Governs(log[at], j, Len(log[at]) + 1)
                                       /\ log[at][j].session = at
                                       /\ log[at][j].id = Costs!OwnId(at, runId)

(* One ledger at most writes, that of the session, and it is saved *)
LedgersInv ==
  /\ ledgers \in Seq(LedgerRecords(used))
  /\ ledger \in 0 .. Len(ledgers) /\ captured \in 0 .. Len(ledgers)
  /\ \A k \in DOMAIN ledgers : ledgers[k].append => k = ledger
  /\ (ledger # 0 /\ ledgers[ledger].append) = (phase \in Serving)
  /\ phase # "down" => ledger # 0
  /\ sub = "running" \/ open => captured # 0
  /\ open \in BOOLEAN
  /\ phase \in Serving =>
       ledgers[ledger].session = at /\ ledgers[ledger].accounts = costs[at]
  /\ DOMAIN costs = Sessions
  /\ \A s \in Sessions : /\ costs[s] \in SubAccounts(used)
                         /\ log[s] = <<>> => costs[s] = Costs!NoAccounts

(* The subagent is told only what is saved *)
SubagentInv ==
  /\ used \in Nat /\ subSent \in 0 .. used /\ subPending \in 0 .. used
  /\ subMail \subseteq 0 .. used
  /\ Costs!AcknowledgedIsSaved

(* What is above and on its way was spent *)
ReportsInv == Fits(up, by, used) /\ \A report \in mail : Fits(report, by, used)

CostInv == HistoryInv /\ ProcessInv /\ LedgersInv /\ SubagentInv /\ ReportsInv

-----------------------------------------------------------------------------
(* Accounts merged *)
Accounts(a) == \A i \in DOMAIN a : a[i] \in Nat

LEMMA UsedIs ==
  ASSUME NEW a, Accounts(a), NEW i
  PROVE  Costs!Used(a, i) \in Nat /\ (i \in DOMAIN a => Costs!Used(a, i) = a[i])
  BY DEF Costs!Used, Accounts

LEMMA MergeIs ==
  ASSUME NEW a, NEW b, Accounts(a), Accounts(b)
  PROVE  LET c == Costs!Merge(a, b)
         IN /\ DOMAIN c = DOMAIN a \cup DOMAIN b
            /\ c = [i \in DOMAIN c |-> c[i]]
            /\ Accounts(c)
            /\ \A i \in DOMAIN c : /\ c[i] >= Costs!Used(a, i) /\ c[i] >= Costs!Used(b, i)
                                   /\ c[i] \in {Costs!Used(a, i), Costs!Used(b, i)}
                                   /\ c[i] = IF Costs!Used(a, i) >= Costs!Used(b, i)
                                             THEN Costs!Used(a, i) ELSE Costs!Used(b, i)
<1> DEFINE c == Costs!Merge(a, b)
           x(i) == Costs!Used(a, i)
           y(i) == Costs!Used(b, i)
<1>1. c = [i \in DOMAIN a \cup DOMAIN b |-> Costs!Max({x(i), y(i)})]
  BY DEF Costs!Merge
<1>2. \A i : x(i) \in Nat /\ y(i) \in Nat
  BY UsedIs
<1> HIDE DEF c, x, y
<1>3. \A i : Costs!Max({x(i), y(i)}) = IF x(i) >= y(i) THEN x(i) ELSE y(i)
  BY <1>2, MaxOfTwo
<1>4. DOMAIN c = DOMAIN a \cup DOMAIN b
      /\ \A i \in DOMAIN c : c[i] = IF x(i) >= y(i) THEN x(i) ELSE y(i)
  BY <1>1, <1>3
<1>5. \A i \in DOMAIN c : c[i] \in Nat /\ c[i] >= x(i) /\ c[i] >= y(i) /\ c[i] \in {x(i), y(i)}
  BY <1>2, <1>4
<1>6. c = [i \in DOMAIN c |-> c[i]]
  BY <1>1
<1>7. QED
  BY <1>4, <1>5, <1>6 DEF Accounts, c, x, y

(* The subagent's account *)
LEMMA SubAccountsAre ==
  ASSUME NEW u \in Nat, NEW a \in SubAccounts(u)
  PROVE  /\ Accounts(a) /\ DOMAIN a \subseteq {Costs!RunId(Sub)}
         /\ \A i \in DOMAIN a : a[i] <= u
         /\ a # Costs!NoAccounts => Costs!RunId(Sub) \in DOMAIN a
  BY DEF SubAccounts, Accounts, Costs!NoAccounts, Costs!Account

LEMMA SubAccountsGrow ==
  ASSUME NEW u \in Nat
  PROVE  SubAccounts(u) \subseteq SubAccounts(u + 1)
<1>1. 0 .. u \subseteq 0 .. (u + 1)
  OBVIOUS
<1>2. QED
  BY <1>1 DEF SubAccounts

LEMMA MergeSub ==
  ASSUME NEW u \in Nat, NEW a \in SubAccounts(u), NEW n \in 0 .. u
  PROVE  LET c == Costs!Merge(a, Costs!Account(Costs!RunId(Sub), n))
         IN /\ c \in SubAccounts(u) /\ Costs!RunId(Sub) \in DOMAIN c
            /\ c[Costs!RunId(Sub)] \in 0 .. u
            /\ c[Costs!RunId(Sub)] >= n
            /\ c[Costs!RunId(Sub)] >= Costs!Used(a, Costs!RunId(Sub))
            /\ Costs!Merge(a, Costs!Account(Costs!RunId(Sub), c[Costs!RunId(Sub)])) = c
<1> DEFINE i == Costs!RunId(Sub)
           b(k) == Costs!Account(i, k)
           c(k) == Costs!Merge(a, b(k))
<1>1. \A k \in Nat : /\ DOMAIN b(k) = {i} /\ b(k)[i] = k /\ Accounts(b(k))
                     /\ Costs!Used(b(k), i) = k
  BY DEF Costs!Account, Accounts, Costs!Used
<1>2. Accounts(a) /\ DOMAIN a \subseteq {i} /\ \A j \in DOMAIN a : a[j] <= u
  BY SubAccountsAre
<1>3. Costs!Used(a, i) \in 0 .. u
  BY <1>2 DEF Costs!Used, Accounts
<1> HIDE DEF i, b
<1>4. \A k \in Nat : /\ DOMAIN c(k) = {i} /\ c(k) = [j \in {i} |-> c(k)[i]]
                     /\ c(k)[i] = IF Costs!Used(a, i) >= k THEN Costs!Used(a, i) ELSE k
  <2>1. TAKE k \in Nat
  <2>2. Accounts(b(k)) /\ DOMAIN b(k) = {i}
    BY <1>1
  <2>3. DOMAIN c(k) = DOMAIN a \cup DOMAIN b(k) /\ c(k) = [j \in DOMAIN c(k) |-> c(k)[j]]
    BY <1>2, <2>2, MergeIs
  <2>4. \A j \in DOMAIN c(k) : c(k)[j] = IF Costs!Used(a, j) >= Costs!Used(b(k), j)
                                          THEN Costs!Used(a, j) ELSE Costs!Used(b(k), j)
    BY <1>2, <2>2, MergeIs, SMTT(30)
  <2> HIDE DEF c
  <2>5. /\ DOMAIN c(k) = DOMAIN a \cup {i} /\ c(k) = [j \in DOMAIN c(k) |-> c(k)[j]]
        /\ \A j \in DOMAIN c(k) : c(k)[j] = IF Costs!Used(a, j) >= Costs!Used(b(k), j)
                                            THEN Costs!Used(a, j) ELSE Costs!Used(b(k), j)
    BY <2>2, <2>3, <2>4
  <2>6. QED
    BY <1>1, <1>2, <2>5
<1> HIDE DEF c
<1>5. c(n)[i] \in 0 .. u /\ c(n)[i] >= n /\ c(n)[i] >= Costs!Used(a, i)
  BY <1>3, <1>4
<1>6. c(n) = Costs!Account(i, c(n)[i])
  BY <1>4 DEF Costs!Account
<1>7. c(n) \in SubAccounts(u)
  BY <1>5, <1>6 DEF SubAccounts, i
<1>8. c(c(n)[i]) = c(n)
  <2> DEFINE k == c(n)[i]
  <2>1. k \in Nat /\ k >= Costs!Used(a, i)
    BY <1>5
  <2> HIDE DEF k
  <2>2. c(k)[i] = k /\ c(k) = [j \in {i} |-> c(k)[i]]
    BY <1>3, <1>4, <2>1
  <2>3. c(k) = [j \in {i} |-> k]
    BY <2>2
  <2>4. c(n) = [j \in {i} |-> k]
    BY <1>4 DEF k
  <2>5. QED
    BY <2>3, <2>4 DEF k
<1>9. QED
  BY <1>4, <1>5, <1>7, <1>8 DEF c, b, i

-----------------------------------------------------------------------------
(* Accounts of what was spent *)
LEMMA FitsMerged ==
  ASSUME NEW a, NEW b, NEW c, NEW u, Fits(a, c, u), Fits(b, c, u)
  PROVE  Fits(Costs!Merge(a, b), c, u)
<1> DEFINE d == Costs!Merge(a, b)
           cap(i) == IF i = Costs!RunId(Sub) THEN u ELSE ShareOf(c, i)
<1>1. Accounts(a) /\ Accounts(b)
  BY DEF Fits, Accounts
<1>2. /\ DOMAIN d = DOMAIN a \cup DOMAIN b /\ Accounts(d)
      /\ \A i \in DOMAIN d : d[i] = IF Costs!Used(a, i) >= Costs!Used(b, i)
                                    THEN Costs!Used(a, i) ELSE Costs!Used(b, i)
  BY <1>1, MergeIs, ZenonT(30)
<1> HIDE DEF d
<1>3. \A i \in DOMAIN d : d[i] <= cap(i)
  <2>1. TAKE i \in DOMAIN d
  <2> DEFINE x == Costs!Used(a, i)
             y == Costs!Used(b, i)
  <2>2. /\ x \in Nat /\ y \in Nat
        /\ (i \in DOMAIN a => x = a[i] /\ a[i] <= cap(i))
        /\ (i \in DOMAIN b => y = b[i] /\ b[i] <= cap(i))
        /\ (i \notin DOMAIN a => x = 0) /\ (i \notin DOMAIN b => y = 0)
    BY <1>1, UsedIs DEF Fits, Costs!Used
  <2>3. d[i] = IF x >= y THEN x ELSE y
    BY <1>2
  <2> HIDE DEF x, y, cap
  <2>4. CASE x >= y
    <3>1. CASE i \in DOMAIN a
      BY <2>2, <2>3, <2>4, <3>1
    <3>2. CASE i \notin DOMAIN a
      <4>1. i \in DOMAIN b /\ x = 0 /\ y = 0 /\ d[i] = y
        BY <1>2, <2>1, <2>2, <2>3, <2>4, <3>2
      <4>2. QED
        BY <2>2, <4>1
    <3>3. QED
      BY <3>1, <3>2
  <2>5. CASE ~(x >= y)
    <3>1. i \in DOMAIN b /\ d[i] = y
      BY <2>2, <2>3, <2>5
    <3>2. QED
      BY <2>2, <3>1
  <2>6. QED
    BY <2>4, <2>5
<1>4. QED
  BY <1>2, <1>3 DEF Fits, d, Accounts

(* More answers, and more used *)
LEMMA FitsLater ==
  ASSUME NEW a, NEW b \in Answered, NEW u \in Nat, Fits(a, b, u),
         NEW c \in Answered, NEW v \in Nat, u <= v,
         DOMAIN b \subseteq DOMAIN c, \A m \in DOMAIN b : c[m] = b[m]
  PROVE  Fits(a, c, v)
<1>1. \A i : ShareOf(b, i) \in Nat /\ ShareOf(c, i) \in Nat /\ ShareOf(b, i) <= ShareOf(c, i)
  <2>1. TAKE i
  <2> DEFINE B == {m \in DOMAIN b : Share(b, m) = i}
             C == {m \in DOMAIN c : Share(c, m) = i}
  <2>2. B \subseteq C
    BY DEF Share
  <2>3. C \subseteq 1 .. Len(c) /\ Len(c) \in Nat
    BY DEF Answered
  <2> HIDE DEF B, C
  <2>4. IsFiniteSet(C) /\ IsFiniteSet(B)
    <3>1. IsFiniteSet(1 .. Len(c))
      BY <2>3, FS_Interval
    <3>2. QED
      BY <2>2, <2>3, <3>1, FS_Subset
  <2>5. Cardinality(B) \in Nat /\ Cardinality(C) \in Nat /\ Cardinality(B) <= Cardinality(C)
    BY <2>2, <2>4, FS_Subset, FS_CardinalityType
  <2>6. QED
    BY <2>5 DEF B, C, ShareOf
<1>2. \A i \in DOMAIN a : a[i] <= IF i = Costs!RunId(Sub) THEN v ELSE ShareOf(c, i)
  <2>1. TAKE i \in DOMAIN a
  <2>2. a[i] \in Nat /\ a[i] <= IF i = Costs!RunId(Sub) THEN u ELSE ShareOf(b, i)
    BY DEF Fits
  <2> HIDE DEF ShareOf
  <2>3. QED
    BY <1>1, <2>2
<1>3. QED
  BY <1>2 DEF Fits

-----------------------------------------------------------------------------
(* What a process spent itself *)

(* The answers that count, in a run and without one *)
Counts(l, b, s, r, k, m) ==
  IF r # Nil THEN b[m].run = r ELSE b[m].session = s \/ (k = 1 /\ m = 1)

LEMMA AnswersAre ==
  ASSUME HistoryInv
  PROVE  /\ Len(by) \in Nat /\ DOMAIN by = 1 .. Len(by) /\ 1 \in DOMAIN by
         /\ by[1].run = Nil /\ by[1].session = Old
         /\ \A m \in DOMAIN by : by[m].session \in Sessions /\ by[m].run \in Runs \cup {Nil}
<1> DEFINE R == [run : Runs \cup {Nil}, session : Sessions]
<1>1. by \in Seq(R) /\ Len(by) \in 1 .. MaxAnswers /\ by[1] = [run |-> Nil, session |-> Old]
  BY DEF HistoryInv, Answered
<1>2. \A m \in R : m.session \in Sessions /\ m.run \in Runs \cup {Nil}
  OBVIOUS
<1> HIDE DEF R
<1>3. Len(by) \in Nat /\ DOMAIN by = 1 .. Len(by) /\ \A m \in DOMAIN by : by[m] \in R
  BY <1>1
<1>4. 1 \in DOMAIN by
  BY <1>1, <1>3, ConversationsAssumption
<1>5. QED
  BY <1>1, <1>2, <1>3, <1>4

(* An answer of a session, and the owner before it *)
LEMMA AnswerOf ==
  ASSUME HistoryInv, NEW s \in Sessions, NEW k \in DOMAIN log[s] \ OwnersIn(log[s])
  PROVE  \E m \in DOMAIN by :
           /\ log[s][k] = Costs!Answer(m) /\ log[s][k].id = Costs!AnswerId(m)
           /\ \/ k = 1 /\ m = 1
              \/ \E j \in OwnersIn(log[s]) :
                   /\ Governs(log[s], j, k)
                   /\ log[s][j].session = by[m].session
                   /\ log[s][j].id = Costs!OwnId(by[m].session, by[m].run)
<1>1. LogFits(log[s], by, sessionOf)
  BY DEF HistoryInv
<1>2. AnswerFits(log[s], k, by) /\ log[s][k] \in LogEntries /\ log[s][k].type = "message"
  BY <1>1, LogOf DEF LogFits
<1>3. PICK m \in DOMAIN by :
        /\ log[s][k].id = Costs!AnswerId(m)
        /\ \/ k = 1 /\ m = 1
           \/ \E j \in OwnersIn(log[s]) : /\ Governs(log[s], j, k)
                                          /\ log[s][j].session = by[m].session
                                          /\ log[s][j].id = Costs!OwnId(by[m].session, by[m].run)
  BY <1>2 DEF AnswerFits
<1>4. log[s][k] = Costs!Answer(m)
  BY <1>2, <1>3 DEF LogEntries, Costs!Answer
<1>5. QED
  BY <1>3, <1>4

LEMMA GovernorIs ==
  ASSUME NEW s \in Sessions, LogFits(log[s], by, sessionOf), NEW k \in DOMAIN log[s],
         NEW j \in OwnersIn(log[s]), Governs(log[s], j, k)
  PROVE  LET before == {i \in Costs!Owners(s) : i < k} IN before # {} /\ Costs!Max(before) = j
<1> DEFINE before == {i \in Costs!Owners(s) : i < k}
<1>1. Costs!Owners(s) = OwnersIn(log[s]) /\ OwnersIn(log[s]) \subseteq 1 .. Len(log[s])
      /\ Len(log[s]) \in Nat
  BY LogOf DEF Costs!Owners, OwnersIn
<1>2. j \in before /\ \A i \in before : i <= j
  BY <1>1 DEF Governs
<1>3. before \subseteq Nat
  BY <1>1
<1> HIDE DEF before
<1>4. \A n \in before : (\A i \in before : n >= i) => n = j
  BY <1>2, <1>3
<1>5. Costs!Max(before) = j
  BY <1>2, <1>3, <1>4 DEF Costs!Max
<1>6. QED
  BY <1>2, <1>5 DEF before

LEMMA OwnIs ==
  ASSUME HistoryInv, ProcessInv, phase # "down"
  PROVE  \E T, D : \E h \in [T -> D] :
           /\ Costs!Own(at, runId) = [i \in D |-> Cardinality({k \in T : h[k] = i})]
           /\ T \subseteq DOMAIN log[at] \ OwnersIn(log[at])
           /\ D \subseteq Costs!Ids /\ Costs!RunId(Sub) \notin D
           /\ \A k \in DOMAIN log[at] \ OwnersIn(log[at]), m \in DOMAIN by :
                log[at][k].id = Costs!AnswerId(m) =>
                  /\ k \in T <=> Counts(log[at], by, at, runId, k, m)
                  /\ k \in T => h[k] = Share(by, m)
<1> DEFINE s == at
           r == runId
           before(k) == {j \in Costs!Owners(s) : j < k}
           counted == {k \in DOMAIN log[s] \ Costs!Owners(s) :
                         IF before(k) = {} THEN r = Nil
                         ELSE Costs!Max(before(k)) \in Costs!Ours(s, r)}
           charged == [k \in counted |->
                         IF before(k) # {} /\ log[s][Costs!Max(before(k))].id[1] = "run"
                         THEN log[s][Costs!Max(before(k))].id ELSE log[s][k].id]
           D == {log[s][k].id : k \in Costs!Ours(s, r)} \cup {charged[k] : k \in counted}
                  \cup {Costs!OwnId(s, r)}
<1>1. Costs!Own(at, runId) = [i \in D |-> Costs!Cardinality({k \in counted : charged[k] = i})]
  BY DEF Costs!Own
<1>2. Costs!Own(at, runId) = [i \in D |-> Cardinality({k \in counted : charged[k] = i})]
  <2> HIDE DEF D, counted, charged
  <2>1. QED
    BY <1>1, CardIs
<1>3. charged \in [counted -> D]
  <2>1. \A k \in counted : charged[k] \in D
    OBVIOUS
  <2>2. charged = [k \in counted |-> charged[k]]
    OBVIOUS
  <2> HIDE DEF counted, charged, D
  <2>3. QED
    BY <2>1, <2>2
<1>4. /\ s \in Sessions /\ r \in Runs \cup {Nil} /\ LogFits(log[s], by, sessionOf)
      /\ r # Nil => sessionOf[r] = s
  BY DEF HistoryInv, ProcessInv
<1>5. Costs!Owners(s) = OwnersIn(log[s]) /\ Costs!Ours(s, r) \subseteq OwnersIn(log[s])
  BY DEF Costs!Owners, Costs!Ours, OwnersIn
<1>6. ASSUME NEW k \in DOMAIN log[s] \ OwnersIn(log[s]), NEW m \in DOMAIN by,
             log[s][k].id = Costs!AnswerId(m)
      PROVE  /\ k \in counted <=> Counts(log[s], by, s, r, k, m)
             /\ k \in counted => charged[k] = Share(by, m)
  <2>1. PICK o \in DOMAIN by :
          /\ log[s][k] = Costs!Answer(o) /\ log[s][k].id = Costs!AnswerId(o)
          /\ \/ k = 1 /\ o = 1
             \/ \E j \in OwnersIn(log[s]) :
                  /\ Governs(log[s], j, k)
                  /\ log[s][j].session = by[o].session
                  /\ log[s][j].id = Costs!OwnId(by[o].session, by[o].run)
    BY <1>4, <1>6, AnswerOf
  <2>2. o = m
    BY <1>6, <2>1, IdsDiffer
  <2>3. by[m].session \in Sessions /\ by[m].run \in Runs \cup {Nil}
        /\ by[1].run = Nil
    BY AnswersAre
  <2>4. k \in DOMAIN log[s] \ Costs!Owners(s)
    BY <1>5
  <2>5. CASE k = 1 /\ m = 1
    <3>1. before(k) = {}
      <4>1. OwnersIn(log[s]) \subseteq 1 .. Len(log[s]) /\ Len(log[s]) \in Nat
        BY <1>4, LogOf
      <4>2. QED
        BY <1>5, <2>5, <4>1
    <3>2. k \in counted <=> r = Nil
      BY <2>4, <3>1
    <3>3. k \in counted => charged[k] = log[s][k].id
      BY <3>1
    <3>4. Counts(log[s], by, s, r, k, m) <=> r = Nil
      BY <2>3, <2>5 DEF Counts
    <3>5. Share(by, m) = log[s][k].id
      BY <1>6, <2>3, <2>5 DEF Share
    <3> HIDE DEF counted, charged
    <3>6. QED
      BY <3>2, <3>3, <3>4, <3>5
  <2>6. CASE ~(k = 1 /\ m = 1)
    <3>1. PICK j \in OwnersIn(log[s]) :
            /\ Governs(log[s], j, k)
            /\ log[s][j].session = by[m].session
            /\ log[s][j].id = Costs!OwnId(by[m].session, by[m].run)
      BY <2>1, <2>2, <2>6
    <3>2. before(k) # {} /\ Costs!Max(before(k)) = j
      BY <1>4, <3>1, GovernorIs
    <3>3. k \in counted <=> j \in Costs!Ours(s, r)
      BY <2>4, <3>2
    <3>4. k \in counted => charged[k] = IF log[s][j].id[1] = "run" THEN log[s][j].id
                                        ELSE log[s][k].id
      BY <3>2
    <3> HIDE DEF counted, charged
    <3>5. j \in Costs!Ours(s, r) <=> /\ by[m].session = s
                                     /\ r # Nil => log[s][j].id = Costs!RunId(r)
      BY <1>5, <3>1 DEF Costs!Ours
    <3>6. by[m].run # Nil => sessionOf[by[m].run] = by[m].session
      BY DEF HistoryInv
    <3>7. CASE by[m].run = Nil
      <4>1. log[s][j].id = Costs!SessionId(by[m].session)
        BY <3>1, <3>7 DEF Costs!OwnId
      <4>2. log[s][j].id[1] # "run" /\ (r # Nil => log[s][j].id # Costs!RunId(r))
        BY <4>1, IdsDiffer
      <4>3. Share(by, m) = log[s][k].id
        BY <1>6, <3>7 DEF Share
      <4>4. j \in Costs!Ours(s, r) <=> Counts(log[s], by, s, r, k, m)
        BY <2>6, <3>5, <3>7, <4>2 DEF Counts
      <4>5. QED
        BY <3>3, <3>4, <4>2, <4>3, <4>4
    <3>8. CASE by[m].run # Nil
      <4>1. log[s][j].id = Costs!RunId(by[m].run)
        BY <3>1, <3>8 DEF Costs!OwnId
      <4>2. log[s][j].id[1] = "run" /\ (log[s][j].id = Costs!RunId(r) <=> by[m].run = r)
        BY <4>1, IdsDiffer
      <4>3. Share(by, m) = log[s][j].id
        BY <3>8, <4>1 DEF Share
      <4>4. j \in Costs!Ours(s, r) <=> Counts(log[s], by, s, r, k, m)
        BY <1>4, <2>6, <3>5, <3>6, <4>2 DEF Counts
      <4>5. QED
        BY <3>3, <3>4, <4>2, <4>3, <4>4
    <3>9. QED
      BY <3>7, <3>8
  <2>7. QED
    BY <2>5, <2>6
<1>7. counted \subseteq DOMAIN log[s] \ OwnersIn(log[s])
  BY <1>5
<1>8. D \subseteq OwnerIds \cup {Costs!AnswerId(m) : m \in DOMAIN by}
  <2>1. \A k \in Costs!Ours(s, r) : log[s][k].id \in OwnerIds
    BY <1>4, <1>5, LogOf
  <2>2. Costs!OwnId(s, r) \in OwnerIds
    BY <1>4 DEF Costs!OwnId, OwnerIds
  <2>3. \A k \in counted : charged[k] \in OwnerIds \cup {Costs!AnswerId(m) : m \in DOMAIN by}
    <3>1. TAKE k \in counted
    <3>2. k \in DOMAIN log[s] \ OwnersIn(log[s])
      BY <1>7
    <3>3. PICK m \in DOMAIN by : log[s][k].id = Costs!AnswerId(m)
      BY <1>4, <3>2, AnswerOf
    <3>4. charged[k] = Share(by, m)
      BY <1>6, <3>2, <3>3
    <3>5. by[m].run \in Runs \cup {Nil}
      BY AnswersAre
    <3> HIDE DEF charged
    <3>6. QED
      BY <3>4, <3>5 DEF Share, OwnerIds
  <2> HIDE DEF counted, charged
  <2>4. QED
    BY <2>1, <2>2, <2>3
<1>9. D \subseteq Costs!Ids /\ Costs!RunId(Sub) \notin D
  <2>1. DOMAIN by \subseteq 1 .. MaxAnswers
    BY ConversationsAssumption DEF HistoryInv, Answered
  <2>2. OwnerIds \cup {Costs!AnswerId(m) : m \in DOMAIN by} \subseteq Costs!Ids
    BY <2>1 DEF OwnerIds, Costs!Ids
  <2>3. Costs!RunId(Sub) \notin OwnerIds \cup {Costs!AnswerId(m) : m \in DOMAIN by}
    BY IdsDiffer, ConversationsAssumption DEF OwnerIds
  <2> HIDE DEF D
  <2>4. QED
    BY <1>8, <2>2, <2>3
<1> HIDE DEF counted, charged, D
<1>10. QED
  BY <1>2, <1>3, <1>6, <1>7, <1>9

LEMMA ReportFits ==
  ASSUME CostInv, phase # "down"
  PROVE  Fits(Costs!Report, by, used)
<1> DEFINE own == Costs!Own(at, runId)
           mine == ledgers[ledger].accounts
<1>1. PICK T, D : \E h \in [T -> D] :
        /\ own = [i \in D |-> Cardinality({k \in T : h[k] = i})]
        /\ T \subseteq DOMAIN log[at] \ OwnersIn(log[at])
        /\ D \subseteq Costs!Ids /\ Costs!RunId(Sub) \notin D
        /\ \A k \in DOMAIN log[at] \ OwnersIn(log[at]), m \in DOMAIN by :
             log[at][k].id = Costs!AnswerId(m) =>
               /\ k \in T <=> Counts(log[at], by, at, runId, k, m)
               /\ k \in T => h[k] = Share(by, m)
  BY OwnIs DEF CostInv
<1>2. PICK h \in [T -> D] :
        /\ own = [i \in D |-> Cardinality({k \in T : h[k] = i})]
        /\ T \subseteq DOMAIN log[at] \ OwnersIn(log[at])
        /\ D \subseteq Costs!Ids /\ Costs!RunId(Sub) \notin D
        /\ \A k \in DOMAIN log[at] \ OwnersIn(log[at]), m \in DOMAIN by :
             log[at][k].id = Costs!AnswerId(m) =>
               /\ k \in T <=> Counts(log[at], by, at, runId, k, m)
               /\ k \in T => h[k] = Share(by, m)
  BY <1>1
<1>3. at \in Sessions /\ LogFits(log[at], by, sessionOf) /\ HistoryInv
  BY DEF CostInv, HistoryInv, ProcessInv
<1>4. Len(log[at]) \in Nat /\ DOMAIN log[at] = 1 .. Len(log[at])
  BY <1>3, LogOf
<1>5. Len(by) \in Nat /\ DOMAIN by = 1 .. Len(by)
  BY <1>3, AnswersAre
<1> HIDE DEF own
<1>6. ASSUME NEW i \in D
      PROVE  own[i] \in Nat /\ own[i] <= ShareOf(by, i)
  <2> DEFINE A == {k \in T : h[k] = i}
             B == {m \in DOMAIN by : Share(by, m) = i}
             num == [k \in A |-> CHOOSE m \in DOMAIN by : log[at][k].id = Costs!AnswerId(m)]
  <2>1. A \subseteq 1 .. Len(log[at]) /\ B \subseteq 1 .. Len(by)
    BY <1>2, <1>4, <1>5
  <2>2. IsFiniteSet(A) /\ IsFiniteSet(B) /\ Cardinality(A) \in Nat
    <3> HIDE DEF A, B
    <3>1. \A n \in Nat : IsFiniteSet(1 .. n)
      BY FS_Interval
    <3>2. IsFiniteSet(1 .. Len(log[at])) /\ IsFiniteSet(1 .. Len(by))
      BY <1>4, <1>5, <3>1
    <3>3. QED
      BY <2>1, <3>2, FS_Subset, FS_CardinalityType
  <2>3. \A k \in A : num[k] \in B /\ log[at][k].id = Costs!AnswerId(num[k])
    <3>1. TAKE k \in A
    <3>2. k \in DOMAIN log[at] \ OwnersIn(log[at]) /\ k \in T /\ h[k] = i
      BY <1>2
    <3>3. \E m \in DOMAIN by : log[at][k].id = Costs!AnswerId(m)
      BY <1>3, <3>2, AnswerOf
    <3>4. num[k] \in DOMAIN by /\ log[at][k].id = Costs!AnswerId(num[k])
      BY <3>3
    <3> HIDE DEF num
    <3>5. Share(by, num[k]) = i
      BY <1>2, <3>2, <3>4
    <3>6. QED
      BY <3>4, <3>5
  <2>4. \A j, k \in A : num[j] = num[k] => j = k
    <3>1. SUFFICES ASSUME NEW j \in A, NEW k \in A, num[j] = num[k] PROVE j = k
      OBVIOUS
    <3>2. log[at][j].id = log[at][k].id
      BY <2>3, <3>1
    <3>3. j \in DOMAIN log[at] \ OwnersIn(log[at]) /\ k \in DOMAIN log[at] \ OwnersIn(log[at])
      BY <1>2
    <3> HIDE DEF A, num
    <3>4. QED
      BY <1>3, <3>2, <3>3 DEF LogFits
  <2>5. num \in [A -> B]
    <3>1. num = [k \in A |-> num[k]]
      OBVIOUS
    <3> HIDE DEF num, A, B
    <3>2. QED
      BY <2>3, <3>1
  <2> HIDE DEF num, A, B
  <2>6. num \in Injection(A, B)
    BY <2>4, <2>5 DEF Injection, IsInjective
  <2>7. Cardinality(A) <= Cardinality(B)
    BY <2>2, <2>6, FS_Injection
  <2>8. own[i] = Cardinality(A)
    BY <1>2 DEF A
  <2>9. QED
    BY <2>2, <2>7, <2>8 DEF B, ShareOf
<1>7. Fits(own, by, used)
  <2>1. DOMAIN own = D
    BY <1>2
  <2>2. QED
    BY <1>2, <1>6, <2>1 DEF Fits
<1>8. Fits(mine, by, used)
  <2>1. /\ used \in Nat /\ ledger # 0 /\ ledger \in 0 .. Len(ledgers)
        /\ ledgers \in Seq(LedgerRecords(used))
    BY DEF CostInv, LedgersInv, SubagentInv
  <2>2. ledgers[ledger] \in LedgerRecords(used)
    BY <2>1
  <2>3. mine \in SubAccounts(used)
    BY <2>2 DEF LedgerRecords
  <2> HIDE DEF mine
  <2>4. /\ Accounts(mine) /\ DOMAIN mine \subseteq {Costs!RunId(Sub)}
        /\ \A i \in DOMAIN mine : mine[i] <= used
    BY <2>1, <2>3, SubAccountsAre
  <2>5. Costs!RunId(Sub) \in Costs!Ids
    BY DEF Costs!Ids
  <2>6. QED
    BY <2>4, <2>5 DEF Fits, Accounts
<1> HIDE DEF mine
<1>9. QED
  BY <1>7, <1>8, FitsMerged DEF Costs!Report, own, mine

(* Nothing is counted above that was not spent, or twice *)
LEMMA CountedOnceHolds ==
  ASSUME CostInv
  PROVE  Costs!CountedOnce
<1> DEFINE i == Costs!RunId(Sub)
           D == Costs!Ids \ {i}
           h == [m \in DOMAIN by |-> Share(by, m)]
           a == [j \in D |-> Cardinality({m \in DOMAIN by : h[m] = j})]
           S == {i} \X (1 .. used)
           U == Costs!Units(up)
           A == Costs!Units(a)
<1>1. Len(by) \in Nat /\ DOMAIN by = 1 .. Len(by) /\ Len(by) \in 1 .. MaxAnswers
      /\ \A m \in DOMAIN by : by[m].run \in Runs \cup {Nil}
  BY AnswersAre DEF CostInv, HistoryInv
<1>2. used \in Nat /\ Fits(up, by, used)
  BY DEF CostInv, SubagentInv, ReportsInv
<1>3. h \in [DOMAIN by -> D]
  <2>1. ASSUME NEW m \in DOMAIN by PROVE Share(by, m) \in D
    <3>1. m \in 1 .. MaxAnswers
      BY <1>1, ConversationsAssumption
    <3>2. CASE by[m].run = Nil
      BY <3>1, <3>2, IdsDiffer DEF Share, Costs!Ids
    <3>3. CASE by[m].run # Nil
      <4>1. by[m].run \in Runs /\ Share(by, m) = Costs!RunId(by[m].run)
        BY <1>1, <3>3 DEF Share
      <4>2. Costs!RunId(by[m].run) \in Costs!Ids
        BY <4>1 DEF Costs!Ids
      <4>3. by[m].run # Sub
        BY <4>1, ConversationsAssumption
      <4>4. Costs!RunId(by[m].run) # i
        BY <4>3, IdsDiffer
      <4>5. QED
        BY <4>1, <4>2, <4>4
    <3>4. QED
      BY <3>2, <3>3
  <2>2. QED
    BY <2>1
<1>4. IsFiniteSet(DOMAIN by) /\ Cardinality(DOMAIN by) = Len(by)
  BY <1>1, FS_Interval
<1>5. IsFiniteSet(A) /\ Cardinality(A) = Len(by)
  <2> DEFINE T == DOMAIN by
  <2>1. a = [j \in D |-> Cardinality({m \in T : h[m] = j})] /\ h \in [T -> D]
        /\ IsFiniteSet(T) /\ Cardinality(T) = Len(by)
    BY <1>3, <1>4
  <2> HIDE DEF a, h, D, T
  <2>2. QED
    BY <2>1, UnitsOfMarks
<1>6. IsFiniteSet(S) /\ Cardinality(S) = used
  <2>1. IsFiniteSet(1 .. used) /\ Cardinality(1 .. used) = used
    BY <1>2, FS_Interval
  <2>2. IsFiniteSet({i}) /\ Cardinality({i}) = 1
    BY FS_Singleton
  <2>3. IsFiniteSet({i} \X (1 .. used)) /\ Cardinality({i} \X (1 .. used)) = 1 * used
    <3> HIDE DEF i
    <3>1. QED
      BY <2>1, <2>2, FS_Product, ZenonT(30)
  <2>4. QED
    BY <1>2, <2>3
<1>7. U \subseteq A \cup S
  <2>1. SUFFICES ASSUME NEW j \in DOMAIN up, NEW n \in 1 .. up[j]
                 PROVE  <<j, n>> \in A \cup S
    BY DEF Costs!Units
  <2>2. /\ j \in Costs!Ids /\ up[j] \in Nat
        /\ up[j] <= IF j = i THEN used ELSE ShareOf(by, j)
    BY <1>2 DEF Fits
  <2>3. CASE j = i
    BY <1>2, <2>2, <2>3
  <2>4. CASE j # i
    <3>1. j \in D /\ a[j] = ShareOf(by, j)
      BY <2>2, <2>4 DEF ShareOf
    <3>2. DOMAIN a = D
      OBVIOUS
    <3>3. a[j] \in Nat
      <4> DEFINE M == {m \in DOMAIN by : Share(by, m) = j}
      <4>1. M \subseteq DOMAIN by /\ ShareOf(by, j) = Cardinality(M)
        BY DEF ShareOf
      <4> HIDE DEF M, a
      <4>2. QED
        BY <1>4, <3>1, <4>1, FS_Subset, FS_CardinalityType
    <3> HIDE DEF a, D
    <3>4. n \in 1 .. a[j]
      BY <2>2, <2>4, <3>1, <3>3
    <3>5. <<j, n>> \in A
      BY <3>1, <3>2, <3>4 DEF Costs!Units
    <3>6. QED
      BY <3>5
  <2>5. QED
    BY <2>3, <2>4
<1> HIDE DEF U, A, S
<1>8. /\ IsFiniteSet(A \cup S) /\ Cardinality(A \cup S) <= Len(by) + used
      /\ Cardinality(A \cup S) \in Nat
  <2>1. /\ IsFiniteSet(A \cup S) /\ IsFiniteSet(A \cap S)
        /\ Cardinality(A \cup S) = Cardinality(A) + Cardinality(S) - Cardinality(A \cap S)
    BY <1>5, <1>6, FS_Union, FS_Intersection
  <2>2. Cardinality(A \cap S) \in Nat /\ Cardinality(A \cup S) \in Nat
    BY <2>1, FS_CardinalityType
  <2>3. QED
    BY <1>1, <1>2, <1>5, <1>6, <2>1, <2>2
<1>9. IsFiniteSet(U) /\ Cardinality(U) <= Cardinality(A \cup S) /\ Cardinality(U) \in Nat
  BY <1>7, <1>8, FS_Subset, FS_CardinalityType
<1>10. Cardinality(U) <= Len(by) + used
  BY <1>1, <1>2, <1>8, <1>9
<1>11. Costs!Total(up) = Cardinality(U)
  BY CardIs DEF Costs!Total, U
<1>12. QED
  BY <1>10, <1>11 DEF Costs!CountedOnce

(* A run counts what was spent in it, and an agent without one what its session spent *)
LEMMA CountsItsOwnHolds ==
  ASSUME CostInv
  PROVE  Costs!CountsItsOwn
<1> DEFINE l == log[at]
           Q == DOMAIN l \ OwnersIn(l)
           mine == IF runId # Nil THEN {m \in DOMAIN by : by[m].run = runId}
                   ELSE {m \in DOMAIN by : \/ by[m].session = at
                                           \/ m = 1 /\ log[at][1] = Costs!Answer(1)}
           own == Costs!Own(at, runId)
<1>1. SUFFICES ASSUME phase = "up"
               PROVE  Cardinality(Costs!Units(own)) = Cardinality(mine)
  BY CardIs DEF Costs!CountsItsOwn, Costs!Total
<1>2. PICK T, D : \E h \in [T -> D] :
        /\ own = [i \in D |-> Cardinality({k \in T : h[k] = i})]
        /\ T \subseteq Q
        /\ D \subseteq Costs!Ids /\ Costs!RunId(Sub) \notin D
        /\ \A k \in Q, m \in DOMAIN by :
             l[k].id = Costs!AnswerId(m) =>
               /\ k \in T <=> Counts(l, by, at, runId, k, m)
               /\ k \in T => h[k] = Share(by, m)
  BY <1>1, OwnIs DEF CostInv
<1>3. PICK h \in [T -> D] :
        /\ own = [i \in D |-> Cardinality({k \in T : h[k] = i})]
        /\ T \subseteq Q
        /\ D \subseteq Costs!Ids /\ Costs!RunId(Sub) \notin D
        /\ \A k \in Q, m \in DOMAIN by :
             l[k].id = Costs!AnswerId(m) =>
               /\ k \in T <=> Counts(l, by, at, runId, k, m)
               /\ k \in T => h[k] = Share(by, m)
  BY <1>2
<1>4. /\ at \in Sessions /\ LogFits(l, by, sessionOf) /\ HistoryInv
      /\ runId # Nil => sessionOf[runId] = at
      /\ runId \in Runs \cup {Nil}
  BY <1>1 DEF CostInv, HistoryInv, ProcessInv
<1>5. Len(l) \in Nat /\ DOMAIN l = 1 .. Len(l)
  BY <1>4, LogOf
<1>6. IsFiniteSet(T)
  <2>1. IsFiniteSet(1 .. Len(l)) /\ T \subseteq 1 .. Len(l)
    BY <1>3, <1>5, FS_Interval
  <2>2. QED
    BY <2>1, FS_Subset
<1> HIDE DEF own
<1>7. Cardinality(Costs!Units(own)) = Cardinality(T)
  BY <1>3, <1>6, UnitsOfMarks
<1> DEFINE num == [k \in T |-> CHOOSE m \in DOMAIN by : l[k].id = Costs!AnswerId(m)]
<1>8. \A k \in T : num[k] \in DOMAIN by /\ l[k].id = Costs!AnswerId(num[k])
  <2>1. TAKE k \in T
  <2>2. \E m \in DOMAIN by : l[k].id = Costs!AnswerId(m)
    BY <1>3, <1>4, AnswerOf
  <2>3. QED
    BY <2>2
<1>9. ASSUME NEW k \in Q, NEW m \in DOMAIN by, l[k].id = Costs!AnswerId(m)
      PROVE  l[k] = Costs!Answer(m)
  <2>1. PICK o \in DOMAIN by : l[k] = Costs!Answer(o) /\ l[k].id = Costs!AnswerId(o)
    BY <1>4, AnswerOf
  <2>2. QED
    BY <1>9, <2>1, IdsDiffer
<1>10. num \in [T -> mine]
  <2>1. ASSUME NEW k \in T PROVE num[k] \in mine
    <3>1. k \in Q /\ num[k] \in DOMAIN by /\ l[k].id = Costs!AnswerId(num[k])
      BY <1>3, <1>8
    <3> HIDE DEF num
    <3>2. Counts(l, by, at, runId, k, num[k])
      BY <1>3, <3>1
    <3>3. l[k] = Costs!Answer(num[k])
      BY <1>9, <3>1
    <3>4. CASE runId # Nil
      BY <3>1, <3>2, <3>4 DEF Counts
    <3>5. CASE runId = Nil
      BY <3>1, <3>2, <3>3, <3>5 DEF Counts
    <3>6. QED
      BY <3>4, <3>5
  <2>2. num = [k \in T |-> num[k]]
    OBVIOUS
  <2> HIDE DEF num, mine
  <2>3. QED
    BY <2>1, <2>2
<1>11. \A j, k \in T : num[j] = num[k] => j = k
  <2>1. SUFFICES ASSUME NEW j \in T, NEW k \in T, num[j] = num[k] PROVE j = k
    OBVIOUS
  <2> HIDE DEF num
  <2>2. l[j].id = l[k].id /\ j \in Q /\ k \in Q
    BY <1>3, <1>8, <2>1
  <2>3. QED
    BY <1>4, <2>2 DEF LogFits
<1>12. \A m \in mine : \E k \in T : num[k] = m
  <2>1. TAKE m \in mine
  <2>2. m \in DOMAIN by
    OBVIOUS
  <2>3. \E k \in Q : l[k].id = Costs!AnswerId(m) /\ Counts(l, by, at, runId, k, m)
    <3>1. ASSUME NEW k \in DOMAIN l, l[k] = Costs!Answer(m)
          PROVE  k \in Q /\ l[k].id = Costs!AnswerId(m)
      BY <3>1 DEF Costs!Answer, OwnersIn
    <3>2. CASE by[m].session = at
      <4>1. PICK k \in DOMAIN l : l[k] = Costs!Answer(m)
        BY <1>4, <2>2, <3>2 DEF HistoryInv
      <4>2. Counts(l, by, at, runId, k, m)
        BY <2>1, <3>2 DEF Counts
      <4>3. QED
        BY <3>1, <4>1, <4>2
    <3>3. CASE by[m].session # at /\ runId = Nil
      <4>1. m = 1 /\ l[1] = Costs!Answer(1)
        BY <2>1, <3>3
      <4>2. 1 \in DOMAIN l
        <5>1. PICK j \in OwnersIn(l) : Governs(l, j, Len(l) + 1)
          BY <1>1, <1>4 DEF CostInv, ProcessInv
        <5>2. QED
          BY <1>5, <5>1 DEF OwnersIn
      <4>3. Counts(l, by, at, runId, 1, m)
        BY <3>3, <4>1 DEF Counts
      <4>4. QED
        BY <3>1, <4>1, <4>2, <4>3
    <3>4. CASE by[m].session # at /\ runId # Nil
      <4>1. by[m].run = runId
        BY <2>1, <3>4
      <4>2. sessionOf[runId] = by[m].session
        BY <1>4, <2>2, <3>4, <4>1 DEF HistoryInv
      <4>3. QED
        BY <1>4, <3>4, <4>2
    <3>5. QED
      BY <3>2, <3>3, <3>4
  <2>4. PICK k \in Q : l[k].id = Costs!AnswerId(m) /\ Counts(l, by, at, runId, k, m)
    BY <2>3
  <2>5. k \in T
    BY <1>3, <2>2, <2>4
  <2>6. num[k] = m
    <3>1. l[k].id = Costs!AnswerId(num[k])
      BY <1>8, <2>5
    <3> HIDE DEF num
    <3>2. QED
      BY <2>4, <3>1, IdsDiffer
  <2>7. QED
    BY <2>5, <2>6
<1> HIDE DEF num, mine
<1>13. num \in Injection(T, mine) /\ num \in Surjection(T, mine)
  BY <1>10, <1>11, <1>12 DEF Injection, IsInjective, Surjection
<1>14. Cardinality(T) = Cardinality(mine)
  BY <1>6, <1>13, FS_Surjection
<1>15. QED
  BY <1>7, <1>14

-----------------------------------------------------------------------------
(* The steps *)
Quietly(why, report, n) ==
  \/ Costs!Shutdown(why) \/ Costs!Tick \/ Costs!TimesOut \/ Costs!LastFlush \/ Costs!Unbind
  \/ Costs!Exit \/ Costs!Crash \/ Costs!Deliver(report) \/ Costs!Spawn \/ Costs!Uses
  \/ Costs!SubFlush \/ Costs!SubTimesOut \/ Costs!Observe(n) \/ Costs!Receive(n)
  \/ Costs!Refuse(n)

LEMMA StepsAre ==
  ASSUME Costs!Next
  PROVE  \/ \E s \in Sessions, r \in Runs \cup {Nil} : Costs!SessionStart(s, r)
         \/ \E s, t \in Sessions : Costs!Fork(s, t)
         \/ Costs!Answers
         \/ \E why \in {"reload", "other"} : Costs!Shutdown(why)
         \/ Costs!Tick \/ Costs!TimesOut \/ Costs!LastFlush \/ Costs!Unbind
         \/ Costs!Exit \/ Costs!Crash
         \/ \E report \in mail : Costs!Deliver(report)
         \/ Costs!Spawn \/ Costs!Uses \/ Costs!SubFlush \/ Costs!SubTimesOut
         \/ \E n \in 0 .. MaxUsed : Costs!Observe(n) \/ Costs!Receive(n) \/ Costs!Refuse(n)
  BY DEF Costs!Next

LEMMA QuietSteps ==
  ASSUME NEW why, NEW report, NEW n, Quietly(why, report, n)
  PROVE  UNCHANGED <<log, by, sessionOf>>
<1>1. CASE Costs!Shutdown(why) \/ Costs!Tick \/ Costs!LastFlush \/ Costs!Unbind
           \/ Costs!Deliver(report)
  BY <1>1 DEF Costs!Shutdown, Costs!Tick, Costs!LastFlush, Costs!Unbind, Costs!Deliver,
              Costs!diskVars, Costs!countVars
<1>2. CASE Costs!Exit \/ Costs!Crash
  BY <1>2 DEF Costs!Exit, Costs!Crash, Costs!Down, Costs!diskVars
<1>3. CASE Costs!Spawn \/ Costs!Uses \/ Costs!SubFlush \/ Costs!SubTimesOut \/ Costs!TimesOut
  BY <1>3 DEF Costs!Spawn, Costs!Uses, Costs!SubFlush, Costs!SubTimesOut, Costs!TimesOut,
              Costs!diskVars, Costs!countVars
<1>4. CASE Costs!Observe(n) \/ Costs!Receive(n) \/ Costs!Refuse(n)
  BY <1>4 DEF Costs!Observe, Costs!Receive, Costs!Refuse, Costs!diskVars, Costs!countVars
<1>5. QED
  BY <1>1, <1>2, <1>3, <1>4 DEF Quietly

(* Whoever opens a session is its last owner *)
LEMMA OwnedIs ==
  ASSUME HistoryInv, NEW s \in Sessions, NEW r \in Runs \cup {Nil}, NEW of,
         LogFits(log[s], by, of), \A q \in Runs : of[q] \in Sessions \cup {Nil},
         r # Nil => of[r] = s
  PROVE  LET new == Costs!Owned(s, r)
         IN /\ DOMAIN new = Sessions /\ \A t \in Sessions \ {s} : new[t] = log[t]
            /\ LogFits(new[s], by, of)
            /\ \A k \in DOMAIN log[s] : k \in DOMAIN new[s] /\ new[s][k] = log[s][k]
            /\ \E j \in OwnersIn(new[s]) : /\ Governs(new[s], j, Len(new[s]) + 1)
                                           /\ new[s][j].session = s
                                           /\ new[s][j].id = Costs!OwnId(s, r)
<1> DEFINE new == Costs!Owned(s, r)
           i == Costs!OwnId(s, r)
           l == log[s]
<1>1. DOMAIN log = Sessions
  BY DEF HistoryInv
<1>2. /\ i \in OwnerIds
      /\ \/ \E q \in Runs : i = Costs!RunId(q) /\ s = of[q]
         \/ i = Costs!SessionId(s)
      /\ r # Nil => i = Costs!RunId(r)
      /\ r = Nil => i = Costs!SessionId(s)
  BY DEF Costs!OwnId, OwnerIds
<1> HIDE DEF i
<1>3. /\ Costs!Owners(s) = OwnersIn(l) /\ OwnersIn(l) \subseteq 1 .. Len(l) /\ Len(l) \in Nat
      /\ DOMAIN l = 1 .. Len(l)
  BY LogOf DEF Costs!Owners, OwnersIn
<1>4. CASE Costs!Owners(s) # {} /\ l[Costs!Max(Costs!Owners(s))].id = i
  <2> DEFINE j == Costs!Max(Costs!Owners(s))
  <2>1. j \in OwnersIn(l) /\ \A k \in OwnersIn(l) : k <= j
    <3>1. \E k \in OwnersIn(l) : \A o \in OwnersIn(l) : k >= o
      <4>1. \A k \in OwnersIn(l) : k \in Int /\ k <= Len(l)
        BY <1>3
      <4>2. QED
        BY <1>3, <1>4, <4>1, LargestOf
    <3>2. j \in OwnersIn(l) /\ \A k \in OwnersIn(l) : j >= k
      BY <1>3, <3>1 DEF Costs!Max
    <3>3. QED
      BY <1>3, <3>2
  <2> HIDE DEF j
  <2>2. Governs(l, j, Len(l) + 1)
    BY <1>3, <2>1 DEF Governs
  <2>3. l[j].id = i
    BY <1>4 DEF j
  <2>4. l[j].session = s
    <3>1. OwnerFits(l, j, of)
      BY <2>1 DEF LogFits
    <3>2. CASE r = Nil
      BY <1>2, <2>3, <3>1, <3>2, IdsDiffer DEF OwnerFits
    <3>3. CASE r # Nil
      BY <1>2, <2>3, <3>1, <3>3, IdsDiffer DEF OwnerFits
    <3>4. QED
      BY <3>2, <3>3
  <2>5. new = log
    BY <1>4 DEF Costs!Owned, i
  <2>6. QED
    BY <1>1, <2>1, <2>2, <2>3, <2>4, <2>5 DEF i
<1>5. CASE ~(Costs!Owners(s) # {} /\ l[Costs!Max(Costs!Owners(s))].id = i)
  <2> DEFINE d == Append(l, Costs!Owner(i, s))
             end == Len(l) + 1
  <2>1. new = [log EXCEPT ![s] = d]
    BY <1>5 DEF Costs!Owned, i
  <2>2. /\ LogFits(d, by, of) /\ end \in OwnersIn(d) /\ Governs(d, end, Len(d) + 1)
        /\ d[end].id = i /\ d[end].session = s
        /\ \A k \in DOMAIN l : k \in DOMAIN d /\ d[k] = l[k]
    BY <1>2, OwnerAppended
  <2> HIDE DEF d, end
  <2>3. DOMAIN new = Sessions /\ new[s] = d /\ \A t \in Sessions \ {s} : new[t] = log[t]
    BY <1>1, <2>1
  <2> HIDE DEF new
  <2>4. QED
    BY <2>2, <2>3 DEF i, new
<1>6. QED
  BY <1>4, <1>5

LEMMA HistorySame ==
  ASSUME HistoryInv, UNCHANGED <<log, by, sessionOf>>
  PROVE  HistoryInv'
  BY DEF HistoryInv

LEMMA HistoryStart ==
  ASSUME HistoryInv, NEW s \in Sessions, NEW r \in Runs \cup {Nil}, Costs!SessionStart(s, r)
  PROVE  /\ HistoryInv' /\ by' = by
         /\ \A q \in Runs : sessionOf[q] # Nil => sessionOf'[q] = sessionOf[q]
         /\ r # Nil => sessionOf'[r] = s
         /\ \A t \in Sessions : log'[t] = <<>> => log[t] = <<>>
         /\ \E j \in OwnersIn(log'[s]) : /\ Governs(log'[s], j, Len(log'[s]) + 1)
                                         /\ log'[s][j].session = s
                                         /\ log'[s][j].id = Costs!OwnId(s, r)
<1>1. /\ r # Nil => sessionOf[r] \in {Nil, s}
      /\ log' = Costs!Owned(s, r) /\ by' = by
      /\ sessionOf' = IF r = Nil THEN sessionOf ELSE [sessionOf EXCEPT ![r] = s]
  BY DEF Costs!SessionStart
<1>2. /\ DOMAIN sessionOf = Runs /\ \A q \in Runs : sessionOf[q] \in Sessions \cup {Nil}
      /\ by \in Answered /\ Len(by) \in 1 .. MaxAnswers /\ by[1] = [run |-> Nil, session |-> Old]
      /\ \A t \in Sessions : LogFits(log[t], by, sessionOf)
  BY DEF HistoryInv
<1>3. /\ DOMAIN sessionOf' = Runs /\ \A q \in Runs : sessionOf'[q] \in Sessions \cup {Nil}
      /\ \A q \in Runs : sessionOf[q] # Nil => sessionOf'[q] = sessionOf[q]
      /\ r # Nil => sessionOf'[r] = s
  BY <1>1, <1>2
<1>4. \A t \in Sessions : LogFits(log[t], by, sessionOf')
  BY <1>2, <1>3, LogStays
<1>5. /\ DOMAIN log' = Sessions /\ \A t \in Sessions \ {s} : log'[t] = log[t]
      /\ LogFits(log'[s], by, sessionOf')
      /\ \A k \in DOMAIN log[s] : k \in DOMAIN log'[s] /\ log'[s][k] = log[s][k]
      /\ \E j \in OwnersIn(log'[s]) : /\ Governs(log'[s], j, Len(log'[s]) + 1)
                                      /\ log'[s][j].session = s
                                      /\ log'[s][j].id = Costs!OwnId(s, r)
  <2> DEFINE of == sessionOf'
             new == Costs!Owned(s, r)
  <2>1. /\ LogFits(log[s], by, of) /\ (\A q \in Runs : of[q] \in Sessions \cup {Nil})
        /\ r # Nil => of[r] = s
    BY <1>3, <1>4
  <2> HIDE DEF of
  <2>2. /\ DOMAIN new = Sessions /\ \A t \in Sessions \ {s} : new[t] = log[t]
        /\ LogFits(new[s], by, of)
        /\ \A k \in DOMAIN log[s] : k \in DOMAIN new[s] /\ new[s][k] = log[s][k]
        /\ \E j \in OwnersIn(new[s]) : /\ Governs(new[s], j, Len(new[s]) + 1)
                                       /\ new[s][j].session = s
                                       /\ new[s][j].id = Costs!OwnId(s, r)
    BY <2>1, OwnedIs
  <2>3. log' = new
    BY <1>1
  <2> HIDE DEF new
  <2>4. QED
    BY <2>2, <2>3 DEF of
<1>6. \A t \in Sessions : LogFits(log'[t], by', sessionOf')
  BY <1>1, <1>4, <1>5
<1>7. ASSUME NEW m \in DOMAIN by
      PROVE  /\ \E k \in DOMAIN log'[by[m].session] : log'[by[m].session][k] = Costs!Answer(m)
             /\ by[m].run # Nil => sessionOf'[by[m].run] = by[m].session
  <2>1. by[m].session \in Sessions /\ by[m].run \in Runs \cup {Nil}
    BY AnswersAre
  <2>2. /\ \E k \in DOMAIN log[by[m].session] : log[by[m].session][k] = Costs!Answer(m)
        /\ by[m].run # Nil => sessionOf[by[m].run] = by[m].session
    BY DEF HistoryInv
  <2>3. by[m].run # Nil => sessionOf'[by[m].run] = by[m].session
    BY <1>3, <2>1, <2>2, ConversationsAssumption
  <2>4. CASE by[m].session = s
    BY <1>5, <2>2, <2>3, <2>4
  <2>5. CASE by[m].session # s
    BY <1>5, <2>1, <2>2, <2>3, <2>5
  <2>6. QED
    BY <2>4, <2>5
<1>8. HistoryInv'
  <2>1. /\ by' \in Answered /\ Len(by') \in 1 .. MaxAnswers
        /\ by'[1] = [run |-> Nil, session |-> Old]
    BY <1>1, <1>2
  <2>2. \A m \in DOMAIN by' :
          /\ \E k \in DOMAIN log'[by'[m].session] : log'[by'[m].session][k] = Costs!Answer(m)
          /\ by'[m].run # Nil => sessionOf'[by'[m].run] = by'[m].session
    BY <1>1, <1>7
  <2>3. QED
    BY <1>3, <1>5, <1>6, <2>1, <2>2 DEF HistoryInv
<1>9. \A t \in Sessions : log'[t] = <<>> => log[t] = <<>>
  <2>1. log'[s] # <<>>
    BY <1>5 DEF OwnersIn
  <2>2. QED
    BY <1>5, <2>1
<1>10. QED
  BY <1>1, <1>3, <1>5, <1>8, <1>9

LEMMA HistoryAnswers ==
  ASSUME HistoryInv, ProcessInv, Costs!Answers
  PROVE  /\ HistoryInv' /\ ProcessInv'
         /\ DOMAIN by \subseteq DOMAIN by' /\ \A m \in DOMAIN by : by'[m] = by[m]
         /\ \A t \in Sessions : log'[t] = <<>> => log[t] = <<>>
<1> DEFINE new == Len(by) + 1
           row == [run |-> runId, session |-> at]
           d == Append(log[at], Costs!Answer(new))
<1>1. /\ phase = "up" /\ Len(by) < MaxAnswers
      /\ log' = [log EXCEPT ![at] = d] /\ by' = Append(by, row)
      /\ UNCHANGED <<phase, at, runId, sessionOf>>
  BY DEF Costs!Answers, Costs!processVars
<1>2. /\ at \in Sessions /\ runId \in Runs \cup {Nil} /\ (runId # Nil => sessionOf[runId] = at)
  BY <1>1 DEF ProcessInv
<1>3. PICK j \in OwnersIn(log[at]) : /\ Governs(log[at], j, Len(log[at]) + 1)
                                     /\ log[at][j].session = at
                                     /\ log[at][j].id = Costs!OwnId(at, runId)
  BY <1>1 DEF ProcessInv
<1>4. /\ DOMAIN log = Sessions /\ by \in Answered /\ DOMAIN sessionOf = Runs
      /\ \A q \in Runs : sessionOf[q] \in Sessions \cup {Nil}
      /\ \A t \in Sessions : LogFits(log[t], by, sessionOf)
      /\ Len(by) \in 1 .. MaxAnswers /\ by[1] = [run |-> Nil, session |-> Old]
  BY DEF HistoryInv
<1>5. Len(by) \in Nat /\ DOMAIN by = 1 .. Len(by) /\ 1 \in DOMAIN by
  BY AnswersAre
<1>6. row \in [run : Runs \cup {Nil}, session : Sessions] /\ row.run = runId /\ row.session = at
  BY <1>2
<1>7. /\ LogFits(d, Append(by, row), sessionOf) /\ d # <<>> /\ j \in OwnersIn(d)
      /\ Governs(d, j, Len(d) + 1)
      /\ \A k \in DOMAIN log[at] : k \in DOMAIN d /\ d[k] = log[at][k]
      /\ Len(log[at]) + 1 \in DOMAIN d /\ d[Len(log[at]) + 1] = Costs!Answer(new)
  BY <1>2, <1>3, <1>4, AnswerAppended
<1> HIDE DEF d, row
<1>8. /\ by' \in Answered /\ Len(by') = new /\ DOMAIN by' = 1 .. new /\ by'[new] = row
      /\ \A m \in DOMAIN by : by'[m] = by[m]
  <2> DEFINE R == [run : Runs \cup {Nil}, session : Sessions]
  <2>1. by \in Seq(R) /\ row \in R
    BY <1>4, <1>6 DEF Answered
  <2> HIDE DEF R
  <2>2. by' \in Seq(R) /\ Len(by') = new /\ DOMAIN by' = 1 .. new /\ by'[new] = row
        /\ \A m \in DOMAIN by : by'[m] = by[m]
    BY <1>1, <2>1
  <2>3. QED
    BY <2>2 DEF Answered, R
<1>9. DOMAIN by' = DOMAIN by \cup {new} /\ new \in 1 .. MaxAnswers
  BY <1>1, <1>5, <1>8, ConversationsAssumption
<1>10. /\ DOMAIN log' = Sessions /\ log'[at] = d /\ \A t \in Sessions \ {at} : log'[t] = log[t]
  BY <1>1, <1>2, <1>4
<1>11. \A t \in Sessions : LogFits(log'[t], by', sessionOf)
  <2>1. \A t \in Sessions : LogFits(log[t], by', sessionOf)
    BY <1>4, <1>8, <1>9, LogStays
  <2>2. LogFits(log'[at], by', sessionOf)
    BY <1>1, <1>7, <1>10
  <2>3. QED
    BY <1>10, <2>1, <2>2
<1>12. ASSUME NEW m \in DOMAIN by'
       PROVE  /\ \E k \in DOMAIN log'[by'[m].session] :
                   log'[by'[m].session][k] = Costs!Answer(m)
              /\ by'[m].run # Nil => sessionOf[by'[m].run] = by'[m].session
  <2>1. CASE m = new
    BY <1>2, <1>6, <1>7, <1>8, <1>10, <2>1
  <2>2. CASE m # new
    <3>1. m \in DOMAIN by /\ by'[m] = by[m] /\ by[m].session \in Sessions
      BY <1>8, <1>9, <2>2, AnswersAre
    <3>2. /\ \E k \in DOMAIN log[by[m].session] : log[by[m].session][k] = Costs!Answer(m)
          /\ by[m].run # Nil => sessionOf[by[m].run] = by[m].session
      BY <3>1 DEF HistoryInv
    <3>3. CASE by[m].session = at
      BY <1>7, <1>10, <3>1, <3>2, <3>3
    <3>4. CASE by[m].session # at
      BY <1>10, <3>1, <3>2, <3>4
    <3>5. QED
      BY <3>3, <3>4
  <2>3. QED
    BY <2>1, <2>2
<1>13. by'[1] = [run |-> Nil, session |-> Old]
  BY <1>4, <1>5, <1>8
<1>14. HistoryInv'
  BY <1>1, <1>4, <1>8, <1>9, <1>10, <1>11, <1>12, <1>13 DEF HistoryInv
<1>15. ProcessInv'
  <2>1. d[j] = log[at][j] /\ j \in OwnersIn(d)
    BY <1>3, <1>7 DEF OwnersIn
  <2>2. \E i \in OwnersIn(log'[at]) : /\ Governs(log'[at], i, Len(log'[at]) + 1)
                                      /\ log'[at][i].session = at
                                      /\ log'[at][i].id = Costs!OwnId(at, runId)
    BY <1>3, <1>7, <1>10, <2>1
  <2>3. QED
    BY <1>1, <1>2, <2>2 DEF ProcessInv
<1>16. \A t \in Sessions : log'[t] = <<>> => log[t] = <<>>
  BY <1>7, <1>10
<1>17. QED
  BY <1>8, <1>9, <1>14, <1>15, <1>16

LEMMA HistoryFork ==
  ASSUME HistoryInv, ProcessInv, NEW s \in Sessions, NEW t \in Sessions, Costs!Fork(s, t)
  PROVE  /\ HistoryInv' /\ ProcessInv' /\ by' = by
         /\ log[t] = <<>> /\ log'[t] # <<>>
         /\ phase # "down" => at # t
         /\ \A u \in Sessions \ {t} : log'[u] = log[u]
<1>1. /\ log[t] = <<>> /\ log[s] # <<>>
      /\ \E n \in 1 .. Len(log[s]) : log' = [log EXCEPT ![t] = SubSeq(log[s], 1, n)]
      /\ UNCHANGED <<by, sessionOf, phase, at, runId>>
  BY DEF Costs!Fork, Costs!processVars
<1>2. PICK n \in 1 .. Len(log[s]) : log' = [log EXCEPT ![t] = SubSeq(log[s], 1, n)]
  BY <1>1
<1>3. /\ DOMAIN log = Sessions /\ \A u \in Sessions : LogFits(log[u], by, sessionOf)
  BY DEF HistoryInv
<1>4. LogFits(SubSeq(log[s], 1, n), by, sessionOf) /\ SubSeq(log[s], 1, n) # <<>>
  BY <1>3, LogPrefix
<1>5. /\ DOMAIN log' = Sessions /\ log'[t] = SubSeq(log[s], 1, n)
      /\ \A u \in Sessions \ {t} : log'[u] = log[u]
  BY <1>2, <1>3
<1>6. \A u \in Sessions : LogFits(log'[u], by, sessionOf)
  BY <1>3, <1>4, <1>5
<1>7. DOMAIN log[t] = {}
  BY <1>1
<1>8. ASSUME NEW m \in DOMAIN by
      PROVE  \E k \in DOMAIN log'[by[m].session] : log'[by[m].session][k] = Costs!Answer(m)
  <2>1. \E k \in DOMAIN log[by[m].session] : log[by[m].session][k] = Costs!Answer(m)
    BY DEF HistoryInv
  <2>2. by[m].session \in Sessions \ {t}
    BY <1>7, <2>1, AnswersAre
  <2>3. QED
    BY <1>5, <2>1, <2>2
<1>9. HistoryInv'
  BY <1>1, <1>5, <1>6, <1>8 DEF HistoryInv
<1>10. phase # "down" => at # t
  BY <1>7 DEF ProcessInv, OwnersIn
<1>11. ProcessInv'
  BY <1>1, <1>5, <1>10 DEF ProcessInv
<1>12. QED
  BY <1>1, <1>4, <1>5, <1>9, <1>10, <1>11

LEMMA ProcessSame ==
  ASSUME ProcessInv, UNCHANGED <<phase, at, runId, log, sessionOf>>
  PROVE  ProcessInv'
  BY DEF ProcessInv

(* A process that goes on, or ends *)
LEMMA ProcessGoesOn ==
  ASSUME ProcessInv, phase # "down", phase' \in {"leaving", "flushed", "between"},
         UNCHANGED <<at, runId, log, sessionOf>>
  PROVE  ProcessInv'
  BY DEF ProcessInv, Serving

LEMMA ProcessDown ==
  ASSUME Costs!Down
  PROVE  ProcessInv'
  BY DEF ProcessInv, Costs!Down, Serving

-----------------------------------------------------------------------------
(* The ledgers *)
LEMMA LedgersAre ==
  ASSUME LedgersInv
  PROVE  /\ Len(ledgers) \in Nat /\ DOMAIN ledgers = 1 .. Len(ledgers)
         /\ \A k \in DOMAIN ledgers : /\ ledgers[k] \in LedgerRecords(used)
                                      /\ ledgers[k].session \in Sessions
                                      /\ ledgers[k].accounts \in SubAccounts(used)
                                      /\ ledgers[k].append \in BOOLEAN
         /\ captured # 0 => captured \in DOMAIN ledgers
         /\ ledger # 0 => ledger \in DOMAIN ledgers
<1>1. /\ ledgers \in Seq(LedgerRecords(used))
      /\ ledger \in 0 .. Len(ledgers) /\ captured \in 0 .. Len(ledgers)
  BY DEF LedgersInv
<1>2. Len(ledgers) \in Nat /\ DOMAIN ledgers = 1 .. Len(ledgers)
      /\ \A k \in DOMAIN ledgers : ledgers[k] \in LedgerRecords(used)
  BY <1>1
<1>3. \A e \in LedgerRecords(used) : /\ e.session \in Sessions /\ e.append \in BOOLEAN
                                     /\ e.accounts \in SubAccounts(used)
  BY DEF LedgerRecords
<1>4. QED
  BY <1>1, <1>2, <1>3

LEMMA LedgersSame ==
  ASSUME LedgersInv, UNCHANGED <<ledgers, ledger, captured, sub, open, phase, at, costs, used>>,
         \A s \in Sessions : log'[s] = <<>> => log[s] = <<>>
  PROVE  LedgersInv'
  BY DEF LedgersInv

LEMMA LedgersServe ==
  ASSUME LedgersInv, UNCHANGED <<ledgers, ledger, captured, sub, open, at, costs, used, log>>,
         phase \in Serving, phase' \in Serving
  PROVE  LedgersInv'
<1>1. phase # "down" /\ (phase \in Serving) = (phase' \in Serving)
  BY DEF Serving
<1>2. QED
  BY <1>1 DEF LedgersInv

LEMMA LedgersDown ==
  ASSUME LedgersInv, Costs!Down
  PROVE  LedgersInv'
<1>1. /\ phase' = "down" /\ ledgers' = <<>> /\ ledger' = 0 /\ open' = FALSE /\ captured' = 0
      /\ sub' # "running" /\ UNCHANGED <<costs, log, used>>
  BY DEF Costs!Down, Costs!diskVars
<1>2. ledgers' \in Seq(LedgerRecords(used)) /\ Len(ledgers') = 0 /\ DOMAIN ledgers' = {}
  BY <1>1
<1>3. phase' \notin Serving
  BY <1>1 DEF Serving
<1>4. (ledger' # 0 /\ ledgers'[ledger'].append) = (phase' \in Serving)
  BY <1>1, <1>3
<1>5. /\ ledger' \in 0 .. Len(ledgers') /\ captured' \in 0 .. Len(ledgers')
      /\ \A k \in DOMAIN ledgers' : ledgers'[k].append => k = ledger'
  BY <1>1, <1>2
<1>6. /\ DOMAIN costs' = Sessions
      /\ \A s \in Sessions : /\ costs'[s] \in SubAccounts(used')
                             /\ log'[s] = <<>> => costs'[s] = Costs!NoAccounts
  BY <1>1 DEF LedgersInv
<1>7. QED
  BY <1>1, <1>2, <1>3, <1>4, <1>5, <1>6 DEF LedgersInv

LEMMA LedgersUnbind ==
  ASSUME LedgersInv, Costs!Unbind
  PROVE  LedgersInv'
<1>1. /\ phase = "flushed" /\ phase' = "between"
      /\ open' = (open /\ reason = "reload")
      /\ ledgers' = [ledgers EXCEPT ![ledger].append = FALSE]
      /\ UNCHANGED <<ledger, captured, sub, at, costs, used, log>>
  BY DEF Costs!Unbind, Costs!diskVars
<1>2. phase \in Serving /\ phase' \notin Serving
  BY <1>1 DEF Serving
<1>3. ledger # 0 /\ ledger \in DOMAIN ledgers
  BY <1>2, LedgersAre DEF LedgersInv
<1> DEFINE e == [ledgers[ledger] EXCEPT !.append = FALSE]
<1>4. e \in LedgerRecords(used) /\ e.append = FALSE
  BY <1>3, LedgersAre DEF LedgerRecords
<1>5. ledgers' = [ledgers EXCEPT ![ledger] = e]
  BY <1>1
<1> HIDE DEF e
<1>6. /\ ledgers' \in Seq(LedgerRecords(used)) /\ Len(ledgers') = Len(ledgers)
      /\ DOMAIN ledgers' = DOMAIN ledgers
      /\ \A k \in DOMAIN ledgers : ledgers'[k] = IF k = ledger THEN e ELSE ledgers[k]
  BY <1>3, <1>4, <1>5 DEF LedgersInv
<1>7. (ledger' # 0 /\ ledgers'[ledger'].append) = (phase' \in Serving)
  BY <1>1, <1>2, <1>3, <1>4, <1>6
<1>8. \A k \in DOMAIN ledgers' : ledgers'[k].append => k = ledger'
  BY <1>1, <1>4, <1>6 DEF LedgersInv
<1>9. /\ open' \in BOOLEAN
      /\ sub' = "running" \/ open' => captured' # 0
  BY <1>1 DEF LedgersInv
<1>10. /\ ledger' \in 0 .. Len(ledgers') /\ captured' \in 0 .. Len(ledgers')
       /\ phase' # "down" => ledger' # 0
  BY <1>1, <1>3, <1>6 DEF LedgersInv
<1>11. /\ DOMAIN costs' = Sessions
       /\ \A s \in Sessions : /\ costs'[s] \in SubAccounts(used')
                              /\ log'[s] = <<>> => costs'[s] = Costs!NoAccounts
  BY <1>1 DEF LedgersInv
<1>12. ledgers' \in Seq(LedgerRecords(used'))
  BY <1>1, <1>6
<1>13. QED
  BY <1>2, <1>7, <1>8, <1>9, <1>10, <1>11, <1>12 DEF LedgersInv

LEMMA LedgersSpawn ==
  ASSUME LedgersInv, Costs!Spawn
  PROVE  LedgersInv'
<1>1. /\ phase = "up" /\ sub' = "running" /\ captured' = ledger /\ open' = TRUE
      /\ UNCHANGED <<ledgers, ledger, phase, at, costs, used, log>>
  BY DEF Costs!Spawn, Costs!diskVars, Costs!processVars
<1>2. ledger # 0
  BY <1>1 DEF LedgersInv
<1>3. QED
  BY <1>1, <1>2 DEF LedgersInv

LEMMA LedgersUses ==
  ASSUME LedgersInv, used \in Nat, Costs!Uses
  PROVE  LedgersInv'
<1>1. /\ used' = used + 1
      /\ UNCHANGED <<ledgers, ledger, phase, at, costs, log, sub, captured, open>>
  BY DEF Costs!Uses, Costs!diskVars, Costs!processVars
<1>2. SubAccounts(used) \subseteq SubAccounts(used')
  BY <1>1, SubAccountsGrow
<1>3. LedgerRecords(used) \subseteq LedgerRecords(used')
  BY <1>2 DEF LedgerRecords
<1>4. ledgers' \in Seq(LedgerRecords(used'))
  BY <1>1, <1>3 DEF LedgersInv
<1>5. \A s \in Sessions : costs'[s] \in SubAccounts(used')
  BY <1>1, <1>2 DEF LedgersInv
<1>6. QED
  BY <1>1, <1>4, <1>5 DEF LedgersInv

LEMMA LedgersFork ==
  ASSUME LedgersInv, NEW s \in Sessions, NEW t \in Sessions, Costs!Fork(s, t),
         log[t] = <<>>, log'[t] # <<>>, phase # "down" => at # t,
         \A u \in Sessions \ {t} : log'[u] = log[u]
  PROVE  /\ LedgersInv'
         /\ \A u \in Sessions : log[u] # <<>> => costs'[u] = costs[u]
<1>1. /\ costs' = costs \/ costs' = [costs EXCEPT ![t] = costs[s]]
      /\ UNCHANGED <<ledgers, ledger, phase, at, sub, captured, open, used>>
  BY DEF Costs!Fork, Costs!processVars, Costs!subVars
<1>2. /\ DOMAIN costs' = Sessions /\ \A u \in Sessions \ {t} : costs'[u] = costs[u]
      /\ \A u \in Sessions : costs'[u] \in SubAccounts(used')
  BY <1>1 DEF LedgersInv
<1>3. \A u \in Sessions : log'[u] = <<>> => costs'[u] = Costs!NoAccounts
  BY <1>2 DEF LedgersInv
<1>4. phase \in Serving => at \in Sessions \ {t}
  <2>1. ASSUME phase \in Serving PROVE ledgers[ledger].session = at /\ ledger \in DOMAIN ledgers
    BY <2>1, LedgersAre DEF LedgersInv
  <2>2. QED
    BY <2>1, LedgersAre DEF Serving
<1>5. phase' \in Serving =>
        ledgers'[ledger'].session = at' /\ ledgers'[ledger'].accounts = costs'[at']
  BY <1>1, <1>2, <1>4 DEF LedgersInv
<1>6. LedgersInv'
  BY <1>1, <1>2, <1>3, <1>5 DEF LedgersInv
<1>7. QED
  BY <1>2, <1>6

(* What is recorded is saved, and no account of a session ever shrinks *)
LEMMA Recorded ==
  ASSUME CostInv, NEW n \in 0 .. used, captured # 0, Costs!CanRecord, Costs!Record(n),
         UNCHANGED <<log, phase, at, ledger, sub, captured, open, used>>
  PROVE  /\ LedgersInv' /\ at \in Sessions
         /\ Costs!Used(costs'[at], Costs!RunId(Sub)) >= n
         /\ \A s \in Sessions : Costs!Used(costs'[s], Costs!RunId(Sub))
                                  >= Costs!Used(costs[s], Costs!RunId(Sub))
<1> DEFINE i == Costs!RunId(Sub)
           a == costs[at]
           next == Costs!Merge(a, Costs!Account(i, n))
<1>1. LedgersInv /\ used \in Nat /\ ProcessInv /\ HistoryInv
  BY DEF CostInv, SubagentInv
<1>2. captured = ledger /\ ledger \in DOMAIN ledgers /\ phase \in Serving
  <2>1. captured \in DOMAIN ledgers /\ ledgers[captured].append
    BY <1>1, LedgersAre DEF Costs!CanRecord
  <2>2. captured = ledger /\ ledger # 0
    BY <1>1, <2>1 DEF LedgersInv
  <2>3. QED
    BY <1>1, <2>1, <2>2 DEF LedgersInv
<1>3. /\ phase # "down" /\ at \in Sessions
      /\ ledgers[ledger].session = at /\ ledgers[ledger].accounts = a
      /\ DOMAIN costs = Sessions /\ \A s \in Sessions : costs[s] \in SubAccounts(used)
  BY <1>1, <1>2 DEF LedgersInv, ProcessInv, Serving
<1>4. log[at] # <<>>
  BY <1>1, <1>3 DEF ProcessInv, OwnersIn
<1>5. /\ next \in SubAccounts(used) /\ i \in DOMAIN next
      /\ next[i] >= n /\ next[i] >= Costs!Used(a, i)
      /\ Costs!Merge(a, Costs!Account(i, next[i])) = next
  BY <1>1, <1>3, MergeSub
<1>6. Costs!Used(next, i) >= n /\ Costs!Used(next, i) >= Costs!Used(a, i)
  BY <1>5 DEF Costs!Used
<1>7. \A s \in Sessions : Costs!Used(costs[s], i) \in Nat
  BY <1>1, <1>3, SubAccountsAre, UsedIs
<1>8. \/ next = a /\ UNCHANGED <<ledgers, costs>>
      \/ /\ ledgers' = [ledgers EXCEPT ![ledger].accounts = next]
         /\ costs' = [costs EXCEPT ![at] = Costs!Merge(a, Costs!Account(i, next[i]))]
  BY <1>2, <1>3 DEF Costs!Record
<1> HIDE DEF next, i
<1>9. CASE next = a /\ UNCHANGED <<ledgers, costs>>
  <2>1. LedgersInv'
    BY <1>1, <1>9, LedgersSame
  <2>2. QED
    BY <1>3, <1>6, <1>7, <1>9, <2>1 DEF i
<1>10. CASE /\ ledgers' = [ledgers EXCEPT ![ledger].accounts = next]
            /\ costs' = [costs EXCEPT ![at] = Costs!Merge(a, Costs!Account(i, next[i]))]
  <2>1. costs' = [costs EXCEPT ![at] = next]
    BY <1>5, <1>10
  <2>2. /\ DOMAIN costs' = Sessions /\ costs'[at] = next
        /\ \A s \in Sessions \ {at} : costs'[s] = costs[s]
    BY <1>3, <2>1
  <2> DEFINE e == [ledgers[ledger] EXCEPT !.accounts = next]
  <2>3. /\ e \in LedgerRecords(used) /\ e.accounts = next /\ e.session = at
        /\ e.append = ledgers[ledger].append
    BY <1>1, <1>2, <1>3, <1>5, LedgersAre DEF LedgerRecords
  <2>4. ledgers' = [ledgers EXCEPT ![ledger] = e]
    BY <1>10
  <2> HIDE DEF e
  <2>5. /\ ledgers' \in Seq(LedgerRecords(used)) /\ Len(ledgers') = Len(ledgers)
        /\ DOMAIN ledgers' = DOMAIN ledgers
        /\ \A k \in DOMAIN ledgers : ledgers'[k] = IF k = ledger THEN e ELSE ledgers[k]
    BY <1>1, <1>2, <2>3, <2>4 DEF LedgersInv
  <2>6. \A k \in DOMAIN ledgers : ledgers'[k].append = ledgers[k].append
    BY <2>3, <2>5
  <2>7. /\ ledger' \in 0 .. Len(ledgers') /\ captured' \in 0 .. Len(ledgers')
        /\ \A k \in DOMAIN ledgers' : ledgers'[k].append => k = ledger'
        /\ (ledger' # 0 /\ ledgers'[ledger'].append) = (phase' \in Serving)
    BY <1>1, <1>2, <2>5, <2>6 DEF LedgersInv
  <2>8. ledgers'[ledger'].session = at' /\ ledgers'[ledger'].accounts = costs'[at']
    BY <1>2, <2>2, <2>3, <2>5
  <2>9. \A s \in Sessions : /\ costs'[s] \in SubAccounts(used')
                            /\ log'[s] = <<>> => costs'[s] = Costs!NoAccounts
    BY <1>1, <1>3, <1>4, <1>5, <2>2 DEF LedgersInv
  <2>10. LedgersInv'
    BY <1>1, <2>2, <2>5, <2>7, <2>8, <2>9 DEF LedgersInv
  <2>11. QED
    BY <1>3, <1>6, <1>7, <2>2, <2>10 DEF i
<1>11. QED
  BY <1>8, <1>9, <1>10

LEMMA LedgersBind ==
  ASSUME LedgersInv, NEW s \in Sessions, NEW r \in Runs \cup {Nil}, Costs!SessionStart(s, r),
         \A t \in Sessions : log'[t] = <<>> => log[t] = <<>>
  PROVE  LedgersInv'
<1> DEFINE before == [k \in DOMAIN ledgers |->
                        IF k = ledger THEN [ledgers[k] EXCEPT !.append = FALSE] ELSE ledgers[k]]
           bound == [session |-> s, accounts |-> costs[s], append |-> TRUE]
<1>1. /\ phase' = "up" /\ at' = s
      /\ UNCHANGED <<costs, sub, captured, open, used>>
      /\ IF ledger # 0 /\ ledgers[ledger].session = s
         THEN ledgers' = [before EXCEPT ![ledger] = bound] /\ ledger' = ledger
         ELSE ledgers' = Append(before, bound) /\ ledger' = Len(ledgers) + 1
  BY DEF Costs!SessionStart, Costs!Bind, Costs!subVars
<1>2. phase' \in Serving
  BY <1>1 DEF Serving
<1>3. /\ Len(ledgers) \in Nat /\ DOMAIN ledgers = 1 .. Len(ledgers)
      /\ \A k \in DOMAIN ledgers : ledgers[k] \in LedgerRecords(used)
      /\ captured \in 0 .. Len(ledgers) /\ ledger \in 0 .. Len(ledgers)
  BY LedgersAre DEF LedgersInv
<1>4. bound \in LedgerRecords(used) /\ bound.session = s /\ bound.accounts = costs[s]
      /\ bound.append = TRUE
  BY DEF LedgersInv, LedgerRecords
<1>5. \A k \in DOMAIN ledgers : before[k] \in LedgerRecords(used) /\ before[k].append = FALSE
  <2>1. TAKE k \in DOMAIN ledgers
  <2>2. CASE k = ledger
    BY <1>3, <2>2 DEF LedgerRecords
  <2>3. CASE k # ledger
    <3>1. before[k] = ledgers[k]
      BY <2>3
    <3>2. ledgers[k].append = FALSE
      BY <2>3, LedgersAre DEF LedgersInv
    <3> HIDE DEF before
    <3>3. QED
      BY <1>3, <3>1, <3>2
  <2>4. QED
    BY <2>2, <2>3
<1>6. before \in Seq(LedgerRecords(used)) /\ Len(before) = Len(ledgers)
      /\ DOMAIN before = DOMAIN ledgers
  <2>1. before = [k \in 1 .. Len(ledgers) |-> before[k]]
    BY <1>3
  <2> HIDE DEF before
  <2>2. QED
    BY <1>3, <1>5, <2>1, SeqOf
<1> HIDE DEF before, bound
<1>7. /\ ledgers' \in Seq(LedgerRecords(used)) /\ ledger' \in DOMAIN ledgers'
      /\ DOMAIN ledgers' = 1 .. Len(ledgers') /\ Len(ledgers') \in Nat
      /\ Len(ledgers) <= Len(ledgers')
      /\ ledgers'[ledger'] = bound
      /\ \A k \in DOMAIN ledgers' \ {ledger'} : k \in DOMAIN ledgers /\ ledgers'[k] = before[k]
  <2>1. CASE ledger # 0 /\ ledgers[ledger].session = s
    <3>1. ledgers' = [before EXCEPT ![ledger] = bound] /\ ledger' = ledger
      BY <1>1, <2>1
    <3>2. ledger \in DOMAIN ledgers
      BY <1>3, <2>1
    <3>3. QED
      BY <1>3, <1>4, <1>6, <3>1, <3>2
  <2>2. CASE ~(ledger # 0 /\ ledgers[ledger].session = s)
    <3>1. ledgers' = Append(before, bound) /\ ledger' = Len(ledgers) + 1
      BY <1>1, <2>2
    <3>2. QED
      BY <1>3, <1>4, <1>6, <3>1
  <2>3. QED
    BY <2>1, <2>2
<1>8. \A k \in DOMAIN ledgers' : ledgers'[k].append => k = ledger'
  BY <1>5, <1>7
<1>9. /\ ledger' # 0 /\ ledger' \in 0 .. Len(ledgers') /\ captured' \in 0 .. Len(ledgers')
  <2>1. ledger' \in 1 .. Len(ledgers')
    BY <1>7
  <2>2. captured' = captured /\ captured \in 0 .. Len(ledgers) /\ Len(ledgers) <= Len(ledgers')
        /\ Len(ledgers') \in Nat /\ Len(ledgers) \in Nat
    BY <1>1, <1>3, <1>7
  <2>3. QED
    BY <2>1, <2>2
<1>10. (ledger' # 0 /\ ledgers'[ledger'].append) = (phase' \in Serving)
  BY <1>2, <1>4, <1>7, <1>9
<1>11. ledgers'[ledger'].session = at' /\ ledgers'[ledger'].accounts = costs'[at']
  BY <1>1, <1>4, <1>7
<1>12. /\ DOMAIN costs' = Sessions
       /\ \A t \in Sessions : /\ costs'[t] \in SubAccounts(used')
                              /\ log'[t] = <<>> => costs'[t] = Costs!NoAccounts
       /\ sub' = "running" \/ open' => captured' # 0
       /\ open' \in BOOLEAN
  BY <1>1 DEF LedgersInv
<1>13. ledgers' \in Seq(LedgerRecords(used'))
  BY <1>1, <1>7
<1>14. QED
  BY <1>8, <1>9, <1>10, <1>11, <1>12, <1>13 DEF LedgersInv

-----------------------------------------------------------------------------
(* The subagent *)
Saved(c, s) == Costs!Used(c[s], Costs!RunId(Sub))

LEMMA SavedIs ==
  ASSUME LedgersInv, used \in Nat, NEW s \in Sessions
  PROVE  Saved(costs, s) \in Nat /\ (log[s] = <<>> => Saved(costs, s) = 0)
<1>1. costs[s] \in SubAccounts(used) /\ (log[s] = <<>> => costs[s] = Costs!NoAccounts)
  BY DEF LedgersInv
<1>2. Accounts(costs[s])
  BY <1>1, SubAccountsAre
<1>3. Saved(costs, s) \in Nat
  BY <1>2, UsedIs DEF Saved
<1>4. Costs!Used(Costs!NoAccounts, Costs!RunId(Sub)) = 0
  BY DEF Costs!Used, Costs!NoAccounts
<1>5. QED
  BY <1>1, <1>3, <1>4 DEF Saved

(* Nothing saved is lost: what was acknowledged stays so *)
LEMMA SubagentGoesOn ==
  ASSUME LedgersInv, SubagentInv, LedgersInv', used' \in Nat,
         subSent' \in 0 .. used', subPending' \in 0 .. used', subMail' \subseteq 0 .. used',
         \A s \in Sessions : Saved(costs', s) >= Saved(costs, s),
         subSent' = subSent \/ \E s \in Sessions : Saved(costs', s) >= subSent'
  PROVE  SubagentInv'
<1>1. \A s \in Sessions : Saved(costs, s) \in Nat
  BY SavedIs DEF SubagentInv
<1>2. \A s \in Sessions : Saved(costs', s) \in Nat
  <2>1. ASSUME LedgersInv', used' \in Nat, NEW s \in Sessions
        PROVE  Saved(costs', s) \in Nat
    <3>1. costs'[s] \in SubAccounts(used')
      BY <2>1 DEF LedgersInv
    <3>2. Accounts(costs'[s])
      BY <2>1, <3>1, SubAccountsAre
    <3>3. QED
      BY <3>2, UsedIs DEF Saved
  <2>2. QED
    BY <2>1
<1>3. subSent' > 0 => \E s \in Sessions : Saved(costs', s) >= subSent'
  <2>1. SUFFICES ASSUME subSent' > 0, subSent' = subSent
                 PROVE  \E s \in Sessions : Saved(costs', s) >= subSent'
    OBVIOUS
  <2>2. PICK s \in Sessions : Saved(costs, s) >= subSent
    BY <2>1 DEF SubagentInv, Costs!AcknowledgedIsSaved, Saved
  <2>3. Saved(costs', s) >= subSent'
    BY <1>1, <1>2, <2>1, <2>2
  <2>4. QED
    BY <2>3
<1>4. Costs!AcknowledgedIsSaved'
  BY <1>3 DEF Costs!AcknowledgedIsSaved, Saved
<1>5. QED
  BY <1>4 DEF SubagentInv

LEMMA SubagentStays ==
  ASSUME LedgersInv, SubagentInv, LedgersInv', UNCHANGED <<used, subSent, costs>>,
         subPending' \in 0 .. used, subMail' \subseteq 0 .. used
  PROVE  SubagentInv'
<1>1. \A s \in Sessions : Saved(costs', s) >= Saved(costs, s)
  BY SavedIs DEF SubagentInv, Saved
<1>2. used' \in Nat /\ subSent' \in 0 .. used' /\ subPending' \in 0 .. used'
      /\ subMail' \subseteq 0 .. used' /\ subSent' = subSent
  BY DEF SubagentInv
<1>3. QED
  BY <1>1, <1>2, SubagentGoesOn

LEMMA SubagentForked ==
  ASSUME CostInv, LedgersInv', UNCHANGED <<used, subSent, subPending, subMail>>,
         \A s \in Sessions : log[s] # <<>> => costs'[s] = costs[s]
  PROVE  SubagentInv'
<1>1. LedgersInv /\ SubagentInv /\ used \in Nat
  BY DEF CostInv, SubagentInv
<1>2. \A s \in Sessions : Saved(costs, s) \in Nat /\ (log[s] = <<>> => Saved(costs, s) = 0)
  BY <1>1, SavedIs
<1>3. \A s \in Sessions : Saved(costs', s) \in Nat
  <2>1. \A s \in Sessions : costs'[s] \in SubAccounts(used')
    BY DEF LedgersInv
  <2>2. \A s \in Sessions : Accounts(costs'[s])
    BY <1>1, <2>1, SubAccountsAre
  <2>3. QED
    BY <2>2, UsedIs DEF Saved
<1>4. \A s \in Sessions : Saved(costs', s) >= Saved(costs, s)
  BY <1>2, <1>3 DEF Saved
<1>5. used' \in Nat /\ subSent' \in 0 .. used' /\ subPending' \in 0 .. used'
      /\ subMail' \subseteq 0 .. used' /\ subSent' = subSent
  BY <1>1 DEF SubagentInv
<1>6. QED
  BY <1>1, <1>4, <1>5, SubagentGoesOn

-----------------------------------------------------------------------------
(* Reports *)
LEMMA ReportsSame ==
  ASSUME ReportsInv, UNCHANGED <<by, used>>, up' = up, mail' \subseteq mail
  PROVE  ReportsInv'
  BY DEF ReportsInv

LEMMA ReportsSent ==
  ASSUME CostInv, phase # "down", UNCHANGED <<by, used, up>>,
         mail' \subseteq mail \cup {Costs!Report}
  PROVE  ReportsInv'
  BY ReportFits DEF CostInv, ReportsInv

LEMMA ReportsDelivered ==
  ASSUME ReportsInv, UNCHANGED <<by, used>>, NEW report \in mail,
         up' = Costs!Merge(up, report), mail' \subseteq mail
  PROVE  ReportsInv'
<1>1. Fits(up', by, used)
  BY FitsMerged DEF ReportsInv
<1>2. QED
  BY <1>1 DEF ReportsInv

LEMMA ReportsLater ==
  ASSUME ReportsInv, UNCHANGED <<up, mail>>, by \in Answered, by' \in Answered,
         used \in Nat, used' \in Nat, used <= used',
         DOMAIN by \subseteq DOMAIN by', \A m \in DOMAIN by : by'[m] = by[m]
  PROVE  ReportsInv'
<1>1. \A a : Fits(a, by, used) => Fits(a, by', used')
  BY FitsLater
<1>2. QED
  BY <1>1 DEF ReportsInv

-----------------------------------------------------------------------------
(* Every step *)
LEMMA CostInit ==
  ASSUME Costs!Init
  PROVE  CostInv
<1>1. /\ log = [s \in Sessions |-> IF s = Old THEN <<Costs!Answer(1)>> ELSE <<>>]
      /\ costs = [s \in Sessions |-> Costs!NoAccounts]
      /\ phase = "down" /\ at = Nil /\ runId = Nil
      /\ ledgers = <<>> /\ ledger = 0
      /\ sub = "none" /\ captured = 0 /\ open = FALSE
      /\ used = 0 /\ subSent = 0 /\ subPending = 0 /\ subMail = {}
      /\ up = Costs!NoAccounts /\ mail = {}
      /\ by = <<[run |-> Nil, session |-> Old]>> /\ sessionOf = [r \in Runs |-> Nil]
  BY DEF Costs!Init
<1>2. Old \in Sessions /\ MaxAnswers \in Nat \ {0}
  BY ConversationsAssumption
<1>3. /\ by \in Answered /\ Len(by) = 1 /\ DOMAIN by = {1}
      /\ by[1] = [run |-> Nil, session |-> Old] /\ by[1].run = Nil /\ by[1].session = Old
  BY <1>1, <1>2 DEF Answered
<1>4. \A s \in Sessions : LogFits(log[s], by, sessionOf)
  <2>1. TAKE s \in Sessions
  <2>2. CASE s = Old
    <3> DEFINE e == Costs!Answer(1)
    <3>1. e \in LogEntries /\ e.type = "message" /\ e.id = Costs!AnswerId(1)
      BY DEF Costs!Answer, LogEntries
    <3> HIDE DEF e
    <3>2. log[s] = <<e>>
      BY <1>1, <2>2 DEF e
    <3>3. log[s] \in Seq(LogEntries) /\ DOMAIN log[s] = {1} /\ log[s][1] = e
      BY <3>1, <3>2
    <3>4. OwnersIn(log[s]) = {}
      BY <3>1, <3>3 DEF OwnersIn
    <3>5. AnswerFits(log[s], 1, by)
      BY <1>3, <3>1, <3>3 DEF AnswerFits
    <3>6. QED
      BY <3>3, <3>4, <3>5 DEF LogFits
  <2>3. CASE s # Old
    <3>1. log[s] = <<>>
      BY <1>1, <2>3
    <3>2. log[s] \in Seq(LogEntries) /\ DOMAIN log[s] = {} /\ OwnersIn(log[s]) = {}
      BY <3>1 DEF OwnersIn
    <3>3. QED
      BY <3>2 DEF LogFits
  <2>4. QED
    BY <2>2, <2>3
<1>5. HistoryInv
  <2>1. log[Old][1] = Costs!Answer(1) /\ 1 \in DOMAIN log[Old]
    BY <1>1, <1>2
  <2>2. DOMAIN log = Sessions /\ DOMAIN sessionOf = Runs /\ \A r \in Runs : sessionOf[r] = Nil
    BY <1>1
  <2>3. Len(by) \in 1 .. MaxAnswers
    BY <1>2, <1>3
  <2>4. \A m \in DOMAIN by :
          /\ \E k \in DOMAIN log[by[m].session] : log[by[m].session][k] = Costs!Answer(m)
          /\ by[m].run # Nil => sessionOf[by[m].run] = by[m].session
    BY <1>3, <2>1
  <2>5. QED
    BY <1>3, <1>4, <2>2, <2>3, <2>4 DEF HistoryInv
<1>6. ProcessInv
  BY <1>1 DEF ProcessInv
<1>7. LedgersInv
  <2>1. Costs!NoAccounts \in SubAccounts(used)
    BY DEF SubAccounts
  <2>2. ledgers \in Seq(LedgerRecords(used)) /\ Len(ledgers) = 0 /\ DOMAIN ledgers = {}
    BY <1>1
  <2>3. (ledger # 0 /\ ledgers[ledger].append) = (phase \in Serving)
    BY <1>1 DEF Serving
  <2>4. DOMAIN costs = Sessions /\ \A s \in Sessions : costs[s] = Costs!NoAccounts
    BY <1>1
  <2>5. phase = "down" /\ phase \notin Serving
    BY <1>1 DEF Serving
  <2>6. ledger = 0 /\ captured = 0 /\ open = FALSE /\ sub = "none"
    BY <1>1
  <2>7. /\ ledger \in 0 .. Len(ledgers) /\ captured \in 0 .. Len(ledgers)
        /\ \A k \in DOMAIN ledgers : ledgers[k].append => k = ledger
    BY <2>2, <2>6
  <2>8. open \in BOOLEAN /\ ~(sub = "running" \/ open)
    BY <2>6
  <2>9. QED
    BY <2>1, <2>2, <2>3, <2>4, <2>5, <2>7, <2>8 DEF LedgersInv
<1>8. SubagentInv
  BY <1>1 DEF SubagentInv, Costs!AcknowledgedIsSaved
<1>9. ReportsInv
  BY <1>1 DEF ReportsInv, Fits, Costs!NoAccounts
<1>10. QED
  BY <1>5, <1>6, <1>7, <1>8, <1>9 DEF CostInv

LEMMA CostStep ==
  ASSUME CostInv, [Costs!Next]_(Costs!vars)
  PROVE  CostInv'
<1>1. HistoryInv /\ ProcessInv /\ LedgersInv /\ SubagentInv /\ ReportsInv
  BY DEF CostInv
<1>2. /\ used \in Nat /\ by \in Answered /\ subPending \in 0 .. used /\ subSent \in 0 .. used
      /\ subMail \subseteq 0 .. used
  BY <1>1 DEF SubagentInv, HistoryInv
<1>3. /\ \A m \in DOMAIN by : by[m] = by[m]
      /\ \A s \in Sessions : log[s] = <<>> => log[s] = <<>>
  OBVIOUS
<1>4. CASE UNCHANGED Costs!vars
  <2>1. /\ UNCHANGED <<log, by, sessionOf, phase, at, runId, ledgers, ledger, captured, sub, open,
                       costs, used, subSent, subPending, subMail, up, mail>>
    BY <1>4 DEF Costs!vars, Costs!diskVars, Costs!processVars, Costs!sendVars, Costs!subVars,
                Costs!upVars, Costs!countVars
  <2>2. HistoryInv' /\ ProcessInv'
    BY <1>1, <2>1, HistorySame, ProcessSame
  <2>3. LedgersInv'
    BY <1>1, <2>1, LedgersSame
  <2>4. SubagentInv'
    BY <1>1, <1>2, <2>1, <2>3, SubagentStays
  <2>5. ReportsInv'
    BY <1>1, <2>1, ReportsSame
  <2>6. QED
    BY <2>2, <2>3, <2>4, <2>5 DEF CostInv
<1>5. ASSUME NEW s \in Sessions, NEW r \in Runs \cup {Nil}, Costs!SessionStart(s, r)
      PROVE  CostInv'
  <2>1. /\ HistoryInv' /\ by' = by
        /\ r # Nil => sessionOf'[r] = s
        /\ \A t \in Sessions : log'[t] = <<>> => log[t] = <<>>
        /\ \E j \in OwnersIn(log'[s]) : /\ Governs(log'[s], j, Len(log'[s]) + 1)
                                        /\ log'[s][j].session = s
                                        /\ log'[s][j].id = Costs!OwnId(s, r)
    BY <1>1, <1>5, HistoryStart
  <2>2. /\ phase' = "up" /\ at' = s /\ runId' = r
        /\ UNCHANGED <<costs, used, subSent, subPending, subMail, up, mail>>
    BY <1>5 DEF Costs!SessionStart, Costs!subVars, Costs!upVars
  <2>3. ProcessInv'
    BY <2>1, <2>2 DEF ProcessInv, Serving
  <2>4. LedgersInv'
    BY <1>1, <1>5, <2>1, LedgersBind
  <2>5. SubagentInv'
    BY <1>1, <1>2, <2>2, <2>4, SubagentStays
  <2>6. ReportsInv'
    BY <1>1, <2>1, <2>2, ReportsSame
  <2>7. QED
    BY <2>1, <2>3, <2>4, <2>5, <2>6 DEF CostInv
<1>6. CASE Costs!Answers
  <2>1. /\ HistoryInv' /\ ProcessInv'
        /\ DOMAIN by \subseteq DOMAIN by' /\ \A m \in DOMAIN by : by'[m] = by[m]
        /\ \A t \in Sessions : log'[t] = <<>> => log[t] = <<>>
    BY <1>1, <1>6, HistoryAnswers
  <2>2. UNCHANGED <<phase, at, ledgers, ledger, captured, sub, open, costs, used, subSent,
                    subPending, subMail, up, mail>>
    BY <1>6 DEF Costs!Answers, Costs!processVars, Costs!subVars, Costs!upVars
  <2>3. LedgersInv'
    BY <1>1, <2>1, <2>2, LedgersSame
  <2>4. SubagentInv'
    BY <1>1, <1>2, <2>2, <2>3, SubagentStays
  <2>5. by' \in Answered /\ used' \in Nat /\ used <= used'
    BY <1>2, <2>1, <2>2 DEF HistoryInv
  <2>6. ReportsInv'
    BY <1>1, <1>2, <2>1, <2>2, <2>5, ReportsLater
  <2>7. QED
    BY <2>1, <2>3, <2>4, <2>6 DEF CostInv
<1>7. ASSUME NEW s \in Sessions, NEW t \in Sessions, Costs!Fork(s, t)
      PROVE  CostInv'
  <2>1. /\ HistoryInv' /\ ProcessInv' /\ by' = by
        /\ log[t] = <<>> /\ log'[t] # <<>>
        /\ phase # "down" => at # t
        /\ \A u \in Sessions \ {t} : log'[u] = log[u]
    BY <1>1, <1>7, HistoryFork
  <2>2. UNCHANGED <<used, subSent, subPending, subMail, up, mail>>
    BY <1>7 DEF Costs!Fork, Costs!subVars, Costs!upVars
  <2>3. LedgersInv' /\ \A u \in Sessions : log[u] # <<>> => costs'[u] = costs[u]
    BY <1>1, <1>7, <2>1, LedgersFork
  <2>4. SubagentInv'
    BY <2>2, <2>3, SubagentForked
  <2>5. ReportsInv'
    BY <1>1, <2>1, <2>2, ReportsSame
  <2>6. QED
    BY <2>1, <2>3, <2>4, <2>5 DEF CostInv
<1>8. ASSUME NEW why, NEW report, NEW n, Quietly(why, report, n)
      PROVE  HistoryInv' /\ by' = by /\ log' = log /\ sessionOf' = sessionOf
  BY <1>1, <1>8, QuietSteps, HistorySame
<1>9. ASSUME NEW why, NEW report, NEW n, Quietly(why, report, n),
             UNCHANGED <<phase, at, runId, ledgers, ledger, captured, sub, open, costs, used>>
      PROVE  HistoryInv' /\ ProcessInv' /\ LedgersInv' /\ by' = by
  <2>1. HistoryInv' /\ by' = by /\ log' = log /\ sessionOf' = sessionOf
    BY <1>8, <1>9
  <2>2. ProcessInv'
    BY <1>1, <1>9, <2>1, ProcessSame
  <2>3. LedgersInv'
    BY <1>1, <1>9, <2>1, LedgersSame
  <2>4. QED
    BY <2>1, <2>2, <2>3
<1>10. ASSUME NEW why \in {"reload", "other"}, Costs!Shutdown(why)
       PROVE  CostInv'
  <2>1. HistoryInv' /\ by' = by /\ log' = log /\ sessionOf' = sessionOf
    BY <1>8, <1>10 DEF Quietly
  <2>2. /\ phase = "up" /\ phase' = "leaving"
        /\ UNCHANGED <<at, runId, ledgers, ledger, captured, sub, open, costs, used, subSent,
                       subPending, subMail, up, mail>>
    BY <1>10 DEF Costs!Shutdown, Costs!diskVars, Costs!subVars, Costs!upVars
  <2>3. ProcessInv'
    BY <1>1, <2>1, <2>2, ProcessGoesOn
  <2>4. LedgersInv'
    BY <1>1, <2>1, <2>2, LedgersServe DEF Serving
  <2>5. SubagentInv' /\ ReportsInv'
    BY <1>1, <1>2, <2>1, <2>2, <2>4, SubagentStays, ReportsSame
  <2>6. QED
    BY <2>1, <2>3, <2>4, <2>5 DEF CostInv
<1>11. CASE Costs!Tick
  <2>1. /\ phase = "up" /\ mail' = mail \cup {Costs!Report}
        /\ UNCHANGED <<phase, at, runId, ledgers, ledger, captured, sub, open, costs, used,
                       subSent, subPending, subMail, up>>
    BY <1>11 DEF Costs!Tick, Costs!Flush, Costs!diskVars, Costs!processVars, Costs!subVars
  <2>2. HistoryInv' /\ ProcessInv' /\ LedgersInv' /\ by' = by
    BY <1>9, <1>11, <2>1 DEF Quietly
  <2>3. SubagentInv'
    BY <1>1, <1>2, <2>1, <2>2, SubagentStays
  <2>4. ReportsInv'
    BY <2>1, <2>2, ReportsSent
  <2>5. QED
    BY <2>2, <2>3, <2>4 DEF CostInv
<1>12. CASE Costs!TimesOut
  <2>1. /\ mail' \subseteq mail
        /\ UNCHANGED <<phase, at, runId, ledgers, ledger, captured, sub, open, costs, used,
                       subSent, subPending, subMail, up>>
    BY <1>12 DEF Costs!TimesOut, Costs!diskVars, Costs!processVars, Costs!subVars
  <2>2. HistoryInv' /\ ProcessInv' /\ LedgersInv' /\ by' = by
    BY <1>9, <1>12, <2>1 DEF Quietly
  <2>3. SubagentInv' /\ ReportsInv'
    BY <1>1, <1>2, <2>1, <2>2, SubagentStays, ReportsSame
  <2>4. QED
    BY <2>2, <2>3 DEF CostInv
<1>13. CASE Costs!LastFlush
  <2>1. HistoryInv' /\ by' = by /\ log' = log /\ sessionOf' = sessionOf
    BY <1>8, <1>13 DEF Quietly
  <2>2. /\ phase = "leaving" /\ phase' = "flushed" /\ mail' \subseteq mail \cup {Costs!Report}
        /\ UNCHANGED <<at, runId, ledgers, ledger, captured, sub, open, costs, used, subSent,
                       subPending, subMail, up>>
    BY <1>13 DEF Costs!LastFlush, Costs!Flush, Costs!diskVars, Costs!subVars
  <2>3. ProcessInv'
    BY <1>1, <2>1, <2>2, ProcessGoesOn
  <2>4. LedgersInv'
    BY <1>1, <2>1, <2>2, LedgersServe DEF Serving
  <2>5. SubagentInv' /\ ReportsInv'
    BY <1>1, <1>2, <2>1, <2>2, <2>4, SubagentStays, ReportsSent
  <2>6. QED
    BY <2>1, <2>3, <2>4, <2>5 DEF CostInv
<1>14. CASE Costs!Unbind
  <2>1. HistoryInv' /\ by' = by /\ log' = log /\ sessionOf' = sessionOf
    BY <1>8, <1>14 DEF Quietly
  <2>2. /\ phase = "flushed" /\ phase' = "between"
        /\ UNCHANGED <<at, runId, costs, used, subSent, subPending, subMail, up, mail>>
    BY <1>14 DEF Costs!Unbind, Costs!diskVars, Costs!upVars
  <2>3. ProcessInv'
    BY <1>1, <2>1, <2>2, ProcessGoesOn
  <2>4. LedgersInv'
    BY <1>1, <1>14, LedgersUnbind
  <2>5. SubagentInv' /\ ReportsInv'
    BY <1>1, <1>2, <2>1, <2>2, <2>4, SubagentStays, ReportsSame
  <2>6. QED
    BY <2>1, <2>3, <2>4, <2>5 DEF CostInv
<1>15. CASE Costs!Exit \/ Costs!Crash
  <2>1. HistoryInv' /\ by' = by
    BY <1>8, <1>15 DEF Quietly
  <2>2. Costs!Down
    BY <1>15 DEF Costs!Exit, Costs!Crash
  <2>3. /\ subPending' = 0 /\ subMail' = {}
        /\ UNCHANGED <<costs, used, subSent, up, mail>>
    BY <2>2 DEF Costs!Down, Costs!diskVars, Costs!upVars
  <2>4. ProcessInv' /\ LedgersInv'
    BY <1>1, <2>2, ProcessDown, LedgersDown
  <2>5. subPending' \in 0 .. used /\ subMail' \subseteq 0 .. used
    BY <1>2, <2>3
  <2>6. SubagentInv' /\ ReportsInv'
    BY <1>1, <2>1, <2>3, <2>4, <2>5, SubagentStays, ReportsSame
  <2>7. QED
    BY <2>1, <2>4, <2>6 DEF CostInv
<1>16. ASSUME NEW report \in mail, Costs!Deliver(report)
       PROVE  CostInv'
  <2>1. /\ mail' \subseteq mail /\ up' = Costs!Merge(up, report)
        /\ UNCHANGED <<phase, at, runId, ledgers, ledger, captured, sub, open, costs, used,
                       subSent, subPending, subMail>>
    BY <1>16 DEF Costs!Deliver, Costs!diskVars, Costs!processVars, Costs!subVars
  <2>2. HistoryInv' /\ ProcessInv' /\ LedgersInv' /\ by' = by
    BY <1>9, <1>16, <2>1 DEF Quietly
  <2>3. SubagentInv' /\ ReportsInv'
    BY <1>1, <1>2, <2>1, <2>2, SubagentStays, ReportsDelivered
  <2>4. QED
    BY <2>2, <2>3 DEF CostInv
<1>17. CASE Costs!Spawn
  <2>1. HistoryInv' /\ by' = by /\ log' = log /\ sessionOf' = sessionOf
    BY <1>8, <1>17 DEF Quietly
  <2>2. UNCHANGED <<phase, at, runId, costs, used, subSent, subPending, subMail, up, mail>>
    BY <1>17 DEF Costs!Spawn, Costs!diskVars, Costs!processVars, Costs!upVars
  <2>3. ProcessInv' /\ LedgersInv'
    BY <1>1, <1>17, <2>1, <2>2, ProcessSame, LedgersSpawn
  <2>4. SubagentInv' /\ ReportsInv'
    BY <1>1, <1>2, <2>1, <2>2, <2>3, SubagentStays, ReportsSame
  <2>5. QED
    BY <2>1, <2>3, <2>4 DEF CostInv
<1>18. CASE Costs!Uses
  <2>1. HistoryInv' /\ by' = by /\ log' = log /\ sessionOf' = sessionOf
    BY <1>8, <1>18 DEF Quietly
  <2>2. /\ used' = used + 1
        /\ UNCHANGED <<phase, at, runId, costs, subSent, subPending, subMail, up, mail>>
    BY <1>18 DEF Costs!Uses, Costs!diskVars, Costs!processVars, Costs!upVars
  <2>3. ProcessInv' /\ LedgersInv'
    BY <1>1, <1>2, <1>18, <2>1, <2>2, ProcessSame, LedgersUses
  <2>4. /\ used' \in Nat /\ used <= used' /\ subSent' \in 0 .. used' /\ subPending' \in 0 .. used'
        /\ subMail' \subseteq 0 .. used'
    BY <1>2, <2>2
  <2>5. \A s \in Sessions : Saved(costs', s) >= Saved(costs, s)
    BY <1>1, <1>2, <2>2, SavedIs DEF Saved
  <2>6. SubagentInv'
    BY <1>1, <2>2, <2>3, <2>4, <2>5, SubagentGoesOn
  <2>7. DOMAIN by \subseteq DOMAIN by' /\ by' \in Answered /\ \A m \in DOMAIN by : by'[m] = by[m]
    BY <1>2, <2>1
  <2>8. ReportsInv'
    BY <1>1, <1>2, <2>2, <2>4, <2>7, ReportsLater
  <2>9. QED
    BY <2>1, <2>3, <2>6, <2>8 DEF CostInv
<1>19. CASE Costs!SubFlush \/ Costs!SubTimesOut
  <2>1. /\ subPending' \in {0, used} /\ subMail' \subseteq subMail \cup {used}
        /\ UNCHANGED <<phase, at, runId, ledgers, ledger, captured, sub, open, costs, used,
                       subSent, up, mail>>
    BY <1>19 DEF Costs!SubFlush, Costs!SubTimesOut, Costs!diskVars, Costs!processVars,
                 Costs!upVars
  <2>2. HistoryInv' /\ ProcessInv' /\ LedgersInv' /\ by' = by
    BY <1>9, <1>19, <2>1 DEF Quietly
  <2>3. subPending' \in 0 .. used /\ subMail' \subseteq 0 .. used
    BY <1>2, <2>1
  <2>4. SubagentInv' /\ ReportsInv'
    BY <1>1, <2>1, <2>2, <2>3, SubagentStays, ReportsSame
  <2>5. QED
    BY <2>2, <2>4 DEF CostInv
<1>20. ASSUME NEW n, Costs!Observe(n)
       PROVE  CostInv'
  <2>1. HistoryInv' /\ by' = by /\ log' = log /\ sessionOf' = sessionOf
    BY <1>8, <1>20 DEF Quietly
  <2>2. /\ sub = "running" /\ n \in 0 .. used /\ Costs!CanRecord /\ Costs!Record(n)
        /\ UNCHANGED <<phase, at, runId, ledger, captured, sub, open, used, subSent, subPending,
                       subMail, up, mail>>
    BY <1>20 DEF Costs!Observe, Costs!subVars, Costs!upVars
  <2>3. captured # 0
    BY <1>1, <2>2 DEF LedgersInv
  <2>4. /\ LedgersInv'
        /\ \A s \in Sessions : Costs!Used(costs'[s], Costs!RunId(Sub))
                                 >= Costs!Used(costs[s], Costs!RunId(Sub))
    BY <2>1, <2>2, <2>3, Recorded
  <2>5. ProcessInv'
    BY <1>1, <2>1, <2>2, ProcessSame
  <2>6. \A s \in Sessions : Saved(costs', s) >= Saved(costs, s)
    BY <2>4 DEF Saved
  <2>7. /\ used' \in Nat /\ subSent' \in 0 .. used' /\ subPending' \in 0 .. used'
        /\ subMail' \subseteq 0 .. used' /\ subSent' = subSent
    BY <1>2, <2>2
  <2>8. SubagentInv'
    BY <1>1, <2>4, <2>6, <2>7, SubagentGoesOn
  <2>9. ReportsInv'
    BY <1>1, <2>1, <2>2, ReportsSame
  <2>10. QED
    BY <2>1, <2>4, <2>5, <2>8, <2>9 DEF CostInv
<1>21. ASSUME NEW n, Costs!Receive(n)
       PROVE  CostInv'
  <2>1. HistoryInv' /\ by' = by /\ log' = log /\ sessionOf' = sessionOf
    BY <1>8, <1>21 DEF Quietly
  <2>2. /\ n \in subMail /\ open /\ Costs!CanRecord /\ Costs!Record(n)
        /\ subMail' = subMail \ {n}
        /\ \/ subSent' = n /\ subPending' = 0
           \/ UNCHANGED <<subSent, subPending>>
        /\ UNCHANGED <<phase, at, runId, ledger, captured, sub, open, used, up, mail>>
    BY <1>21 DEF Costs!Receive, Costs!upVars
  <2>3. captured # 0 /\ n \in 0 .. used
    BY <1>1, <1>2, <2>2 DEF LedgersInv
  <2>4. /\ LedgersInv' /\ at \in Sessions
        /\ Costs!Used(costs'[at], Costs!RunId(Sub)) >= n
        /\ \A s \in Sessions : Costs!Used(costs'[s], Costs!RunId(Sub))
                                 >= Costs!Used(costs[s], Costs!RunId(Sub))
    BY <2>1, <2>2, <2>3, Recorded
  <2>5. ProcessInv'
    BY <1>1, <2>1, <2>2, ProcessSame
  <2>6. /\ \A s \in Sessions : Saved(costs', s) >= Saved(costs, s)
        /\ subSent' = subSent \/ \E s \in Sessions : Saved(costs', s) >= subSent'
    BY <2>2, <2>4 DEF Saved
  <2>7. /\ used' \in Nat /\ subSent' \in 0 .. used' /\ subPending' \in 0 .. used'
        /\ subMail' \subseteq 0 .. used'
    BY <1>2, <2>2, <2>3
  <2>8. SubagentInv'
    BY <1>1, <2>4, <2>6, <2>7, SubagentGoesOn
  <2>9. ReportsInv'
    BY <1>1, <2>1, <2>2, ReportsSame
  <2>10. QED
    BY <2>1, <2>4, <2>5, <2>8, <2>9 DEF CostInv
<1>22. ASSUME NEW n, Costs!Refuse(n)
       PROVE  CostInv'
  <2>1. /\ subMail' \subseteq subMail /\ subPending' \in {0, subPending}
        /\ UNCHANGED <<phase, at, runId, ledgers, ledger, captured, sub, open, costs, used,
                       subSent, up, mail>>
    BY <1>22 DEF Costs!Refuse, Costs!diskVars, Costs!processVars, Costs!upVars
  <2>2. HistoryInv' /\ ProcessInv' /\ LedgersInv' /\ by' = by
    BY <1>9, <1>22, <2>1 DEF Quietly
  <2>3. subPending' \in 0 .. used /\ subMail' \subseteq 0 .. used
    BY <1>2, <2>1
  <2>4. SubagentInv' /\ ReportsInv'
    BY <1>1, <2>1, <2>2, <2>3, SubagentStays, ReportsSame
  <2>5. QED
    BY <2>2, <2>4 DEF CostInv
<1>23. CASE Costs!Next
  BY <1>5, <1>6, <1>7, <1>10, <1>11, <1>12, <1>13, <1>14, <1>15, <1>16, <1>17, <1>18, <1>19,
     <1>20, <1>21, <1>22, <1>23, StepsAre
<1>24. QED
  BY <1>4, <1>23

LEMMA CostAlways == Costs!Spec => []CostInv
<1>1. Costs!Init => CostInv
  BY CostInit
<1>2. CostInv /\ [Costs!Next]_(Costs!vars) => CostInv'
  BY CostStep
<1>3. QED
  BY <1>1, <1>2, PTL DEF Costs!Spec

LEMMA CostTypes ==
  ASSUME CostInv
  PROVE  Costs!TypeOK
<1>1. HistoryInv /\ ProcessInv /\ LedgersInv /\ SubagentInv /\ ReportsInv
  BY DEF CostInv
<1>2. /\ phase \in {"down", "up", "leaving", "flushed", "between"}
      /\ (ledger # 0 /\ ledgers[ledger].append) = (phase \in {"up", "leaving", "flushed"})
  BY <1>1 DEF ProcessInv, LedgersInv, Serving
<1>3. \A s \in Sessions : DOMAIN costs[s] \subseteq Costs!Ids
  <2>1. TAKE s \in Sessions
  <2>2. DOMAIN costs[s] \subseteq {Costs!RunId(Sub)}
    BY <1>1, SubAccountsAre DEF LedgersInv, SubagentInv
  <2>3. QED
    BY <2>2 DEF Costs!Ids
<1>4. QED
  BY <1>1, <1>2, <1>3 DEF ProcessInv, LedgersInv, SubagentInv, ReportsInv, Fits, Costs!TypeOK

(* The types of the accounts, and that only the ledger of the session writes *)
THEOREM CostsAreTyped == Costs!Spec => []Costs!TypeOK
<1>1. CostInv => Costs!TypeOK
  BY CostTypes
<1>2. QED
  BY <1>1, CostAlways, PTL

(* Over restarts, reloads, forks, timeouts and late reports: what a ledger has counted and what
   a subagent was told is counted is saved; each run counts what was spent in it; and the
   process above counts nothing twice and nothing that was not spent *)
THEOREM CostsAreSafe == Costs!Spec => []CostsSafe
<1>1. CostInv => CostsSafe
  BY CountedOnceHolds, CountsItsOwnHolds
     DEF CostInv, LedgersInv, SubagentInv, CostsSafe, Costs!LedgerIsSaved, Serving
<1>2. QED
  BY <1>1, CostAlways, PTL

-----------------------------------------------------------------------------
(* All of it together *)

(* The types of all parts, and the relations of state that they state *)
THEOREM ConversationsTypes ==
  Board!Spec /\ Thread!Spec /\ Context!Spec /\ Costs!Spec => []TypesOK
<1>1. Board!TypeOK /\ Thread!TypeOK /\ Context!TypeOK /\ Costs!TypeOK => TypesOK
  BY DEF TypesOK
<1>2. QED
  BY <1>1, BoardIsSafe, ThreadIsSafe, ContextTypes, CostsAreTyped, PTL

(* Cards in sight in columns that are, and attachments with a file *)
THEOREM BoardsAreSafe == Board!Spec /\ Thread!Spec => []BoardsSafe
<1>1. Board!CardsInSight /\ Thread!MediaHasBlob => BoardsSafe
  BY DEF BoardsSafe
<1>2. QED
  BY <1>1, BoardIsSafe, ThreadIsSafe, PTL

(* Columns keep their order, and attachments stay with the cards they were meant for *)
THEOREM BoardsKeepTheirOrder == Board!Spec /\ Thread!Spec => BoardsKeep
  BY ColumnsStayInOrder, AttachmentsStayWithCards DEF BoardsKeep

=============================================================================
