------------------------------- MODULE Board -------------------------------
(***************************************************************************)
(* The board of one tuidos project: its columns and its cards.             *)
(*                                                                         *)
(* Several clients work on the same SQLite files at once: runs of clidos   *)
(* and requests served by the web server.  A transaction is one step; what *)
(* lies between two transactions of a client, and between what it read to  *)
(* check a request and the transaction that carries it out, is not.  A     *)
(* client may stop, or its transaction be refused, at any of its steps.    *)
(*                                                                         *)
(* A project is made in steps: its row in the global database, its         *)
(* directory and database, its default columns, its default topics (these  *)
(* last are CardThread's).  Columns and cards are numbered in the order of *)
(* their creation, which breaks ties between columns of equal positions;   *)
(* columns that one transaction makes have different ones.                 *)
(***************************************************************************)
EXTENDS Integers, FiniteSets, Sequences, Functions, FiniteSetsExt

CONSTANTS
  Clients,       \* processes and requests that use the board
  Defaults,      \* the names of the default columns, in order
  MaxColumns,    \* bound: columns ever made
  MaxTasks,      \* bound: cards ever made
  MaxPosition    \* bound: no card is placed beyond it

VARIABLES
  project,    \* how much of the project there is
  columns,    \* the columns table with column_display, by id
  tasks,      \* the tasks table with task_display, by id
  requests    \* what each client is about to do

Columns == 1..MaxColumns
Tasks == 1..MaxTasks
NoId == 0

vars == <<project, columns, tasks, requests>>

Idle == [op |-> "none", task |-> NoId, column |-> NoId]

\* Names that are not a default's only have to differ: one value for all.
Names == Range(Defaults) \cup {"own"}

ColumnRow == [name : Names, active : BOOLEAN, position : Nat]
TaskRow == [column : Columns, active : BOOLEAN, position : 0..MaxPosition]

Ops == {"none", "init", "initOnly", "seed", "newTask", "editMove", "move"}

TypeOK ==
  /\ project \in {"absent", "listed", "ready"}
  /\ Len(columns) <= MaxColumns /\ columns \in Seq(ColumnRow)
  /\ Len(tasks) <= MaxTasks /\ tasks \in Seq(TaskRow)
  /\ requests \in [Clients -> [op : Ops, task : Tasks \cup {NoId},
                               column : Columns \cup {NoId}]]

Init ==
  /\ project = "absent"
  /\ columns = <<>>
  /\ tasks = <<>>
  /\ requests = [c \in Clients |-> Idle]

-----------------------------------------------------------------------------
(* What queries return. *)

ActiveColumns == {c \in DOMAIN columns : columns[c].active}

Before(a, b) ==
  \/ columns[a].position < columns[b].position
  \/ /\ columns[a].position = columns[b].position
     /\ a < b

\* How many of some columns are shown before one.
Place(k, among) == Cardinality({j \in among : Before(j, k)})

FirstColumn == CHOOSE c \in ActiveColumns : \A k \in ActiveColumns \ {c} : Before(c, k)

InColumn(c) == {t \in DOMAIN tasks : tasks[t].column = c}

\* Where a card appended to a column goes: archived cards keep their places.
NextPositionOfActive(c) ==
  Max({-1} \cup {tasks[t].position : t \in {u \in InColumn(c) : tasks[u].active}}) + 1

NextPosition(c) == Max({-1} \cup {tasks[t].position : t \in InColumn(c)}) + 1

\* Where a new column goes: archived columns keep theirs too.
NextColumnPosition ==
  Max({-1} \cup {columns[c].position : c \in DOMAIN columns}) + 1

NamesInUse == {columns[c].name : c \in DOMAIN columns} \ {"own"}

Turn(c, op) == requests' = [requests EXCEPT ![c] = IF op = "none" THEN Idle
                                                    ELSE [@ EXCEPT !.op = op]]
Done(c) == Turn(c, "none")

-----------------------------------------------------------------------------
(* Making the project. *)

CreateProject(c) ==
  /\ requests[c] = Idle
  /\ project = "absent"
  /\ project' = "listed"
  /\ \E op \in {"init", "initOnly"} : Turn(c, op)
  /\ UNCHANGED <<columns, tasks>>

InitProjectDb(c) ==
  /\ requests[c].op \in {"init", "initOnly"}
  /\ project' = "ready"
  /\ Turn(c, IF requests[c].op = "init" THEN "seed" ELSE "none")
  /\ UNCHANGED <<columns, tasks>>

AddDefaults(c) ==
  /\ requests[c] = Idle
  /\ project # "absent"
  /\ Turn(c, "seed")
  /\ UNCHANGED <<project, columns, tasks>>

\* The default columns that are missing by name, in their order, each at its own position.
SeedColumns(c) ==
  LET missing == {i \in DOMAIN Defaults : Defaults[i] \notin NamesInUse}
  IN /\ requests[c].op = "seed"
     /\ project = "ready"
     /\ Len(columns) + Cardinality(missing) <= MaxColumns
     /\ \E order \in [1 .. Cardinality(missing) -> missing] :
          /\ \A i, j \in DOMAIN order : i < j => order[i] < order[j]
          /\ columns' = columns \o [i \in DOMAIN order |->
               [name |-> Defaults[order[i]], active |-> TRUE, position |-> order[i] - 1]]
     /\ Done(c)
     /\ UNCHANGED <<project, tasks>>

-----------------------------------------------------------------------------
(* Columns.  Each of these is one transaction of whatever client, which    *)
(* checks all it needs.                                                    *)

CreateColumn(name) ==
  /\ project = "ready"
  /\ Len(columns) < MaxColumns
  /\ name \notin NamesInUse
  /\ columns' = Append(columns,
       [name |-> name, active |-> TRUE, position |-> NextColumnPosition])
  /\ UNCHANGED <<project, tasks, requests>>

RenameColumn(column, name) ==
  /\ column \in ActiveColumns
  /\ name \notin NamesInUse \ {columns[column].name}
  /\ columns' = [columns EXCEPT ![column].name = name]
  /\ UNCHANGED <<project, tasks, requests>>

MoveColumnOnly(column, n) ==
  /\ column \in ActiveColumns
  /\ n < Cardinality(ActiveColumns)
  /\ columns' = [columns EXCEPT ![column].position = n]
  /\ UNCHANGED <<project, tasks, requests>>

\* All active columns get dense positions again: the others in the order they have, those
\* from n on one place later.
MoveColumn(column, n) ==
  LET place(k) == Place(k, ActiveColumns \ {column})
      moved(k) == IF k = column THEN n ELSE IF place(k) < n THEN place(k) ELSE place(k) + 1
  IN /\ column \in ActiveColumns
     /\ n < Cardinality(ActiveColumns)
     /\ columns' = [k \in DOMAIN columns |->
          IF k \in ActiveColumns THEN [columns[k] EXCEPT !.position = moved(k)] ELSE columns[k]]
     /\ UNCHANGED <<project, tasks, requests>>

ArchiveColumn(column) ==
  /\ column \in ActiveColumns
  /\ \A t \in InColumn(column) : ~tasks[t].active
  /\ columns' = [columns EXCEPT ![column].active = FALSE]
  /\ UNCHANGED <<project, tasks, requests>>

-----------------------------------------------------------------------------
(* Cards that are placed.  Ask is what a client reads before its           *)
(* transaction: a page or a command looks the card up and refuses a column *)
(* that is not active; what the transaction finds later may differ.  An    *)
(* edit moves the card too when the column asked for is not the one the    *)
(* card was read in.                                                       *)

Ask(c, op, task, column) ==
  /\ requests[c] = Idle
  /\ ActiveColumns # {}
  /\ \/ /\ op = "newTask" /\ task = NoId
        /\ column \in ActiveColumns \cup {NoId}
     \/ /\ op = "move" /\ task \in DOMAIN tasks
        /\ column \in ActiveColumns
     \/ /\ op = "editMove" /\ task \in DOMAIN tasks
        /\ tasks[task].active
        /\ column \in ActiveColumns \ {tasks[task].column}
  /\ requests' = [requests EXCEPT ![c] = [op |-> op, task |-> task, column |-> column]]
  /\ UNCHANGED <<project, columns, tasks>>

CreateTaskUnresolved(c) ==
  /\ requests[c].op = "newTask"
  /\ requests[c].column \in ActiveColumns \cup {NoId}
  /\ Len(tasks) < MaxTasks
  /\ tasks' = Append(tasks, [column |-> requests[c].column, active |-> TRUE,
                             position |-> 0])
  /\ Done(c)
  /\ UNCHANGED <<project, columns>>

\* The transaction looks the column up again, or takes the first one.
CreateTaskUnchecked(c) ==
  LET r == requests[c]
      column == IF r.column = NoId THEN FirstColumn ELSE r.column
  IN /\ r.op = "newTask"
     /\ Len(tasks) < MaxTasks
     /\ r.column = NoId => ActiveColumns # {}
     /\ NextPosition(column) <= MaxPosition
     /\ tasks' = Append(tasks, [column |-> column, active |-> TRUE,
                                position |-> NextPosition(column)])
     /\ Done(c)
     /\ UNCHANGED <<project, columns>>

CreateTask(c) ==
  /\ requests[c].column \in ActiveColumns \cup {NoId}
  /\ CreateTaskUnchecked(c)

\* The fields of a card are data here, and an edit that moves nothing no step;
\* an edit of an archived card is refused.
UpdateTask(c) ==
  /\ requests[c].op = "editMove"
  /\ tasks[requests[c].task].active
  /\ Turn(c, "move")
  /\ UNCHANGED <<project, columns, tasks>>

MoveTask(c) ==
  LET r == requests[c]
  IN /\ r.op = "move"
     /\ tasks[r.task].active
     /\ r.column \in ActiveColumns
     /\ NextPosition(r.column) <= MaxPosition
     /\ tasks' = [tasks EXCEPT ![r.task].column = r.column,
                               ![r.task].position = NextPosition(r.column)]
     /\ Done(c)
     /\ UNCHANGED <<project, columns>>

\* Cards that are archived and restored: one transaction each.
ArchiveTask(task) ==
  /\ task \in DOMAIN tasks
  /\ tasks[task].active
  /\ tasks' = [tasks EXCEPT ![task].active = FALSE]
  /\ UNCHANGED <<project, columns, requests>>

\* A card whose column was archived too is restored into the first column.
UnarchiveTask(task) ==
  LET old == tasks[task].column
      relocated == old \notin ActiveColumns
      column == IF relocated THEN FirstColumn ELSE old
      position == IF relocated THEN NextPosition(column) ELSE tasks[task].position
  IN /\ task \in DOMAIN tasks
     /\ ~tasks[task].active
     /\ relocated => ActiveColumns # {}
     /\ position <= MaxPosition
     /\ tasks' = [tasks EXCEPT ![task].active = TRUE,
                               ![task].column = column,
                               ![task].position = position]
     /\ UNCHANGED <<project, columns, requests>>

\* A refused or failed transaction, or the end of the client: nothing more
\* of its request happens; what it committed before stays.
Stop(c) ==
  /\ requests[c] # Idle
  /\ Done(c)
  /\ UNCHANGED <<project, columns, tasks>>

OnProject(c) ==
  CreateProject(c) \/ InitProjectDb(c) \/ AddDefaults(c) \/ SeedColumns(c) \/ Stop(c)

OnColumns ==
  \/ \E name \in Names : CreateColumn(name)
  \/ \E column \in Columns :
    \/ \E name \in Names : RenameColumn(column, name)
    \/ \E n \in 0..MaxColumns - 1 : MoveColumn(column, n)
    \/ ArchiveColumn(column)

OnTasks(c) ==
  \/ \E op \in {"newTask", "move", "editMove"}, task \in Tasks \cup {NoId}, column \in Columns \cup {NoId} :
       Ask(c, op, task, column)
  \/ CreateTask(c) \/ UpdateTask(c) \/ MoveTask(c)


Next ==
  \/ \E c \in Clients : OnProject(c) \/ OnTasks(c)
  \/ OnColumns
  \/ \E task \in Tasks : ArchiveTask(task) \/ UnarchiveTask(task)

Spec == Init /\ [][Next]_vars

-----------------------------------------------------------------------------
(* A card that is shown is in a column that is shown: nothing on the board *)
(* is out of sight, although columns and cards are archived and restored   *)
(* by clients that looked at the board some time ago.                      *)
ActiveInActive ==
  \A t \in DOMAIN tasks : tasks[t].active => tasks[t].column \in ActiveColumns

(* Two cards of a column never have one place, archived ones included: a   *)
(* restored card comes back to a place nobody took.                        *)
OwnPlace ==
  \A t, u \in DOMAIN tasks :
    tasks[t].column = tasks[u].column /\ tasks[t].position = tasks[u].position => t = u

CardsInSight == ActiveInActive /\ OwnPlace

(* Only its own move changes where a column stands among the others, and   *)
(* it then stands where it was asked to, whatever gaps and equal positions *)
(* archived and default columns have left; a column that createColumn      *)
(* makes is shown last.                                                    *)
ColumnsKeepOrder ==
  [][ LET stay == ActiveColumns \cap ActiveColumns'
          new == DOMAIN columns' \ DOMAIN columns
      IN /\ \E moved \in SUBSET stay :
              /\ Cardinality(moved) <= 1
              /\ \A a, b \in stay \ moved : Before(a, b) => Before(a, b)'
              /\ moved = {} \/ \E n \in 0..MaxColumns - 1 :
                   \A k \in moved : MoveColumn(k, n) /\ Place(k, ActiveColumns)' = n
         /\ new # {} /\ requests' = requests =>
              \A a \in new, b \in ActiveColumns : Before(b, a)' ]_vars

=============================================================================
