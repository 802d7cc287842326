-------------------------- MODULE MCConversations --------------------------
(***************************************************************************)
(* Conversations for TLC: a behaviour is one of one of the parts, chosen   *)
(* at the start.  The board is looked at twice, with cards, and with more  *)
(* columns and no cards; so are the accounts, over runs and forks without  *)
(* a subagent, and with one.                                               *)
(***************************************************************************)
EXTENDS Conversations

CONSTANTS launch, lib, systemFile, libFile

VARIABLE part

MCDefaults == <<"backlog">>

(* The directory lib, with instructions of its own, is below that of the start *)
MCAbove == [d \in {launch, lib} |-> IF d = launch THEN {systemFile}
                                   ELSE {systemFile, libFile}]

(* A run that is resumed, a session that is copied and one of before: the first answer is
   there at the start *)
Spent == INSTANCE CostTree WITH None <- Nil, MaxUsed <- 0, MaxFaults <- 0

(* A subagent that reports twice, over a reload or a switch to another session *)
Reported == INSTANCE CostTree
              WITH None <- Nil, Runs <- {}, MaxAnswers <- 1, MaxForks <- 0, MaxStarts <- 2

(* The board is looked at with few columns, all with names of their own, and without cards *)
FewColumns == Len(columns) <= 2 /\ \A k \in DOMAIN columns : columns[k].name = "own"
NoCards == \A c \in Editors : requests[c].op # "newTask"

vars == <<part, boardVars, threadVars, contextVars, costVars>>

Init ==
  /\ part \in {"board", "wide", "thread", "context", "spent", "costs"}
  /\ Board!Init /\ Thread!Init /\ Context!Init
  /\ IF part = "spent" THEN Spent!Init ELSE Reported!Init

Next ==
  \/ /\ \/ part = "board" /\ Board!Next /\ FewColumns'
        \/ part = "wide" /\ Board!Next /\ NoCards'
     /\ UNCHANGED <<part, threadVars, contextVars, costVars>>
  \/ part = "thread" /\ Thread!Next /\ UNCHANGED <<part, boardVars, contextVars, costVars>>
  \/ part = "context" /\ Context!Next /\ UNCHANGED <<part, boardVars, threadVars, costVars>>
  \/ part = "spent" /\ Spent!Next /\ UNCHANGED <<part, boardVars, threadVars, contextVars>>
  \/ part = "costs" /\ Reported!Next /\ UNCHANGED <<part, boardVars, threadVars, contextVars>>

(* The interval of the reports, and a process above that reads them *)
Fairness ==
  /\ WF_costVars(part = "costs" /\ Reported!Tick)
  /\ WF_costVars(part = "costs" /\ Reported!Arrives)

Spec == Init /\ [][Next]_vars /\ Fairness

-----------------------------------------------------------------------------
(* The safety properties, of states and of steps, are those of Conversations. *)

(* While a session goes on what it has counted reaches the process above    *)
CostsArrive == (part = "costs" /\ phase = "up") ~> (phase # "up" \/ Reported!AllArrived)

=============================================================================
