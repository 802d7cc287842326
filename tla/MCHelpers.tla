----------------------------- MODULE MCHelpers -----------------------------
(***************************************************************************)
(* Helpers for TLC: a behaviour is one of one of the helpers, chosen at    *)
(* the start, while the others stay where they begin.                      *)
(***************************************************************************)
EXTENDS Helpers

CONSTANTS
  s1, s2, h1, h2,    \* scopes and hosts of the guardians
  i1, c1, c2, c3     \* an id and callers of language servers

VARIABLE part

(* Each scope has a host of its own, so that one can register after the other's host died *)
HostOfDef == [s \in Scopes |-> IF s = s2 THEN h2 ELSE h1]

(* The directory that is kept is only left behind by its host; the other is closed, perhaps
   twice *)
MaxCallsDef == [s \in Scopes |-> IF s = s2 THEN 0 ELSE 2]

(* Of three calls for one server the second names an environment file *)
AsksDef == [c \in Callers |-> [id |-> i1, env |-> IF c = c2 THEN "env" ELSE None]]

allVars == <<part, vars, lspVars, subagentVars>>

MCInit == part \in {"guardian", "lsp", "rpc"} /\ Init /\ Lsp!Init /\ Rpc!Init

MCNext ==
  \/ part = "guardian" /\ Next /\ UNCHANGED <<part, lspVars, subagentVars>>
  \/ part = "lsp" /\ Lsp!Next /\ UNCHANGED <<part, vars, subagentVars>>
  \/ part = "rpc" /\ Rpc!Next /\ UNCHANGED <<part, vars, lspVars>>

(* The fairness of the parts, each while it is the one that runs *)
Fairness ==
  /\ \A s \in Scopes : WF_vars(part = "guardian" /\ Guardian(s))
  /\ \A e \in Rpc!Endpoints :
       /\ WF_subagentVars(part = "rpc" /\ (Rpc!Listening(e) \/ Rpc!BindFails(e)))
       /\ WF_subagentVars(part = "rpc" /\ Rpc!Closed(e))
  /\ \A r \in Rpc!Runs :
       /\ WF_subagentVars(part = "rpc" /\ Rpc!Terminate(r))
       /\ WF_subagentVars(part = "rpc" /\ worker[r] = "ending" /\ Rpc!Exit(r))
  /\ \A c \in Commands : WF_subagentVars(part = "rpc" /\ Rpc!HangUp(c))
  /\ WF_subagentVars(part = "rpc" /\ Rpc!Stopped)

MCSpec == MCInit /\ [][MCNext]_allVars /\ Fairness

-----------------------------------------------------------------------------
(* GuardianSafe is that of ScratchGuardian, TypesOK, ServersSafe and RunsSafe those of Helpers. *)

(* What a dead host held is swept, and a quit ends, whatever clients and     *)
(* workers do                                                                *)
HelpersEnd == HeldIsSwept /\ Rpc!QuitEnds

=============================================================================
