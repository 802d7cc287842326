------------------------------ MODULE Helpers ------------------------------
(***************************************************************************)
(* The helpers of a session that run beside the host and must neither be   *)
(* lost nor outstay it: the guardians of scratch directories, which are    *)
(* this module's own, language servers behind their workers, and the       *)
(* workers of subagents.  As modelled they share no state.                 *)
(***************************************************************************)
EXTENDS ScratchGuardian

CONSTANTS
  Ids, Callers, Asks, MaxSessions,                              \* language servers
  Owners, Commands, InHost, MaxActive, MaxEndpoints, Credits    \* subagents

VARIABLES
  sessions, inflight, draining, drains, made, status, hooked, linked, threads, server,
  disposed, post, lspPc, got,
  session, bound, ownerOf, endpoint, active, operations, worker, timers, paused, sent, held,
  sock, at, full, answers, rpcCall, via, aborted, quit, awaited

Lsp == INSTANCE LspSessions WITH pc <- lspPc
Rpc == INSTANCE SubagentRpc WITH Clients <- Commands, Calls <- InHost, call <- rpcCall

lspVars == <<sessions, inflight, draining, drains, made, status, hooked, linked, threads,
             server, disposed, post, lspPc, got>>
subagentVars == <<session, bound, ownerOf, endpoint, active, operations, worker, timers, paused,
                  sent, held, sock, at, full, answers, rpcCall, via, aborted, quit, awaited>>

LspConstants ==
  /\ MaxSessions \in Nat
  /\ None \notin Callers /\ None \notin Lsp!Sessions
  /\ \A c \in Callers : Asks[c].id \in Ids

RpcConstants ==
  /\ Commands \cap InHost = {}
  /\ MaxEndpoints \in Nat /\ MaxActive \in Nat /\ Credits \in Nat
  /\ None \notin Rpc!Endpoints

ASSUME HelpersAssumption == LspConstants /\ RpcConstants

-----------------------------------------------------------------------------
(* Types, and the relations of state that the parts' type invariants state: what guardians have
   written can be read again, a call that waits for a server waits for one that is provisioned,
   sockets and runs are of endpoints that were made *)
TypesOK == TypeOK /\ Lsp!TypeOK /\ Rpc!TypeOK

(* A language server that runs is in reach, and provisioned by one call      *)
ServersSafe == Lsp!ServersSafe

(* A command is answered once, a run holds its operation, and no worker waits for credits
   that nobody will give *)
RunsSafe == Rpc!RunsSafe

=============================================================================
