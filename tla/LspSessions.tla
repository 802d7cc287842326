---------------------------- MODULE LspSessions ----------------------------
(***************************************************************************)
(* Language servers (lib/lsp/manager.ts, session.ts, worker.mjs): one      *)
(* session, one worker thread and one server process for each pair of a    *)
(* language and a root, which concurrent calls share, replace and stop.    *)
(*                                                                         *)
(* An action is what the host does from one await or message to the next,  *)
(* or a step of a worker.  Calls that a promise has woken go on before     *)
(* anything else happens in the host (NoneWoken).                          *)
(***************************************************************************)
EXTENDS Integers, Sequences

CONSTANTS
  Ids,          \* pairs of a language and a root
  Callers,      \* calls of the tools, each made once
  Asks,         \* what each asks for: [id, env]
  MaxSessions,  \* bound on session objects
  None          \* no session, no caller, no dotenv file named

Sessions == 1 .. MaxSessions

VARIABLES
  (* LspState *)
  sessions,  \* the registered session of each id, or None
  inflight,  \* the call that provisions for each id, or None
  draining,  \* disposeAll is under way
  drains,    \* the ids whose provisioning it waits for
  (* LspSession *)
  made,      \* session objects so far: [id, env]
  status,    \* their state
  hooked,    \* sessions whose onDead is set
  linked,    \* sessions that have their worker
  (* worker threads *)
  threads,   \* workers that run
  server,    \* the server process of each: "none", "starting", "serving" or "exited"
  disposed,  \* workers that were posted "dispose"
  post,      \* messages and events of each worker on their way to the host
  (* calls *)
  pc,        \* where each is
  got        \* the session each works with, or None

stateVars == <<sessions, inflight, draining, drains>>
sessionVars == <<made, status, hooked, linked>>
workerVars == <<threads, server, disposed, post>>
callVars == <<pc, got>>
vars == <<stateVars, sessionVars, workerVars, callVars>>

States == {"none", "starting", "ready", "dead", "install-failed"}

Init ==
  /\ sessions = [i \in Ids |-> None] /\ inflight = [i \in Ids |-> None]
  /\ draining = FALSE /\ drains = {}
  /\ made = <<>> /\ status = [s \in Sessions |-> "none"]
  /\ hooked = {} /\ linked = {}
  /\ threads = {} /\ server = [s \in Sessions |-> "none"]
  /\ disposed = {} /\ post = [s \in Sessions |-> <<>>]
  /\ pc = [c \in Callers |-> "idle"]
  /\ got = [c \in Callers |-> None]

NoneWoken == \A c \in Callers : pc[c] # "woken"

-----------------------------------------------------------------------------
(* Sessions *)

Living(s) == status[s] \in {"starting", "ready"}

(* drainPending: what is asked of these sessions is answered with nothing *)
Drained(S) ==
  [c \in Callers |-> IF pc[c] = "linting" /\ got[c] \in S THEN "done" ELSE pc[c]]

(* onDead stays for another death *)
HooksAll(S) == hooked

(* A session dies once: its onDead is taken away as it is called *)
HooksLeft(S) == hooked \ {s \in S : Living(s)}

(* markDead: the session leaves the registry *)
MarkDead(s) ==
  /\ pc' = IF Living(s) THEN Drained({s}) ELSE pc
  /\ status' = [status EXCEPT ![s] = IF Living(s) THEN "dead" ELSE @]
  /\ sessions' = IF Living(s) /\ s \in hooked
                 THEN [sessions EXCEPT ![made[s].id] = None]
                 ELSE sessions
  /\ hooked' = HooksLeft({s})

(* stopSession of sessions that are out of the registry *)
StopSessions(S) ==
  /\ status' = [s \in Sessions |-> IF s \in S /\ Living(s) THEN "dead" ELSE status[s]]
  /\ hooked' = HooksLeft(S)
  /\ linked' = linked \ S
  /\ disposed' = disposed \cup (S \cap linked)

Registered(i) == IF sessions[i] = None THEN {} ELSE {sessions[i]}

-----------------------------------------------------------------------------
(* ensureSession *)

Usable(c) ==
  LET s == sessions[Asks[c].id] IN
  /\ s # None /\ status[s] # "dead"
  /\ Asks[c].env # None => made[s].env = Asks[c].env

Reuse(c) ==
  /\ Usable(c)
  /\ pc' = [pc EXCEPT ![c] = "starting"]
  /\ got' = [got EXCEPT ![c] = sessions[Asks[c].id]]
  /\ UNCHANGED <<stateVars, sessionVars, workerVars>>

Await(c) ==
  /\ ~Usable(c) /\ inflight[Asks[c].id] # None
  /\ pc' = [pc EXCEPT ![c] = "waiting"]
  /\ UNCHANGED <<stateVars, sessionVars, workerVars, got>>

(* provisionSession up to its await: the session that was there is stopped *)
Provision(c) ==
  LET i == Asks[c].id
      existing == Registered(i) IN
  /\ ~Usable(c) /\ inflight[i] = None /\ Len(made) < MaxSessions
  /\ inflight' = [inflight EXCEPT ![i] = c]
  /\ sessions' = [sessions EXCEPT ![i] = None]
  /\ StopSessions(existing)
  /\ pc' = [Drained(existing) EXCEPT ![c] = "provisioning"]
  /\ UNCHANGED <<draining, drains, made, threads, server, post, got>>

(* The loop of ensureSession; a call that was woken looks again *)
EnsureSession(c) ==
  /\ \/ pc[c] = "woken"
     \/ pc[c] = "idle" /\ NoneWoken
  /\ Reuse(c) \/ Await(c) \/ Provision(c)

(* The provisioning of an id ends: its call goes on with the session, and wakes those that
   wait for it *)
Settle(i, s) ==
  LET c == inflight[i] IN
  /\ Len(made) < MaxSessions
  /\ inflight' = [inflight EXCEPT ![i] = None]
  /\ drains' = drains \ {i}
  /\ got' = [got EXCEPT ![c] = s]
  /\ pc' = [d \in Callers |-> CASE d = c -> "starting"
                                [] pc[d] = "waiting" /\ Asks[d].id = i -> "woken"
                                [] OTHER -> pc[d]]
  /\ made' = Append(made, Asks[c])
  /\ UNCHANGED <<draining, post>>

(* resolveBin finds no server and cannot install one *)
InstallFails(i) ==
  LET s == Len(made) + 1 IN
  /\ NoneWoken /\ inflight[i] # None
  /\ Settle(i, s)
  /\ status' = [status EXCEPT ![s] = "install-failed"]
  /\ sessions' = [sessions EXCEPT ![i] = s]
  /\ UNCHANGED <<hooked, linked, threads, server, disposed>>

(* The worker starts, and is stopped again if disposeAll is under way; its call then gets a
   session whose installation failed, which is as little use as the stopped one here *)
Spawn(i) ==
  LET s == Len(made) + 1 IN
  /\ NoneWoken /\ inflight[i] # None
  /\ Settle(i, s)
  /\ threads' = threads \cup {s}
  /\ server' = [server EXCEPT ![s] = "starting"]
  /\ IF draining
     THEN /\ status' = [status EXCEPT ![s] = "dead"]
          /\ disposed' = disposed \cup {s}
          /\ UNCHANGED <<sessions, hooked, linked>>
     ELSE /\ status' = [status EXCEPT ![s] = "starting"]
          /\ sessions' = [sessions EXCEPT ![i] = s]
          /\ hooked' = hooked \cup {s} /\ linked' = linked \cup {s}
          /\ UNCHANGED disposed

-----------------------------------------------------------------------------
(* What a call does with its session *)

(* awaitReady ends, by its time-out or not; sessionLint asks a ready session that has its
   worker *)
ReadyOrNot(c) ==
  LET s == got[c] IN
  /\ NoneWoken /\ pc[c] = "starting"
  /\ pc' = [pc EXCEPT ![c] = IF status[s] = "ready" /\ s \in linked THEN "linting" ELSE "done"]
  /\ UNCHANGED <<stateVars, sessionVars, workerVars, got>>

(* The result, or lintTimeoutMs; a result that comes later finds nobody *)
LintEnds(c) ==
  /\ NoneWoken /\ pc[c] = "linting"
  /\ pc' = [pc EXCEPT ![c] = "done"]
  /\ UNCHANGED <<stateVars, sessionVars, workerVars, got>>

(* stop, for a session that is there *)
Stop(i) ==
  /\ NoneWoken /\ sessions[i] # None
  /\ sessions' = [sessions EXCEPT ![i] = None]
  /\ StopSessions(Registered(i))
  /\ pc' = Drained(Registered(i))
  /\ UNCHANGED <<inflight, draining, drains, made, threads, server, post, got>>

(* disposeAll, on session_shutdown *)
DisposeAll ==
  LET all == UNION {Registered(i) : i \in Ids} IN
  /\ NoneWoken /\ ~draining
  /\ sessions' = [i \in Ids |-> None]
  /\ StopSessions(all)
  /\ pc' = Drained(all)
  /\ drains' = {i \in Ids : inflight[i] # None}
  /\ draining' = (drains' # {})
  /\ UNCHANGED <<inflight, made, threads, server, post, got>>

DisposeEnds ==
  /\ draining /\ drains = {}
  /\ draining' = FALSE
  /\ UNCHANGED <<sessions, inflight, drains, sessionVars, workerVars, callVars>>

-----------------------------------------------------------------------------
(* Workers *)

Posts(s, messages) == post' = [post EXCEPT ![s] = @ \o messages]

Initialized(s) ==
  /\ s \in threads /\ server[s] = "starting"
  /\ server' = [server EXCEPT ![s] = "serving"]
  /\ Posts(s, <<"ready">>)
  /\ UNCHANGED <<stateVars, sessionVars, threads, disposed, callVars>>

(* The server does not start, does not answer in time, or exits before it answers: the
   worker says so, kills it and exits *)
Refused(s) ==
  /\ s \in threads /\ server[s] = "starting"
  /\ server' = [server EXCEPT ![s] = "exited"]
  /\ threads' = threads \ {s}
  /\ Posts(s, <<"refused", "exit">>)
  /\ UNCHANGED <<stateVars, sessionVars, disposed, callVars>>

(* The server exits; its worker stays *)
ServerExits(s) ==
  /\ s \in threads /\ server[s] = "serving"
  /\ server' = [server EXCEPT ![s] = "exited"]
  /\ Posts(s, <<"dead">>)
  /\ UNCHANGED <<stateVars, sessionVars, threads, disposed, callVars>>

(* dispose: the server is killed, and the worker exits *)
Dispose(s) ==
  /\ s \in threads \cap disposed
  /\ server' = [server EXCEPT ![s] = "exited"]
  /\ threads' = threads \ {s}
  /\ Posts(s, <<"exit">>)
  /\ UNCHANGED <<stateVars, sessionVars, disposed, callVars>>

(* onWorkerMsg and onWorkerFail; "ready" is believed whatever the state *)
WorkerMsg(s) ==
  /\ NoneWoken /\ post[s] # <<>>
  /\ post' = [post EXCEPT ![s] = Tail(@)]
  /\ IF Head(post[s]) = "ready"
     THEN status' = [status EXCEPT ![s] = "ready"] /\ UNCHANGED <<pc, sessions, hooked>>
     ELSE MarkDead(s)
  /\ UNCHANGED <<inflight, draining, drains, made, linked, threads, server, disposed, got>>

Next ==
  \/ \E c \in Callers : EnsureSession(c) \/ ReadyOrNot(c) \/ LintEnds(c)
  \/ \E i \in Ids : InstallFails(i) \/ Spawn(i) \/ Stop(i)
  \/ DisposeAll \/ DisposeEnds
  \/ \E s \in Sessions : Initialized(s) \/ Refused(s) \/ ServerExits(s) \/ Dispose(s)
                         \/ WorkerMsg(s)

Spec == Init /\ [][Next]_vars

-----------------------------------------------------------------------------
(* Types.  Only what was made has a state, and a registered session is one of its id *)
TypeOK ==
  /\ sessions \in [Ids -> Sessions \cup {None}] /\ inflight \in [Ids -> Callers \cup {None}]
  /\ draining \in BOOLEAN /\ drains \subseteq Ids
  /\ Len(made) <= MaxSessions /\ \A s \in DOMAIN made : made[s] \in {Asks[c] : c \in Callers}
  /\ status \in [Sessions -> States] /\ hooked \subseteq Sessions /\ linked \subseteq Sessions
  /\ threads \subseteq Sessions /\ disposed \subseteq Sessions
  /\ server \in [Sessions -> {"none", "starting", "serving", "exited"}]
  /\ pc \in [Callers -> {"idle", "waiting", "woken", "provisioning", "starting", "linting",
                         "done"}]
  /\ got \in [Callers -> Sessions \cup {None}]
  /\ \A s \in Sessions : status[s] = "none" <=> s > Len(made)
  /\ \A i \in Ids : sessions[i] # None => made[sessions[i]].id = i

(* A server that runs is in reach of whoever uses, stops or disposes sessions, or was told
   to end: neither a replacement nor a late message of the one it replaced loses it *)
ServersInReach ==
  \A s \in Sessions :
    server[s] \in {"starting", "serving"} /\ s \notin disposed => sessions[made[s].id] = s

(* Each id is provisioned by one call at a time; who waits for a provisioning, a call or
   disposeAll, has one to wait for *)
OneProvisions ==
  /\ \A c \in Callers : pc[c] = "waiting" => inflight[Asks[c].id] # None
  /\ \A c \in Callers : pc[c] = "provisioning" => inflight[Asks[c].id] = c
  /\ \A i \in Ids : inflight[i] # None => pc[inflight[i]] = "provisioning"
  /\ \A i \in drains : inflight[i] # None

(* A server that runs is in reach, and provisioned by one call at a time *)
ServersSafe == ServersInReach /\ OneProvisions

=============================================================================
