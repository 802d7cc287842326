---------------------------- MODULE SubagentRpc ----------------------------
(***************************************************************************)
(* Subagent workers (lib/subagent-rpc.ts, subagent-rpc-runtime.ts,         *)
(* subagent-rpc-endpoint.ts, subagent-observation.ts): runs of agents in   *)
(* worker threads, asked for by commands over a socket or by calls in the  *)
(* host, each holding a storage operation while it lasts.                  *)
(*                                                                         *)
(* The socket belongs to a session: a switch to another one retires it     *)
(* without ending its runs, a quit ends both.  An action is what the host  *)
(* does from one await, callback or message to the next.                   *)
(***************************************************************************)
EXTENDS Integers, FiniteSets

CONSTANTS
  Owners,        \* sessions
  Clients,       \* subagent commands, with one request each
  Calls,         \* calls of runSubagentWorker
  MaxActive,     \* MAX_ACTIVE, for runs and for endpoints on their way out
  MaxEndpoints,  \* bound on endpoints made
  Credits,       \* events a worker may have under way
  None           \* no endpoint, no owner

Runs == Clients \cup Calls
Endpoints == 1 .. MaxEndpoints

VARIABLES
  (* RpcState *)
  session,     \* the owner bound to storage, or None before the first session
  bound,       \* the endpoint of rpc.bindings, or None
  ownerOf,     \* the owner each endpoint was made for
  endpoint,    \* "unused", "binding", "listening", "retired" (while binding), "closing",
               \* "closed" or "failed"
  active,      \* rpc.active
  (* runs *)
  operations,  \* runs and calls whose storage operation is not finished
  worker,      \* "none", "running", "ending" (terminate was called) or "exited"
  timers,      \* runs that were aborted: their time to terminate is running
  paused,      \* runs whose output waits for the socket to drain
  sent, held,  \* of each client's run: events on their way to the host, and credits not
               \* given back.  The output of a call is never held back
  (* sockets *)
  sock,        \* "none", "open", "ended" (by the host) or "closed"
  at,          \* the endpoint each client is connected to
  full,        \* sockets with output the client has yet to read
  answers,     \* "done" lines each client was sent
  (* calls, and the quit *)
  call,        \* "idle", "binding" (it awaits its endpoint), "running" or "done"
  via,         \* the endpoint a call awaits
  aborted,     \* calls whose signal fired while they awaited it
  quit,        \* "no", "stopping" or "stopped"
  awaited      \* the runs and endpoints stopSubagentRpc waits for

rpcVars == <<session, bound, ownerOf, endpoint>>
runVars == <<active, operations, worker, timers, paused, sent, held>>
sockVars == <<sock, at, full, answers>>
callVars == <<call, via, aborted>>
quitVars == <<quit, awaited>>
vars == <<rpcVars, runVars, sockVars, callVars, quitVars>>

Init ==
  /\ session = None /\ bound = None
  /\ ownerOf = [e \in Endpoints |-> None]
  /\ endpoint = [e \in Endpoints |-> "unused"]
  /\ active = {} /\ operations = {}
  /\ worker = [r \in Runs |-> "none"]
  /\ timers = {} /\ paused = {}
  /\ sent = [c \in Clients |-> 0] /\ held = [c \in Clients |-> 0]
  /\ sock = [c \in Clients |-> "none"] /\ at = [c \in Clients |-> None]
  /\ full = {} /\ answers = [c \in Clients |-> 0]
  /\ call = [k \in Calls |-> "idle"] /\ via = [k \in Calls |-> None]
  /\ aborted = {}
  /\ quit = "no" /\ awaited = [runs |-> {}, endpoints |-> {}]

Retiring == {e \in Endpoints : endpoint[e] \in {"retired", "closing"}}
Connected(c) == sock[c] \in {"open", "ended"}

-----------------------------------------------------------------------------
(* Runs *)

(* abortRun, and the resume of the observation that is part of it *)
AbortRuns(R) ==
  LET fresh == (R \cap active) \ timers IN
  /\ timers' = timers \cup fresh
  /\ paused' = paused \ fresh
  /\ held' = [c \in Clients |-> IF c \in fresh THEN 0 ELSE held[c]]

(* startRun; the operation is the caller's, or the run's own *)
StartRun(r) ==
  /\ Cardinality(active) < MaxActive
  /\ active' = active \cup {r}
  /\ worker' = [worker EXCEPT ![r] = "running"]

(* A worker publishes what it does while it has a credit *)
Publish(c) ==
  /\ worker[c] = "running" /\ sent[c] + held[c] < Credits
  /\ sent' = [sent EXCEPT ![c] = @ + 1]
  /\ UNCHANGED <<rpcVars, active, operations, worker, timers, paused, held, sockVars, callVars,
                 quitVars>>

(* An event arrives.  Output goes to the client; a socket that takes no more holds the
   credits back *)
Receive(c) ==
  /\ c \in active /\ sent[c] > 0
  /\ sent' = [sent EXCEPT ![c] = @ - 1]
  /\ \/ UNCHANGED <<full, paused>>
     \/ sock[c] = "open" /\ full' = full \cup {c} /\ paused' = paused \cup {c}
  /\ held' = [held EXCEPT ![c] = IF c \in paused' THEN @ + 1 ELSE @]
  /\ UNCHANGED <<rpcVars, active, operations, worker, timers, sock, at, answers, callVars,
                 quitVars>>

(* The client has read: "drain" resumes the observation *)
Drain(c) ==
  /\ c \in full /\ sock[c] = "open"
  /\ full' = full \ {c}
  /\ paused' = paused \ {c}
  /\ held' = [held EXCEPT ![c] = 0]
  /\ UNCHANGED <<rpcVars, active, operations, worker, timers, sent, sock, at, answers, callVars,
                 quitVars>>

(* "done": the worker is terminated *)
ReceiveDone(r) ==
  /\ worker[r] = "running" /\ (r \in Clients => sent[r] = 0)
  /\ worker' = [worker EXCEPT ![r] = "ending"]
  /\ UNCHANGED <<rpcVars, active, operations, timers, paused, sent, held, sockVars, callVars,
                 quitVars>>

(* A worker that breaks the protocol or throws, and a signal that fires: the caller's or
   the one of the storage operation *)
Abort(r) ==
  /\ r \in operations
  /\ AbortRuns({r})
  /\ aborted' = aborted \cup {k \in Calls : k = r /\ call[k] = "binding"}
  /\ UNCHANGED <<rpcVars, active, operations, worker, sent, sockVars, call, via, quitVars>>

(* The five seconds of an aborted run are over *)
Terminate(r) ==
  /\ r \in timers /\ worker[r] = "running"
  /\ worker' = [worker EXCEPT ![r] = "ending"]
  /\ UNCHANGED <<rpcVars, active, operations, timers, paused, sent, held, sockVars, callVars,
                 quitVars>>

(* "exit", of a worker that was terminated or of itself: finishRun answers the client, and
   the operation is finished *)
Exit(r) ==
  /\ worker[r] \in {"running", "ending"}
  /\ worker' = [worker EXCEPT ![r] = "exited"]
  /\ active' = active \ {r} /\ operations' = operations \ {r}
  /\ timers' = timers \ {r} /\ paused' = paused \ {r}
  /\ sent' = [c \in Clients |-> IF c = r THEN 0 ELSE sent[c]]
  /\ held' = [c \in Clients |-> IF c = r THEN 0 ELSE held[c]]
  /\ LET told == {r} \cap {c \in Clients : sock[c] = "open"} IN
     /\ answers' = [c \in Clients |-> IF c \in told THEN answers[c] + 1 ELSE answers[c]]
     /\ sock' = [c \in Clients |-> IF c \in told THEN "ended" ELSE sock[c]]
  /\ call' = [k \in Calls |-> IF k = r THEN "done" ELSE call[k]]
  /\ aborted' = aborted \ {r}
  /\ UNCHANGED <<rpcVars, at, full, via, quitVars>>

-----------------------------------------------------------------------------
(* Endpoints *)

(* Sockets without a run are left open *)
SocketsKept(E) == UNCHANGED <<sock, full>>

(* closeSubagentRpcListener: sockets without a run are destroyed *)
SocketsCut(E) ==
  LET cut == {c \in Clients : Connected(c) /\ at[c] \in E /\ c \notin active} IN
  /\ sock' = [c \in Clients |-> IF c \in cut THEN "closed" ELSE sock[c]]
  /\ full' = full \ cut

(* retireBinding of the endpoint there is: it closes at once, or once it is ready *)
RetiredState(e) == IF endpoint[e] = "binding" THEN "retired" ELSE "closing"
ToRetire == IF bound = None THEN {} ELSE {bound}

(* ensureSubagentRpc for another owner than the one that is bound *)
Rebind(o, e) ==
  /\ endpoint[e] = "unused" /\ \A f \in 1 .. e - 1 : endpoint[f] # "unused"
  /\ SocketsCut({f \in ToRetire : endpoint[f] = "listening"})
  /\ IF Cardinality(Retiring \cup ToRetire) < MaxActive
     THEN /\ endpoint' = [f \in Endpoints |-> CASE f = e -> "binding"
                                               [] f \in ToRetire -> RetiredState(f)
                                               [] OTHER -> endpoint[f]]
          /\ ownerOf' = [ownerOf EXCEPT ![e] = o]
          /\ bound' = e
     ELSE /\ endpoint' = [f \in Endpoints |-> IF f \in ToRetire THEN RetiredState(f)
                                              ELSE endpoint[f]]
          /\ bound' = None                               \* retirement limit reached
          /\ UNCHANGED ownerOf

BoundTo(o) == bound # None /\ ownerOf[bound] = o

(* session_start: another session, or the first *)
SessionStart(o, e) ==
  /\ quit = "no" /\ ~BoundTo(o)
  /\ session' = o
  /\ Rebind(o, e)
  /\ UNCHANGED <<runVars, at, answers, callVars, quitVars>>

(* "listening"; an endpoint retired meanwhile is closed *)
Listening(e) ==
  /\ endpoint[e] \in {"binding", "retired"}
  /\ endpoint' = [endpoint EXCEPT ![e] = IF @ = "binding" THEN "listening" ELSE "closing"]
  /\ UNCHANGED <<session, bound, ownerOf, runVars, sockVars, callVars, quitVars>>

(* The socket cannot be made or made private *)
BindFails(e) ==
  /\ endpoint[e] \in {"binding", "retired"}
  /\ endpoint' = [endpoint EXCEPT ![e] = "failed"]
  /\ bound' = IF bound = e THEN None ELSE bound
  /\ UNCHANGED <<session, ownerOf, runVars, sockVars, callVars, quitVars>>

(* The last socket is gone *)
Closed(e) ==
  /\ endpoint[e] = "closing"
  /\ \A c \in Clients : at[c] = e => ~Connected(c)
  /\ endpoint' = [endpoint EXCEPT ![e] = "closed"]
  /\ UNCHANGED <<session, bound, ownerOf, runVars, sockVars, callVars, quitVars>>

-----------------------------------------------------------------------------
(* Clients *)

Connect(c, e) ==
  /\ sock[c] = "none" /\ endpoint[e] = "listening"
  /\ sock' = [sock EXCEPT ![c] = "open"] /\ at' = [at EXCEPT ![c] = e]
  /\ UNCHANGED <<rpcVars, runVars, full, answers, callVars, quitVars>>

Unasked(c) == sock[c] = "open" /\ c \notin active

(* A request: launch *)
Launch(c) ==
  /\ Unasked(c) /\ at[c] = bound
  /\ StartRun(c)
  /\ operations' = operations \cup {c}
  /\ UNCHANGED <<rpcVars, timers, paused, sent, held, sockVars, callVars, quitVars>>

(* fail: the request is none, the session admits no more, storage refuses, or there are too
   many runs *)
Refuse(c) ==
  /\ Unasked(c)
  /\ answers' = [answers EXCEPT ![c] = @ + 1]
  /\ sock' = [sock EXCEPT ![c] = "ended"]
  /\ UNCHANGED <<rpcVars, runVars, at, full, callVars, quitVars>>

(* A client dies or is stopped, or reads so slowly that its socket is destroyed *)
Leave(c) ==
  /\ sock[c] = "open"
  /\ sock' = [sock EXCEPT ![c] = "closed"] /\ full' = full \ {c}
  /\ AbortRuns({c})
  /\ UNCHANGED <<rpcVars, active, operations, worker, sent, at, answers, callVars, quitVars>>

(* It has its answer *)
HangUp(c) ==
  /\ sock[c] = "ended"
  /\ sock' = [sock EXCEPT ![c] = "closed"] /\ full' = full \ {c}
  /\ UNCHANGED <<rpcVars, runVars, at, answers, callVars, quitVars>>

-----------------------------------------------------------------------------
(* Calls in the host *)

(* runSubagentWorker reserves an operation and finds its owner's endpoint listening *)
RunWorker(k) ==
  /\ call[k] = "idle" /\ session # None /\ BoundTo(session) /\ endpoint[bound] = "listening"
  /\ StartRun(k)
  /\ operations' = operations \cup {k}
  /\ call' = [call EXCEPT ![k] = "running"]
  /\ UNCHANGED <<rpcVars, timers, paused, sent, held, sockVars, via, aborted, quitVars>>

(* or awaits one: the one that is bound, or a new one *)
AwaitEndpoint(k, e) ==
  /\ call[k] = "idle" /\ session # None
  /\ \/ /\ BoundTo(session) /\ e = bound /\ endpoint[e] = "binding"
        /\ UNCHANGED <<bound, ownerOf, endpoint, sock, full>>
     \/ ~BoundTo(session) /\ Rebind(session, e) /\ bound' = e
  /\ operations' = operations \cup {k}
  /\ call' = [call EXCEPT ![k] = "binding"] /\ via' = [via EXCEPT ![k] = e]
  /\ UNCHANGED <<session, active, worker, timers, paused, sent, held, at, answers, aborted,
                 quitVars>>

(* The endpoint is ready: the run begins, unless the call was aborted *)
Begin(k) ==
  /\ call[k] = "binding" /\ endpoint[via[k]] \in {"listening", "closing", "closed"}
  /\ k \notin aborted
  /\ StartRun(k)
  /\ call' = [call EXCEPT ![k] = "running"] /\ via' = [via EXCEPT ![k] = None]
  /\ UNCHANGED <<rpcVars, operations, timers, paused, sent, held, sockVars, aborted, quitVars>>

(* The call gives up and forgets its operation *)
GiveUpSilently(k) ==
  /\ call[k] = "binding" /\ endpoint[via[k]] \notin {"binding", "retired"}
  /\ k \in aborted \/ endpoint[via[k]] = "failed" \/ Cardinality(active) >= MaxActive
  /\ call' = [call EXCEPT ![k] = "done"] /\ via' = [via EXCEPT ![k] = None]
  /\ aborted' = aborted \ {k}
  /\ UNCHANGED <<rpcVars, runVars, sockVars, quitVars>>

(* It was aborted, there is no endpoint, or there are too many runs *)
GiveUp(k) ==
  /\ call[k] = "binding" /\ endpoint[via[k]] \notin {"binding", "retired"}
  /\ k \in aborted \/ endpoint[via[k]] = "failed" \/ Cardinality(active) >= MaxActive
  /\ operations' = operations \ {k}
  /\ call' = [call EXCEPT ![k] = "done"] /\ via' = [via EXCEPT ![k] = None]
  /\ aborted' = aborted \ {k}
  /\ UNCHANGED <<rpcVars, active, worker, timers, paused, sent, held, sockVars, quitVars>>

-----------------------------------------------------------------------------
(* stopSubagentRpc, on a quit: what runs and what is on its way out is waited for *)
Quit ==
  /\ quit = "no"
  /\ quit' = "stopping"
  /\ bound' = None
  /\ endpoint' = [e \in Endpoints |-> IF e \in ToRetire THEN RetiredState(e) ELSE endpoint[e]]
  /\ SocketsCut({e \in ToRetire : endpoint[e] = "listening"})
  /\ AbortRuns(active)
  /\ awaited' = [runs |-> active, endpoints |-> Retiring \cup ToRetire]
  /\ UNCHANGED <<session, ownerOf, active, operations, worker, sent, at, answers, callVars>>

Stopped ==
  /\ quit = "stopping"
  /\ awaited.runs \cap active = {} /\ awaited.endpoints \cap Retiring = {}
  /\ quit' = "stopped"
  /\ awaited' = [runs |-> {}, endpoints |-> {}]
  /\ UNCHANGED <<rpcVars, runVars, sockVars, callVars>>

Next ==
  \/ \E o \in Owners, e \in Endpoints : SessionStart(o, e)
  \/ \E e \in Endpoints : Listening(e) \/ BindFails(e) \/ Closed(e)
  \/ \E c \in Clients, e \in Endpoints : Connect(c, e)
  \/ \E c \in Clients : Launch(c) \/ Refuse(c) \/ Leave(c) \/ HangUp(c) \/ Drain(c)
                        \/ Publish(c) \/ Receive(c)
  \/ \E k \in Calls, e \in Endpoints : AwaitEndpoint(k, e)
  \/ \E k \in Calls : RunWorker(k) \/ Begin(k) \/ GiveUp(k)
  \/ \E r \in Runs : ReceiveDone(r) \/ Abort(r) \/ Terminate(r) \/ Exit(r)
  \/ Quit \/ Stopped

(* What goes on by itself: the listener, the timer of an abort, a worker that was
   terminated, a client that has its answer *)
Fairness ==
  /\ \A e \in Endpoints : WF_vars(Listening(e) \/ BindFails(e)) /\ WF_vars(Closed(e))
  /\ \A r \in Runs : WF_vars(Terminate(r)) /\ WF_vars(worker[r] = "ending" /\ Exit(r))
  /\ \A c \in Clients : WF_vars(HangUp(c))
  /\ WF_vars(Stopped)

Spec == Init /\ [][Next]_vars /\ Fairness

-----------------------------------------------------------------------------
(* Types.  A run is active from its start to the exit of its worker *)
TypeOK ==
  /\ session \in Owners \cup {None} /\ bound \in Endpoints \cup {None}
  /\ ownerOf \in [Endpoints -> Owners \cup {None}]
  /\ endpoint \in [Endpoints -> {"unused", "binding", "listening", "retired", "closing",
                                 "closed", "failed"}]
  /\ active \subseteq Runs /\ operations \subseteq Runs
  /\ worker \in [Runs -> {"none", "running", "ending", "exited"}]
  /\ timers \subseteq active /\ paused \subseteq active
  /\ sent \in [Clients -> 0 .. Credits] /\ held \in [Clients -> 0 .. Credits]
  /\ sock \in [Clients -> {"none", "open", "ended", "closed"}]
  /\ at \in [Clients -> Endpoints \cup {None}]
  /\ full \subseteq Clients /\ answers \in [Clients -> Nat]
  /\ call \in [Calls -> {"idle", "binding", "running", "done"}]
  /\ via \in [Calls -> Endpoints \cup {None}] /\ aborted \subseteq Calls
  /\ quit \in {"no", "stopping", "stopped"}
  /\ awaited.runs \subseteq Runs /\ awaited.endpoints \subseteq Endpoints
  /\ active = {r \in Runs : worker[r] \in {"running", "ending"}}

(* A client gets one answer, at the end; none is cut off without one while its run goes on,
   except by itself *)
AnsweredOnce ==
  \A c \in Clients :
    /\ sock[c] = "open" => answers[c] = 0
    /\ sock[c] = "ended" => answers[c] = 1
    /\ sock[c] = "closed" /\ c \in active => c \in timers \/ worker[c] = "ending"

(* A storage operation is held for each run until its worker is gone, and for nothing else
   but a call that waits for its endpoint: a cleanup neither misses one nor waits for none *)
OperationHeld == operations = active \cup {k \in Calls : call[k] = "binding"}

(* A worker that waits for credits will get them: its client is there and has to read
   first, or the run is being ended *)
CreditsComeBack ==
  \A c \in Clients :
    held[c] > 0 => \/ sock[c] = "open" /\ c \in full \cap paused
                   \/ c \in timers
                   \/ worker[c] = "ending"

(* A command is answered once, a run holds its operation, and no worker waits for credits
   that nobody will give *)
RunsSafe == AnsweredOnce /\ OperationHeld /\ CreditsComeBack

(* A quit ends, whatever clients and workers do *)
QuitEnds == quit = "stopping" ~> quit = "stopped"

=============================================================================
