--------------------------- MODULE GhostmuxStartup ---------------------------
(***************************************************************************)
(* How clients of Ghostmux find its server, start one, and how a server    *)
(* with nothing left to do stops.                                          *)
(*                                                                         *)
(* Two lock files stand beside the socket.  A run of the client command    *)
(* holds the startup lock until its first response has arrived; a server   *)
(* that stops for want of work has to take it first.  A server holds the   *)
(* run lock from before it looks at the socket until after it has removed  *)
(* it.  The harness also connects without any lock, to ask about sessions  *)
(* it knows.  Locks and connections of a process end with it.              *)
(***************************************************************************)
EXTENDS FiniteSets

CONSTANTS
  Clients,   \* runs of the client command, and direct requests of the harness
  Servers,   \* bound: servers that may be spawned
  None

VARIABLES
  client,       \* where each client is
  op,           \* what it asks for
  at,           \* the server it is connected to, or was
  server,       \* where each server is
  accepted,     \* connections each server has in its list
  sessions,     \* sessions each server runs, by the client that asked
  connected,    \* servers that have had a connection
  stopping,     \* servers that refuse requests
  why,          \* why each server ends
  socket,       \* the server that made the socket's file
  startupLock,
  runLock

clientVars == <<client, op, at>>
serverVars == <<server, accepted, sessions, connected, stopping, why>>
files == <<socket, startupLock, runLock>>
vars == <<clientVars, serverVars, files>>

Process == Clients \cup Servers

ASSUME ProcessAssumption == Clients \cap Servers = {} /\ None \notin Process

\* The server's process holds its listening socket.
Listening == {"listening", "deaf"}
\* The server's process is there.
Alive == {"spawned", "locked", "stale", "bind", "closed", "unlinked"} \cup Listening

TypeOK ==
  /\ client \in [Clients -> {"new", "locked", "guard", "waits", "connected",
                             "answered", "done", "failed", "dropped"}]
  /\ op \in [Clients -> {"session", "ask", "kill", "direct"}]
  /\ at \in [Clients -> Servers \cup {None}]
  /\ server \in [Servers -> Alive \cup {"none", "ended"}]
  /\ accepted \in [Servers -> SUBSET Clients]
  /\ sessions \in [Servers -> SUBSET Clients]
  /\ connected \subseteq Servers /\ stopping \subseteq Servers
  /\ why \in [Servers -> {"none", "busy", "idle", "asked", "timeout", "killed"}]
  /\ socket \in Servers \cup {None}
  /\ startupLock \in Process \cup {None}
  /\ runLock \in Process \cup {None}

\* A server that was killed earlier may have left its socket.
Init ==
  /\ client = [c \in Clients |-> "new"]
  /\ op \in [Clients -> {"session", "ask", "kill", "direct"}]
  /\ at = [c \in Clients |-> None]
  /\ \E past \in Servers \cup {None} :
       /\ socket = past
       /\ server = [s \in Servers |-> IF s = past THEN "ended" ELSE "none"]
       /\ why = [s \in Servers |-> IF s = past THEN "killed" ELSE "none"]
  /\ accepted = [s \in Servers |-> {}] /\ sessions = [s \in Servers |-> {}]
  /\ connected = {} /\ stopping = {}
  /\ startupLock = None /\ runLock = None

-----------------------------------------------------------------------------

Free(lock, process) == IF lock = process THEN None ELSE lock

\* Connections to s, whether it has accepted them or not.
To(s) == {c \in Clients : client[c] = "connected" /\ at[c] = s}

\* The client, if it is still connected, finds its connection closed.
Drop(cs) == client' = [c \in Clients |-> IF c \in cs THEN "dropped" ELSE client[c]]

\* The socket leads to a server that listens.
Reachable == socket # None /\ server[socket] \in Listening

-----------------------------------------------------------------------------
(* Clients. *)

LockStartup(c) ==
  /\ client[c] = "new"
  /\ op[c] # "direct"
  /\ startupLock = None
  /\ startupLock' = c
  /\ client' = [client EXCEPT ![c] = "locked"]
  /\ UNCHANGED <<op, at, serverVars, socket, runLock>>

Connect(c) ==
  /\ client[c] \in {"locked", "waits"} \/ (client[c] = "new" /\ op[c] = "direct")
  /\ Reachable
  /\ client' = [client EXCEPT ![c] = "connected"]
  /\ at' = [at EXCEPT ![c] = socket]
  /\ UNCHANGED <<op, serverVars, files>>

\* Nobody listens: a request that may start a server looks whether one is about to.
Guard(c) ==
  /\ client[c] = "locked"
  /\ op[c] = "session"
  /\ ~Reachable
  /\ runLock = None
  /\ runLock' = c
  /\ client' = [client EXCEPT ![c] = "guard"]
  /\ UNCHANGED <<op, at, serverVars, socket, startupLock>>

Spawn(c, s) ==
  /\ client[c] = "guard"
  /\ server[s] = "none"
  /\ runLock' = None
  /\ client' = [client EXCEPT ![c] = "waits"]
  /\ server' = [server EXCEPT ![s] = "spawned"]
  /\ UNCHANGED <<op, at, accepted, sessions, connected, stopping, why, socket, startupLock>>

\* The response is here: the startup lock goes, and the connection.
Finish(c) ==
  /\ client[c] = "answered"
  /\ startupLock' = Free(startupLock, c)
  /\ client' = [client EXCEPT ![c] = "done"]
  /\ UNCHANGED <<op, at, serverVars, socket, runLock>>

\* A closed connection, a server that is busy or does not come, a deadline, or the end
\* of the process.
Fail(c) ==
  /\ client[c] \notin {"done", "failed"}
  /\ client[c] = "dropped" => c \in {startupLock, runLock}
  /\ client' = [client EXCEPT ![c] = IF @ = "dropped" THEN @ ELSE "failed"]
  /\ startupLock' = Free(startupLock, c)
  /\ runLock' = Free(runLock, c)
  /\ UNCHANGED <<op, at, serverVars, socket>>

-----------------------------------------------------------------------------
(* A server starts. *)

Goes(s, state) == server' = [server EXCEPT ![s] = state]

EndsBusy(s) == Goes(s, "ended") /\ why' = [why EXCEPT ![s] = "busy"]

TakeRunLock(s) ==
  /\ server[s] = "spawned"
  /\ IF runLock = None THEN runLock' = s /\ Goes(s, "locked") /\ UNCHANGED why
                       ELSE EndsBusy(s) /\ UNCHANGED runLock
  /\ UNCHANGED <<clientVars, accepted, sessions, connected, stopping, socket, startupLock>>

Look(s) ==
  /\ server[s] = "locked"
  /\ IF Reachable
       THEN EndsBusy(s) /\ runLock' = Free(runLock, s)
       ELSE Goes(s, IF socket = None THEN "bind" ELSE "stale") /\ UNCHANGED <<why, runLock>>
  /\ UNCHANGED <<clientVars, accepted, sessions, connected, stopping, socket, startupLock>>

RemoveStale(s) ==
  /\ server[s] = "stale"
  /\ socket' = None
  /\ Goes(s, "bind")
  /\ UNCHANGED <<clientVars, accepted, sessions, connected, stopping, why,
                 startupLock, runLock>>

Bind(s) ==
  /\ server[s] = "bind"
  /\ IF socket = None
       THEN socket' = s /\ Goes(s, "listening") /\ UNCHANGED <<why, runLock>>
       ELSE EndsBusy(s) /\ runLock' = Free(runLock, s) /\ UNCHANGED socket
  /\ UNCHANGED <<clientVars, accepted, sessions, connected, stopping, startupLock>>

-----------------------------------------------------------------------------
(* A server serves. *)

Accept(s, c) ==
  /\ server[s] = "listening"
  /\ c \in To(s) \ accepted[s]
  /\ IF s \in stopping
       THEN Drop({c}) /\ UNCHANGED <<accepted, connected>>
       ELSE /\ accepted' = [accepted EXCEPT ![s] = @ \cup {c}]
            /\ connected' = connected \cup {s}
            /\ UNCHANGED client
  /\ UNCHANGED <<op, at, server, sessions, stopping, why, files>>

\* One request of each connection, under the server's lock.
Dispatch(s, c) ==
  /\ server[s] = "listening"
  /\ c \in accepted[s] \cap To(s)
  /\ client' = [client EXCEPT ![c] = "answered"]
  /\ sessions' = [sessions EXCEPT ![s] =
       CASE s \in stopping -> @
         [] op[c] = "session" -> @ \cup {c}
         [] op[c] = "kill" -> {}
         [] OTHER -> @]
  /\ IF op[c] = "kill"
       THEN stopping' = stopping \cup {s} /\ why' = [why EXCEPT ![s] = "asked"]
       ELSE UNCHANGED <<stopping, why>>
  /\ UNCHANGED <<op, at, server, accepted, connected, files>>

SessionEnds(s, c) ==
  /\ c \in sessions[s]
  /\ server[s] = "listening"
  /\ sessions' = [sessions EXCEPT ![s] = @ \ {c}]
  /\ UNCHANGED <<clientVars, server, accepted, connected, stopping, why, files>>

\* What a tick keeps of the connections.
Kept(s) == IF s \in stopping THEN {} ELSE accepted[s] \cap To(s)

\* Nothing is connected and nothing is running, or everybody was told to go.
Unneeded(s) ==
  /\ Kept(s) = {}
  /\ s \in stopping \/ (sessions[s] = {} /\ s \in connected)

Retire(s) ==
  /\ accepted' = [accepted EXCEPT ![s] = Kept(s)]
  /\ Drop((accepted[s] \cap To(s)) \ Kept(s))

\* Stops with no regard for clients that are about to connect.
TickRegardless(s) ==
  /\ server[s] = "listening"
  /\ Retire(s)
  /\ Unneeded(s)
  /\ stopping' = stopping \cup {s}
  /\ why' = [why EXCEPT ![s] = IF @ = "none" THEN "idle" ELSE @]
  /\ Goes(s, "deaf")
  /\ UNCHANGED <<op, at, sessions, connected, files>>

Tick(s) ==
  /\ server[s] = "listening"
  /\ Retire(s)
  /\ IF Unneeded(s) /\ startupLock = None
       THEN /\ startupLock' = s
            /\ stopping' = stopping \cup {s}
            /\ why' = [why EXCEPT ![s] = IF @ = "none" THEN "idle" ELSE @]
            /\ Goes(s, "deaf")
       ELSE /\ accepted[s] # Kept(s)
            /\ UNCHANGED <<startupLock, stopping, why, server>>
  /\ UNCHANGED <<op, at, sessions, connected, socket, runLock>>

\* A signal, or nobody has come for the time a client would wait.
Leave(s) ==
  /\ server[s] = "listening"
  /\ \E reason \in {"asked", "timeout"} :
       /\ reason = "timeout" => s \notin connected /\ accepted[s] = {}
       /\ why' = [why EXCEPT ![s] = reason]
  /\ Goes(s, "deaf")
  /\ UNCHANGED <<clientVars, accepted, sessions, connected, stopping, files>>

-----------------------------------------------------------------------------
(* A server ends: no more connections, the sessions, the socket, the locks. *)

CloseServer(s) ==
  /\ server[s] = "deaf"
  /\ Drop(To(s))
  /\ accepted' = [accepted EXCEPT ![s] = {}]
  /\ sessions' = [sessions EXCEPT ![s] = {}]
  /\ Goes(s, "closed")
  /\ UNCHANGED <<op, at, connected, stopping, why, files>>

Unlink(s) ==
  /\ server[s] = "closed"
  /\ socket' = Free(socket, s)
  /\ Goes(s, "unlinked")
  /\ UNCHANGED <<clientVars, accepted, sessions, connected, stopping, why,
                 startupLock, runLock>>

Exit(s) ==
  /\ server[s] = "unlinked"
  /\ runLock' = Free(runLock, s)
  /\ startupLock' = Free(startupLock, s)
  /\ Goes(s, "ended")
  /\ UNCHANGED <<clientVars, accepted, sessions, connected, stopping, why, socket>>

Killed(s) ==
  /\ server[s] \in Alive
  /\ Drop(To(s))
  /\ accepted' = [accepted EXCEPT ![s] = {}]
  /\ sessions' = [sessions EXCEPT ![s] = {}]
  /\ why' = [why EXCEPT ![s] = "killed"]
  /\ runLock' = Free(runLock, s)
  /\ startupLock' = Free(startupLock, s)
  /\ Goes(s, "ended")
  /\ UNCHANGED <<op, at, connected, stopping, socket>>

Starts(s) == TakeRunLock(s) \/ Look(s) \/ RemoveStale(s) \/ Bind(s)
Serves(s) == Tick(s) \/ \E c \in Clients : Accept(s, c) \/ Dispatch(s, c) \/ SessionEnds(s, c)
Ends(s) == Leave(s) \/ CloseServer(s) \/ Unlink(s) \/ Exit(s) \/ Killed(s)

Asks(c) ==
  LockStartup(c) \/ Connect(c) \/ Guard(c) \/ (\E s \in Servers : Spawn(c, s))
  \/ Finish(c) \/ Fail(c)

Next ==
  \/ \E c \in Clients : Asks(c)
  \/ \E s \in Servers : Starts(s) \/ Serves(s) \/ Ends(s)

Spec == Init /\ [][Next]_vars

-----------------------------------------------------------------------------
(* Sessions can be reached: no two servers listen, and the one that runs   *)
(* sessions is the one the socket leads to, however many were spawned by   *)
(* clients that gave up, and whatever stale socket one of them found.      *)
SessionsReachable ==
  /\ \A s, t \in Servers : server[s] \in Listening /\ server[t] \in Listening => s = t
  /\ \A s \in Servers : sessions[s] # {} => socket = s

(* A server that stops for want of work closes no connection of a client   *)
(* command: one that holds the startup lock is either answered or finds    *)
(* nobody listening, and starts the next.                                  *)
IdleStopDropsNobody ==
  \A c \in Clients :
    client[c] = "dropped" /\ op[c] # "direct" =>
      at[c] # None /\ why[at[c]] \in {"asked", "timeout", "killed"}

(* Both: what the two lock files are for.                                  *)
StartupSafe == SessionsReachable /\ IdleStopDropsNobody

=============================================================================
