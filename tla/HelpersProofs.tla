---------------------------- MODULE HelpersProofs ----------------------------
(***************************************************************************)
(* Proofs about the helpers of a session: LspSessions, for any number of   *)
(* ids, calls and sessions, and SubagentRpc, for any number of owners,     *)
(* commands, calls and endpoints.  The guardians have a module of their    *)
(* own, ScratchGuardianProofs, which adds its share to the types of all.   *)
(***************************************************************************)
EXTENDS Helpers, ScratchGuardianProofs

-----------------------------------------------------------------------------
(* Language servers                                                          *)

Serves(s) == server[s] \in {"starting", "serving"}

(* What is not made has no worker.  A session that may still unregister itself when it dies
   is the registered one, so its death never unregisters another; while an id is provisioned
   none is registered for it, so a new one replaces none.  A server that serves has its
   worker linked, so that whoever stops its session tells it; and a message that ends a
   session comes from a worker whose server has exited *)
SessionsFit ==
  /\ made \in Seq({Asks[c] : c \in Callers})
  /\ \A s \in Lsp!Sessions : s > Len(made) => /\ server[s] = "none" /\ post[s] = <<>>
                                              /\ s \notin hooked \cup linked \cup threads
  /\ \A i \in Ids : sessions[i] # None => sessions[i] \in 1 .. Len(made)
  /\ \A s \in hooked : Lsp!Living(s) /\ sessions[made[s].id] = s
  /\ \A i \in Ids : inflight[i] # None => sessions[i] = None /\ Asks[inflight[i]].id = i
  /\ \A s \in Lsp!Sessions : Serves(s) /\ s \notin disposed => s \in linked
  /\ post \in [Lsp!Sessions -> Seq({"ready", "refused", "dead", "exit"})]
  /\ \A s \in Lsp!Sessions : \A j \in 1 .. Len(post[s]) :
       post[s][j] # "ready" => server[s] = "exited"

ServersInv == Lsp!TypeOK /\ SessionsFit /\ Lsp!ServersSafe

LEMMA ServersInit == ASSUME LspConstants, Lsp!Init PROVE ServersInv
<1>1. made = <<>> /\ Len(made) = 0 /\ DOMAIN made = {}
  BY DEF Lsp!Init
<1>2. Lsp!TypeOK
  <2>1. /\ Len(made) <= MaxSessions
        /\ \A s \in DOMAIN made : made[s] \in {Asks[c] : c \in Callers}
        /\ \A s \in Lsp!Sessions : status[s] = "none" <=> s > Len(made)
    BY <1>1 DEF Lsp!Init, LspConstants, Lsp!Sessions
  <2>2. QED
    BY <2>1 DEF Lsp!Init, Lsp!TypeOK, Lsp!States
<1>3. SessionsFit
  BY <1>1 DEF Lsp!Init, SessionsFit, Serves
<1>4. Lsp!ServersSafe
  BY DEF Lsp!Init, Lsp!ServersSafe, Lsp!ServersInReach, Lsp!OneProvisions
<1>5. QED
  BY <1>2, <1>3, <1>4 DEF ServersInv

(* What was made is of an id, and there is no number of sessions but those *)
LEMMA MadeOfIds ==
  ASSUME LspConstants, ServersInv
  PROVE  /\ Len(made) \in Nat /\ DOMAIN made = 1 .. Len(made)
         /\ \A s \in 1 .. Len(made) : s \in Lsp!Sessions /\ made[s].id \in Ids
         /\ \A s \in Lsp!Sessions : s <= Len(made) \/ s > Len(made)
<1>1. made \in Seq({Asks[c] : c \in Callers}) /\ Len(made) <= MaxSessions
  BY DEF ServersInv, Lsp!TypeOK, SessionsFit
<1>2. Len(made) \in Nat /\ DOMAIN made = 1 .. Len(made)
  BY <1>1
<1>3. ASSUME NEW s \in 1 .. Len(made)
      PROVE  s \in Lsp!Sessions /\ made[s].id \in Ids
  BY <1>1, <1>2 DEF LspConstants, Lsp!Sessions
<1>4. \A s \in Lsp!Sessions : s <= Len(made) \/ s > Len(made)
  BY <1>2 DEF Lsp!Sessions
<1>5. QED
  BY <1>2, <1>3, <1>4

(* A session whose server serves and was not told to end is the registered one of its id *)
LEMMA ServingIsRegistered ==
  ASSUME LspConstants, ServersInv,
         NEW t \in Lsp!Sessions, Serves(t), t \notin disposed
  PROVE  t \in 1 .. Len(made) /\ sessions[made[t].id] = t /\ made[t].id \in Ids /\ t # None
<1>1. ~ (t > Len(made))
  <2>1. t > Len(made) => server[t] = "none"
    BY DEF ServersInv, SessionsFit
  <2>2. QED
    BY <2>1 DEF Serves
<1>2. t \in 1 .. Len(made)
  <2>1. t \in Nat /\ t >= 1
    BY DEF Lsp!Sessions
  <2>2. t <= Len(made) /\ Len(made) \in Nat
    BY <1>1, MadeOfIds
  <2>3. QED
    BY <2>1, <2>2
<1>3. made[t].id \in Ids
  BY <1>2, MadeOfIds
<1>4. sessions[made[t].id] = t
  BY DEF ServersInv, Lsp!ServersSafe, Lsp!ServersInReach, Serves
<1>5. t # None
  BY DEF LspConstants
<1>6. QED
  BY <1>2, <1>3, <1>4, <1>5

LEMMA ReuseKeeps ==
  ASSUME LspConstants, ServersInv, NEW c \in Callers, lspPc[c] \in {"idle", "woken"}, Lsp!Reuse(c)
  PROVE  ServersInv'
<1>1. Lsp!TypeOK' /\ SessionsFit'
  BY DEF Lsp!Reuse, Lsp!Usable, ServersInv, Lsp!TypeOK, SessionsFit, LspConstants, Serves,
     Lsp!Living, Lsp!stateVars, Lsp!sessionVars, Lsp!workerVars
<1>2. Lsp!ServersSafe'
  BY DEF Lsp!Reuse, ServersInv, Lsp!TypeOK, Lsp!ServersSafe, Lsp!ServersInReach,
     Lsp!OneProvisions, Lsp!stateVars, Lsp!sessionVars, Lsp!workerVars
<1>3. QED
  BY <1>1, <1>2 DEF ServersInv

LEMMA AwaitKeeps ==
  ASSUME LspConstants, ServersInv, NEW c \in Callers, lspPc[c] \in {"idle", "woken"}, Lsp!Await(c)
  PROVE  ServersInv'
<1>1. Lsp!TypeOK' /\ SessionsFit'
  BY DEF Lsp!Await, ServersInv, Lsp!TypeOK, SessionsFit, LspConstants, Serves, Lsp!Living,
         Lsp!stateVars, Lsp!sessionVars, Lsp!workerVars
<1>2. Lsp!ServersSafe'
  BY DEF Lsp!Await, ServersInv, Lsp!TypeOK, Lsp!ServersSafe, Lsp!ServersInReach,
     Lsp!OneProvisions, Lsp!stateVars, Lsp!sessionVars, Lsp!workerVars
<1>3. QED
  BY <1>1, <1>2 DEF ServersInv

(* Sessions that are stopped and leave the registry: whoever serves was told to end *)
LEMMA StoppedSafely ==
  ASSUME LspConstants, ServersInv, NEW I \in SUBSET Ids, NEW S,
         \A s : s \in S <=> \E i \in I : sessions[i] # None /\ s = sessions[i],
         Lsp!StopSessions(S),
         sessions' = [i \in Ids |-> IF i \in I THEN None ELSE sessions[i]],
         UNCHANGED <<made, threads, server, post>>
  PROVE  /\ status' \in [Lsp!Sessions -> Lsp!States] /\ hooked' \subseteq Lsp!Sessions
         /\ linked' \subseteq Lsp!Sessions /\ disposed' \subseteq Lsp!Sessions
         /\ \A s \in Lsp!Sessions : status'[s] = "none" <=> s > Len(made)
         /\ \A s \in Lsp!Sessions : s > Len(made) => s \notin hooked' \cup linked'
         /\ \A s \in hooked' : Lsp!Living(s)' /\ sessions'[made[s].id] = s
         /\ \A s \in Lsp!Sessions : Serves(s)' /\ s \notin disposed' => s \in linked'
         /\ Lsp!ServersInReach'
<1>2. S \subseteq 1 .. Len(made) /\ S \subseteq Lsp!Sessions
  <2>1. \A i \in I : sessions[i] # None => sessions[i] \in 1 .. Len(made)
    BY DEF ServersInv, SessionsFit
  <2>2. S \subseteq 1 .. Len(made)
    BY <2>1
  <2>3. QED
    BY <2>2, MadeOfIds
<1>3. \A i \in I : sessions[i] # None => sessions[i] \in S
  OBVIOUS
<1>4. Lsp!StopSessions(S)
  OBVIOUS
<1>5. /\ status' \in [Lsp!Sessions -> Lsp!States] /\ hooked' \subseteq Lsp!Sessions
      /\ linked' \subseteq Lsp!Sessions /\ disposed' \subseteq Lsp!Sessions
      /\ \A s \in Lsp!Sessions : status'[s] = "none" <=> s > Len(made)
      /\ \A s \in Lsp!Sessions : s > Len(made) => s \notin hooked' \cup linked'
  <2>1. hooked' \subseteq hooked /\ linked' \subseteq linked
        /\ disposed' \subseteq disposed \cup linked
    BY <1>4 DEF Lsp!StopSessions, Lsp!HooksLeft
  <2>2. \A s \in Lsp!Sessions : \/ status'[s] = status[s]
                                \/ s <= Len(made) /\ status'[s] = "dead"
    BY <1>2, <1>4 DEF Lsp!StopSessions
  <2>3. status' \in [Lsp!Sessions -> Lsp!States]
    BY <1>4 DEF Lsp!StopSessions, ServersInv, Lsp!TypeOK, Lsp!States
  <2>4. \A s \in Lsp!Sessions : status'[s] = "none" <=> s > Len(made)
    BY <2>2, MadeOfIds DEF ServersInv, Lsp!TypeOK, Lsp!Sessions
  <2>5. QED
    BY <2>1, <2>3, <2>4 DEF ServersInv, Lsp!TypeOK, SessionsFit
<1>6. ASSUME NEW s \in hooked'
      PROVE  Lsp!Living(s)' /\ sessions'[made[s].id] = s
  <2>1. s \in hooked /\ Lsp!Living(s) /\ sessions[made[s].id] = s
    BY <1>4 DEF Lsp!StopSessions, Lsp!HooksLeft, ServersInv, SessionsFit
  <2>2. s \notin S
    BY <1>4, <2>1 DEF Lsp!StopSessions, Lsp!HooksLeft
  <2>3. s \in 1 .. Len(made) /\ made[s].id \in Ids /\ s # None
    <3>1. s \in Lsp!Sessions /\ s <= Len(made)
      BY <2>1, MadeOfIds DEF ServersInv, Lsp!TypeOK, SessionsFit
    <3>2. QED
      BY <3>1, MadeOfIds DEF LspConstants, Lsp!Sessions
  <2>4. made[s].id \notin I
    BY <1>3, <2>1, <2>2, <2>3
  <2>5. QED
    BY <1>4, <2>1, <2>2, <2>3, <2>4 DEF Lsp!StopSessions, Lsp!Living, Lsp!Sessions, ServersInv,
       Lsp!TypeOK
<1>7. ASSUME NEW s \in Lsp!Sessions, Serves(s)', s \notin disposed'
      PROVE  s \in linked' /\ sessions'[made[s].id] = s
  <2>1. Serves(s) /\ s \notin disposed /\ s \notin S /\ s \in linked
    BY <1>4, <1>7 DEF Lsp!StopSessions, Serves, ServersInv, SessionsFit
  <2>2. sessions[made[s].id] = s
    BY <2>1 DEF Serves, ServersInv, Lsp!ServersSafe, Lsp!ServersInReach
  <2>3. s \in 1 .. Len(made) /\ s # None
    BY <2>1, MadeOfIds DEF Serves, ServersInv, SessionsFit, LspConstants, Lsp!Sessions
  <2>4. made[s].id \notin I /\ made[s].id \in Ids
    BY <1>3, <2>1, <2>2, <2>3, MadeOfIds
  <2>5. QED
    BY <1>4, <2>1, <2>2, <2>3, <2>4 DEF Lsp!StopSessions
<1>8. QED
  BY <1>5, <1>6, <1>7 DEF Lsp!ServersInReach, Serves

Places == {"idle", "waiting", "woken", "provisioning", "starting", "linting", "done"}

LEMMA ProvisionKeeps ==
  ASSUME LspConstants, ServersInv, NEW c \in Callers, lspPc[c] \in {"idle", "woken"},
         Lsp!Provision(c)
  PROVE  ServersInv'
<1> DEFINE i == Asks[c].id
<1>1. /\ \A s : s \in Lsp!Registered(i) <=> \E j \in {i} : sessions[j] # None /\ s = sessions[j]
      /\ sessions' = [j \in Ids |-> IF j \in {i} THEN None ELSE sessions[j]]
      /\ Lsp!StopSessions(Lsp!Registered(i)) /\ i \in Ids
  BY DEF Lsp!Provision, Lsp!Registered, LspConstants, ServersInv, Lsp!TypeOK
<1>2. /\ status' \in [Lsp!Sessions -> Lsp!States] /\ hooked' \subseteq Lsp!Sessions
      /\ linked' \subseteq Lsp!Sessions /\ disposed' \subseteq Lsp!Sessions
      /\ \A s \in Lsp!Sessions : status'[s] = "none" <=> s > Len(made)
      /\ \A s \in Lsp!Sessions : s > Len(made) => s \notin hooked' \cup linked'
      /\ \A s \in hooked' : Lsp!Living(s)' /\ sessions'[made[s].id] = s
      /\ \A s \in Lsp!Sessions : Serves(s)' /\ s \notin disposed' => s \in linked'
      /\ Lsp!ServersInReach'
  <2>1. UNCHANGED <<made, threads, server, post>>
    BY DEF Lsp!Provision
  <2>2. QED
    BY <1>1, <2>1, StoppedSafely
<1>3. /\ lspPc' \in [Callers -> Places] /\ lspPc'[c] = "provisioning"
      /\ \A d \in Callers \ {c} : \/ lspPc'[d] = lspPc[d]
                                  \/ lspPc[d] = "linting" /\ lspPc'[d] = "done"
  <2>1. lspPc \in [Callers -> Places]
    BY DEF ServersInv, Lsp!TypeOK, Places
  <2>2. QED
    BY <2>1 DEF Lsp!Provision, Lsp!Drained, Places
<1>4. Lsp!TypeOK'
  BY <1>1, <1>2, <1>3 DEF Lsp!Provision, ServersInv, Lsp!TypeOK, Places
<1>5. SessionsFit'
  BY <1>1, <1>2, <1>3 DEF Lsp!Provision, ServersInv, Lsp!TypeOK, SessionsFit, Serves,
     LspConstants
<1>6. Lsp!OneProvisions'
  BY <1>1, <1>3 DEF Lsp!Provision, ServersInv, Lsp!TypeOK, Lsp!ServersSafe, Lsp!OneProvisions,
     LspConstants
<1>7. QED
  BY <1>2, <1>4, <1>5, <1>6 DEF ServersInv, Lsp!ServersSafe

LEMMA StopKeeps ==
  ASSUME LspConstants, ServersInv, NEW i \in Ids, Lsp!Stop(i)
  PROVE  ServersInv'
<1>1. /\ \A s : s \in Lsp!Registered(i) <=> \E j \in {i} : sessions[j] # None /\ s = sessions[j]
      /\ sessions' = [j \in Ids |-> IF j \in {i} THEN None ELSE sessions[j]]
  BY DEF Lsp!Stop, Lsp!Registered, ServersInv, Lsp!TypeOK
<1>2. /\ status' \in [Lsp!Sessions -> Lsp!States] /\ hooked' \subseteq Lsp!Sessions
      /\ linked' \subseteq Lsp!Sessions /\ disposed' \subseteq Lsp!Sessions
      /\ \A s \in Lsp!Sessions : status'[s] = "none" <=> s > Len(made)
      /\ \A s \in Lsp!Sessions : s > Len(made) => s \notin hooked' \cup linked'
      /\ \A s \in hooked' : Lsp!Living(s)' /\ sessions'[made[s].id] = s
      /\ \A s \in Lsp!Sessions : Serves(s)' /\ s \notin disposed' => s \in linked'
      /\ Lsp!ServersInReach'
  BY <1>1, StoppedSafely DEF Lsp!Stop
<1>3. /\ lspPc' \in [Callers -> Places]
      /\ \A d \in Callers : \/ lspPc'[d] = lspPc[d]
                            \/ lspPc[d] = "linting" /\ lspPc'[d] = "done"
  <2>1. lspPc \in [Callers -> Places]
    BY DEF ServersInv, Lsp!TypeOK, Places
  <2>2. QED
    BY <2>1 DEF Lsp!Stop, Lsp!Drained, Places
<1>4. Lsp!TypeOK' /\ SessionsFit'
  <2>1. /\ made' = made /\ UNCHANGED <<inflight, draining, drains, threads, server, post, got>>
        /\ \A j \in Ids : sessions'[j] = sessions[j] \/ sessions'[j] = None
        /\ sessions' \in [Ids -> Lsp!Sessions \cup {None}]
    BY <1>1 DEF Lsp!Stop, ServersInv, Lsp!TypeOK
  <2>2. Lsp!TypeOK'
    BY <1>2, <1>3, <2>1 DEF ServersInv, Lsp!TypeOK, Places
  <2>3. SessionsFit'
    BY <1>2, <2>1 DEF ServersInv, SessionsFit, Serves
  <2>4. QED
    BY <2>2, <2>3
<1>5. Lsp!OneProvisions'
  BY <1>3 DEF Lsp!Stop, ServersInv, Lsp!TypeOK, Lsp!ServersSafe, Lsp!OneProvisions, LspConstants
<1>6. QED
  BY <1>2, <1>4, <1>5 DEF ServersInv, Lsp!ServersSafe

LEMMA DisposeAllKeeps ==
  ASSUME LspConstants, ServersInv, Lsp!DisposeAll
  PROVE  ServersInv'
<1> DEFINE all == UNION {Lsp!Registered(i) : i \in Ids}
<1>1. /\ sessions' = [j \in Ids |-> IF j \in Ids THEN None ELSE sessions[j]]
      /\ Lsp!StopSessions(all)
      /\ \A s : s \in all <=> \E i \in Ids : sessions[i] # None /\ s = sessions[i]
  BY DEF Lsp!DisposeAll, Lsp!Registered
<1>2. /\ status' \in [Lsp!Sessions -> Lsp!States] /\ hooked' \subseteq Lsp!Sessions
      /\ linked' \subseteq Lsp!Sessions /\ disposed' \subseteq Lsp!Sessions
      /\ \A s \in Lsp!Sessions : status'[s] = "none" <=> s > Len(made)
      /\ \A s \in Lsp!Sessions : s > Len(made) => s \notin hooked' \cup linked'
      /\ \A s \in hooked' : Lsp!Living(s)' /\ sessions'[made[s].id] = s
      /\ \A s \in Lsp!Sessions : Serves(s)' /\ s \notin disposed' => s \in linked'
      /\ Lsp!ServersInReach'
  BY <1>1, StoppedSafely DEF Lsp!DisposeAll
<1>3. /\ lspPc' \in [Callers -> Places]
      /\ \A d \in Callers : \/ lspPc'[d] = lspPc[d]
                            \/ lspPc[d] = "linting" /\ lspPc'[d] = "done"
  <2>1. lspPc \in [Callers -> Places]
    BY DEF ServersInv, Lsp!TypeOK, Places
  <2>2. QED
    BY <2>1 DEF Lsp!DisposeAll, Lsp!Drained, Places
<1>4. /\ draining' \in BOOLEAN /\ drains' = {i \in Ids : inflight[i] # None}
      /\ sessions' = [i \in Ids |-> None]
      /\ UNCHANGED <<inflight, made, threads, server, post, got>>
  BY DEF Lsp!DisposeAll
<1>5. Lsp!TypeOK' /\ SessionsFit'
  <2>1. Lsp!TypeOK'
    BY <1>2, <1>3, <1>4 DEF ServersInv, Lsp!TypeOK, Places
  <2>2. SessionsFit'
    BY <1>2, <1>4 DEF ServersInv, SessionsFit, Serves
  <2>3. QED
    BY <2>1, <2>2
<1>6. Lsp!OneProvisions'
  BY <1>3, <1>4 DEF ServersInv, Lsp!TypeOK, Lsp!ServersSafe, Lsp!OneProvisions, LspConstants
<1>7. QED
  BY <1>2, <1>5, <1>6 DEF ServersInv, Lsp!ServersSafe

LEMMA DisposeEndsKeeps ==
  ASSUME LspConstants, ServersInv, Lsp!DisposeEnds
  PROVE  ServersInv'
BY DEF Lsp!DisposeEnds, ServersInv, Lsp!TypeOK, SessionsFit, Lsp!ServersSafe, Lsp!ServersInReach,
   Lsp!OneProvisions, Serves, Lsp!Living, Lsp!sessionVars, Lsp!workerVars, Lsp!callVars

(* A call that is past its session *)
LEMMA CallEndsKeeps ==
  ASSUME LspConstants, ServersInv, NEW c \in Callers, Lsp!ReadyOrNot(c) \/ Lsp!LintEnds(c)
  PROVE  ServersInv'
<1>1. /\ lspPc' \in [Callers -> Places] /\ lspPc[c] \in {"starting", "linting"}
      /\ lspPc'[c] \in {"linting", "done"}
      /\ \A d \in Callers \ {c} : lspPc'[d] = lspPc[d]
      /\ UNCHANGED <<Lsp!stateVars, Lsp!sessionVars, Lsp!workerVars, got>>
  BY DEF Lsp!ReadyOrNot, Lsp!LintEnds, ServersInv, Lsp!TypeOK, Places
<1>2. Lsp!TypeOK' /\ SessionsFit'
  BY <1>1 DEF ServersInv, Lsp!TypeOK, SessionsFit, Serves, Lsp!Living, Places,
              Lsp!stateVars, Lsp!sessionVars, Lsp!workerVars
<1>3. Lsp!ServersSafe'
  BY <1>1 DEF ServersInv, Lsp!TypeOK, Lsp!ServersSafe, Lsp!ServersInReach, Lsp!OneProvisions,
     LspConstants, Lsp!stateVars, Lsp!sessionVars, Lsp!workerVars
<1>4. QED
  BY <1>2, <1>3 DEF ServersInv

(* What the end of a provisioning does to calls, and to what is asked for *)
LEMMA InstallSettled ==
  ASSUME LspConstants, ServersInv, NEW i \in Ids, inflight[i] # None, NEW s,
         s = Len(made) + 1, Lsp!Settle(i, s)
  PROVE  /\ lspPc' \in [Callers -> Places] /\ got' \in [Callers -> Lsp!Sessions \cup {None}]
         /\ inflight' \in [Ids -> Callers \cup {None}] /\ drains' \subseteq Ids
         /\ s \in Lsp!Sessions /\ s # None /\ sessions[i] = None /\ inflight[i] \in Callers
         /\ made' \in Seq({Asks[c] : c \in Callers}) /\ Len(made') = s
         /\ made'[s].id = i
         /\ \A t \in 1 .. Len(made) : made'[t] = made[t]
         /\ Lsp!OneProvisions'
<1> DEFINE c == inflight[i]
<1>1. c \in Callers /\ lspPc[c] = "provisioning" /\ Asks[c].id = i /\ sessions[i] = None
  BY DEF ServersInv, Lsp!TypeOK, SessionsFit, Lsp!ServersSafe, Lsp!OneProvisions
<1>2. /\ lspPc' = [d \in Callers |-> CASE d = c -> "starting"
                                    [] lspPc[d] = "waiting" /\ Asks[d].id = i -> "woken"
                                    [] OTHER -> lspPc[d]]
      /\ inflight' = [inflight EXCEPT ![i] = None] /\ drains' = drains \ {i}
      /\ got' = [got EXCEPT ![c] = s] /\ made' = Append(made, Asks[c])
      /\ Len(made) < MaxSessions
  BY DEF Lsp!Settle
<1>3. made \in Seq({Asks[d] : d \in Callers}) /\ Len(made) \in Nat
  BY MadeOfIds DEF ServersInv, SessionsFit
<1>4. /\ s \in Lsp!Sessions /\ s # None
      /\ made' \in Seq({Asks[d] : d \in Callers}) /\ Len(made') = s
      /\ made'[s] = Asks[c] /\ \A t \in 1 .. Len(made) : made'[t] = made[t]
  BY <1>1, <1>2, <1>3 DEF LspConstants, Lsp!Sessions
<1>5. /\ lspPc'[c] = "starting"
      /\ \A d \in Callers \ {c} :
           lspPc'[d] = IF lspPc[d] = "waiting" /\ Asks[d].id = i THEN "woken" ELSE lspPc[d]
  BY <1>1, <1>2
<1>6. lspPc \in [Callers -> Places]
  BY DEF ServersInv, Lsp!TypeOK, Places
<1>7. lspPc' \in [Callers -> Places]
  BY <1>1, <1>2, <1>5, <1>6 DEF Places
<1>8. /\ got' \in [Callers -> Lsp!Sessions \cup {None}] /\ drains' \subseteq Ids
      /\ inflight' \in [Ids -> Callers \cup {None}]
  BY <1>1, <1>2, <1>4 DEF ServersInv, Lsp!TypeOK
<1>9. Lsp!OneProvisions'
  BY <1>1, <1>2, <1>5, <1>6 DEF ServersInv, Lsp!TypeOK, Lsp!ServersSafe, Lsp!OneProvisions,
     SessionsFit, LspConstants
<1>10. QED
  BY <1>1, <1>4, <1>7, <1>8, <1>9

LEMMA InstallFailsKeeps ==
  ASSUME LspConstants, ServersInv, NEW i \in Ids, Lsp!InstallFails(i)
  PROVE  ServersInv'
<1> DEFINE s == Len(made) + 1
<1>1. /\ lspPc' \in [Callers -> Places] /\ got' \in [Callers -> Lsp!Sessions \cup {None}]
      /\ inflight' \in [Ids -> Callers \cup {None}] /\ drains' \subseteq Ids
      /\ s \in Lsp!Sessions /\ s # None /\ sessions[i] = None /\ inflight[i] \in Callers
      /\ made' \in Seq({Asks[c] : c \in Callers}) /\ Len(made') = s
      /\ made'[s].id = i
      /\ \A t \in 1 .. Len(made) : made'[t] = made[t]
      /\ Lsp!OneProvisions'
  BY InstallSettled DEF Lsp!InstallFails
<1>2. /\ status' = [status EXCEPT ![s] = "install-failed"]
      /\ sessions' = [sessions EXCEPT ![i] = s]
      /\ inflight' = [inflight EXCEPT ![i] = None]
      /\ UNCHANGED <<hooked, linked, threads, server, disposed, draining, post>>
  BY DEF Lsp!InstallFails, Lsp!Settle
<1>3. Len(made) \in Nat /\ \A t \in Lsp!Sessions : t < s <=> t <= Len(made)
  BY MadeOfIds DEF Lsp!Sessions
<1>4. Lsp!TypeOK'
  <2>1. /\ Len(made') <= MaxSessions
        /\ \A t \in DOMAIN made' : made'[t] \in {Asks[c] : c \in Callers}
    BY <1>1 DEF Lsp!Sessions
  <2>2. \A t \in Lsp!Sessions : status'[t] = "none" <=> t > Len(made')
    BY <1>1, <1>2, <1>3 DEF ServersInv, Lsp!TypeOK, Lsp!Sessions
  <2>3. \A j \in Ids : sessions'[j] # None => made'[sessions'[j]].id = j
    <3>1. ASSUME NEW j \in Ids, j # i, sessions[j] # None
          PROVE  sessions[j] \in 1 .. Len(made) /\ made[sessions[j]].id = j
      BY <3>1 DEF ServersInv, Lsp!TypeOK, SessionsFit
    <3>2. \A j \in Ids : sessions'[j] = IF j = i THEN s ELSE sessions[j]
      BY <1>2 DEF ServersInv, Lsp!TypeOK
    <3>3. QED
      BY <1>1, <3>1, <3>2
  <2>4. QED
    BY <1>1, <1>2, <2>1, <2>2, <2>3 DEF ServersInv, Lsp!TypeOK, Places, Lsp!States
<1>5. SessionsFit'
  <2>1. \A t \in hooked : t # s /\ t \in 1 .. Len(made)
    BY <1>3, MadeOfIds DEF ServersInv, Lsp!TypeOK, SessionsFit, Lsp!Sessions
  <2>2. \A t \in hooked' : Lsp!Living(t)' /\ sessions'[made'[t].id] = t
    BY <1>1, <1>2, <2>1 DEF ServersInv, Lsp!TypeOK, SessionsFit, Lsp!Living, LspConstants
  <2>3. \A j \in Ids : sessions'[j] # None => sessions'[j] \in 1 .. Len(made')
    BY <1>1, <1>2, <1>3 DEF ServersInv, Lsp!TypeOK, SessionsFit
  <2>4. \A j \in Ids : inflight'[j] # None => sessions'[j] = None /\ Asks[inflight'[j]].id = j
    BY <1>2 DEF ServersInv, Lsp!TypeOK, SessionsFit
  <2>5. \A t \in Lsp!Sessions : t > Len(made') => t > Len(made)
    BY <1>1, <1>3 DEF Lsp!Sessions
  <2>6. \A t \in Lsp!Sessions : t > Len(made') => /\ server'[t] = "none" /\ post'[t] = <<>>
                                                  /\ t \notin hooked' \cup linked' \cup threads'
    BY <1>2, <2>5 DEF ServersInv, SessionsFit
  <2>7. /\ \A t \in Lsp!Sessions : Serves(t)' /\ t \notin disposed' => t \in linked'
        /\ post' \in [Lsp!Sessions -> Seq({"ready", "refused", "dead", "exit"})]
        /\ \A t \in Lsp!Sessions : \A j \in 1 .. Len(post'[t]) :
             post'[t][j] # "ready" => server'[t] = "exited"
    BY <1>2 DEF ServersInv, SessionsFit, Serves
  <2>8. QED
    BY <1>1, <2>2, <2>3, <2>4, <2>6, <2>7 DEF SessionsFit
<1>6. Lsp!ServersInReach'
  <2>1. ASSUME NEW t \in Lsp!Sessions, Serves(t), t \notin disposed
        PROVE  t \in 1 .. Len(made) /\ sessions[made[t].id] = t /\ made[t].id \in Ids /\ t # None
    BY <2>1, ServingIsRegistered
  <2>2. ASSUME NEW t \in Lsp!Sessions, Serves(t), t \notin disposed
        PROVE  sessions'[made'[t].id] = t
    BY <1>1, <1>2, <2>1, <2>2 DEF ServersInv, Lsp!TypeOK
  <2>3. QED
    BY <1>2, <2>2 DEF Lsp!ServersInReach, Serves
<1>7. QED
  BY <1>1, <1>4, <1>5, <1>6 DEF ServersInv, Lsp!ServersSafe

LEMMA SpawnKeeps ==
  ASSUME LspConstants, ServersInv, NEW i \in Ids, Lsp!Spawn(i)
  PROVE  ServersInv'
<1> DEFINE s == Len(made) + 1
<1>1. /\ lspPc' \in [Callers -> Places] /\ got' \in [Callers -> Lsp!Sessions \cup {None}]
      /\ inflight' \in [Ids -> Callers \cup {None}] /\ drains' \subseteq Ids
      /\ s \in Lsp!Sessions /\ s # None /\ sessions[i] = None /\ inflight[i] \in Callers
      /\ made' \in Seq({Asks[c] : c \in Callers}) /\ Len(made') = s
      /\ made'[s].id = i
      /\ \A t \in 1 .. Len(made) : made'[t] = made[t]
      /\ Lsp!OneProvisions'
  BY InstallSettled DEF Lsp!Spawn
<1>2. /\ threads' = threads \cup {s} /\ server' = [server EXCEPT ![s] = "starting"]
      /\ inflight' = [inflight EXCEPT ![i] = None]
      /\ \/ /\ status' = [status EXCEPT ![s] = "dead"] /\ disposed' = disposed \cup {s}
            /\ UNCHANGED <<sessions, hooked, linked>>
         \/ /\ status' = [status EXCEPT ![s] = "starting"]
            /\ sessions' = [sessions EXCEPT ![i] = s]
            /\ hooked' = hooked \cup {s} /\ linked' = linked \cup {s}
            /\ UNCHANGED disposed
      /\ UNCHANGED <<draining, post>>
  BY DEF Lsp!Spawn, Lsp!Settle
<1>3. Len(made) \in Nat /\ \A t \in Lsp!Sessions : t < s <=> t <= Len(made)
  BY MadeOfIds DEF Lsp!Sessions
<1>4. /\ \A j \in Ids \ {i} : sessions'[j] = sessions[j]
      /\ sessions'[i] = s \/ sessions' = sessions
      /\ sessions' \in [Ids -> Lsp!Sessions \cup {None}]
  BY SMTT(20), <1>1, <1>2 DEF ServersInv, Lsp!TypeOK
<1>5. Lsp!TypeOK'
  <2>1. /\ Len(made') <= MaxSessions
        /\ \A t \in DOMAIN made' : made'[t] \in {Asks[c] : c \in Callers}
    BY <1>1 DEF Lsp!Sessions
  <2>2. /\ \A t \in Lsp!Sessions : status'[t] = "none" <=> t > Len(made')
        /\ status' \in [Lsp!Sessions -> Lsp!States]
    <3>1. \E x \in {"dead", "starting"} : status' = [status EXCEPT ![s] = x]
      BY <1>2
    <3>2. \A t \in Lsp!Sessions : t > s <=> t > Len(made) /\ t # s
      BY <1>3 DEF Lsp!Sessions
    <3>3. /\ status \in [Lsp!Sessions -> Lsp!States]
          /\ \A t \in Lsp!Sessions : status[t] = "none" <=> t > Len(made)
      BY DEF ServersInv, Lsp!TypeOK
    <3>4. QED
      BY <1>1, <3>1, <3>2, <3>3 DEF Lsp!States
  <2>3. ASSUME NEW j \in Ids, sessions'[j] # None
        PROVE  made'[sessions'[j]].id = j
    <3>1. CASE sessions'[j] = sessions[j]
      BY <1>1, <2>3, <3>1 DEF ServersInv, Lsp!TypeOK, SessionsFit
    <3>2. CASE j = i /\ sessions'[i] = s
      BY <1>1, <3>2
    <3>3. QED
      BY <1>4, <3>1, <3>2
  <2>4. /\ hooked' \subseteq Lsp!Sessions /\ linked' \subseteq Lsp!Sessions
        /\ threads' \subseteq Lsp!Sessions /\ disposed' \subseteq Lsp!Sessions
    BY <1>1, <1>2 DEF ServersInv, Lsp!TypeOK
  <2>5. QED
    BY <1>1, <1>2, <1>4, <2>1, <2>2, <2>3, <2>4 DEF ServersInv, Lsp!TypeOK, Places
<1>6. SessionsFit'
  <2>1. \A t \in hooked : t # s /\ t \in 1 .. Len(made) /\ made[t].id # i /\ made[t].id \in Ids
    <3>1. \A t \in hooked : t \in Lsp!Sessions /\ t \in 1 .. Len(made)
      BY <1>3, MadeOfIds DEF ServersInv, Lsp!TypeOK, SessionsFit, Lsp!Sessions
    <3>2. QED
      BY <1>1, <1>3, <3>1, MadeOfIds DEF ServersInv, SessionsFit, LspConstants
  <2>2. ASSUME NEW t \in hooked'
        PROVE  Lsp!Living(t)' /\ sessions'[made'[t].id] = t
    <3>1. CASE t \in hooked
      <4>1. status'[t] = status[t]
        BY <1>2, <2>1, <3>1, MadeOfIds DEF ServersInv, Lsp!TypeOK
      <4>2. Lsp!Living(t) /\ sessions[made[t].id] = t
        BY <3>1 DEF ServersInv, SessionsFit
      <4>3. QED
        BY <1>1, <1>4, <2>1, <3>1, <4>1, <4>2 DEF Lsp!Living
    <3>2. CASE t \notin hooked
      BY <1>1, <1>2, <2>2, <3>2 DEF ServersInv, Lsp!TypeOK, Lsp!Living
    <3>3. QED
      BY <3>1, <3>2
  <2>3. \A j \in Ids : sessions'[j] # None => sessions'[j] \in 1 .. Len(made')
    BY <1>1, <1>3, <1>4 DEF ServersInv, Lsp!TypeOK, SessionsFit
  <2>4. \A j \in Ids : inflight'[j] # None => sessions'[j] = None /\ Asks[inflight'[j]].id = j
    BY <1>2, <1>4 DEF ServersInv, Lsp!TypeOK, SessionsFit
  <2>5. \A t \in Lsp!Sessions : t > Len(made') => t > Len(made) /\ t # s
    BY <1>1, <1>3 DEF Lsp!Sessions
  <2>6. \A t \in Lsp!Sessions : t # s => server'[t] = server[t]
    BY <1>2 DEF ServersInv, Lsp!TypeOK
  <2>7. \A t \in Lsp!Sessions : t > Len(made') => /\ server'[t] = "none" /\ post'[t] = <<>>
                                                  /\ t \notin hooked' \cup linked' \cup threads'
    BY <1>2, <2>5, <2>6 DEF ServersInv, SessionsFit
  <2>8. \A t \in Lsp!Sessions : Serves(t)' /\ t \notin disposed' => t \in linked'
    BY <1>2, <2>6 DEF ServersInv, SessionsFit, Serves
  <2>9. \A t \in Lsp!Sessions : \A j \in 1 .. Len(post'[t]) :
          post'[t][j] # "ready" => server'[t] = "exited"
    <3>1. post[s] = <<>>
      BY <1>1, <1>3 DEF ServersInv, SessionsFit
    <3>2. QED
      BY <1>2, <2>6, <3>1 DEF ServersInv, SessionsFit
  <2>10. QED
    BY <1>1, <1>2, <2>2, <2>3, <2>4, <2>7, <2>8, <2>9 DEF ServersInv, SessionsFit
<1>7. Lsp!ServersInReach'
  <2>1. ASSUME NEW t \in Lsp!Sessions, Serves(t), t \notin disposed
        PROVE  t \in 1 .. Len(made) /\ sessions[made[t].id] = t /\ made[t].id \in Ids /\ t # None
    BY <2>1, ServingIsRegistered
  <2>2. ASSUME NEW t \in Lsp!Sessions, t # s, Serves(t), t \notin disposed
        PROVE  sessions'[made'[t].id] = t
    BY <1>1, <1>4, <2>1, <2>2
  <2>3. s \notin disposed' => sessions'[made'[s].id] = s
    BY <1>1, <1>2 DEF ServersInv, Lsp!TypeOK
  <2>4. \A t \in Lsp!Sessions : t # s => server'[t] = server[t]
    BY <1>2 DEF ServersInv, Lsp!TypeOK
  <2>5. QED
    BY <1>2, <2>2, <2>3, <2>4 DEF Lsp!ServersInReach, Serves
<1>8. QED
  BY <1>1, <1>5, <1>6, <1>7 DEF ServersInv, Lsp!ServersSafe

-----------------------------------------------------------------------------
(* Steps of a worker, and what the host makes of its messages                *)

LEMMA WorkerStepKeeps ==
  ASSUME LspConstants, ServersInv, NEW s \in Lsp!Sessions,
         Lsp!Initialized(s) \/ Lsp!Refused(s) \/ Lsp!ServerExits(s) \/ Lsp!Dispose(s)
  PROVE  ServersInv'
<1>1. PICK to \in {"serving", "exited"},
           messages \in {<<"ready">>, <<"refused", "exit">>, <<"dead">>, <<"exit">>} :
        /\ s \in threads /\ threads' \subseteq threads
        /\ server' = [server EXCEPT ![s] = to]
        /\ post' = [post EXCEPT ![s] = @ \o messages]
        /\ to = "serving" => Serves(s) /\ messages = <<"ready">>
        /\ UNCHANGED <<Lsp!stateVars, Lsp!sessionVars, disposed, Lsp!callVars>>
        /\ \A j \in 1 .. Len(post[s]) : to = "serving" => post[s][j] = "ready"
  <2>1. \A j \in 1 .. Len(post[s]) : server[s] = "starting" => post[s][j] = "ready"
    BY DEF ServersInv, SessionsFit
  <2>2. QED
    BY <2>1 DEF Lsp!Initialized, Lsp!Refused, Lsp!ServerExits, Lsp!Dispose, Lsp!Posts, Serves
<1>2. s <= Len(made)
  BY <1>1, MadeOfIds DEF ServersInv, SessionsFit
<1>3. Lsp!TypeOK'
  BY <1>1 DEF ServersInv, Lsp!TypeOK, Lsp!stateVars, Lsp!sessionVars, Lsp!callVars
<1>4. post' \in [Lsp!Sessions -> Seq({"ready", "refused", "dead", "exit"})]
  <2>1. messages \in Seq({"ready", "refused", "dead", "exit"})
    <3>1. /\ <<"ready">> \in Seq({"ready", "refused", "dead", "exit"})
          /\ <<"refused", "exit">> \in Seq({"ready", "refused", "dead", "exit"})
          /\ <<"dead">> \in Seq({"ready", "refused", "dead", "exit"})
          /\ <<"exit">> \in Seq({"ready", "refused", "dead", "exit"})
      OBVIOUS
    <3>2. QED
      BY <3>1
  <2>2. post[s] \o messages \in Seq({"ready", "refused", "dead", "exit"})
    BY <2>1 DEF ServersInv, SessionsFit
  <2>3. QED
    BY <1>1, <2>2 DEF ServersInv, SessionsFit
<1>5. ASSUME NEW t \in Lsp!Sessions, NEW j \in 1 .. Len(post'[t]), post'[t][j] # "ready"
      PROVE  server'[t] = "exited"
  <2>1. CASE t # s
    BY <1>1, <1>5, <2>1 DEF ServersInv, Lsp!TypeOK, SessionsFit
  <2>2. CASE t = s /\ to = "exited"
    BY <1>1, <2>2 DEF ServersInv, Lsp!TypeOK
  <2>3. CASE t = s /\ to = "serving"
    <3>1. /\ post'[s] = post[s] \o <<"ready">>
          /\ post[s] \in Seq({"ready", "refused", "dead", "exit"})
      <4>1. messages = <<"ready">> /\ post' = [post EXCEPT ![s] = @ \o messages]
        BY <1>1, <2>3
      <4>2. post \in [Lsp!Sessions -> Seq({"ready", "refused", "dead", "exit"})]
        BY DEF ServersInv, SessionsFit
      <4>3. QED
        BY <4>1, <4>2
    <3>2. \A k \in 1 .. Len(post'[s]) : IF k <= Len(post[s]) THEN post'[s][k] = post[s][k]
                                        ELSE post'[s][k] = "ready"
      BY <3>1
    <3>3. j \in 1 .. Len(post[s])
      BY <1>5, <2>3, <3>1, <3>2
    <3>4. QED
      BY <1>1, <1>5, <2>3, <3>2, <3>3
  <2>4. QED
    BY <2>1, <2>2, <2>3
<1>6. \A t \in Lsp!Sessions : Serves(t)' => Serves(t)
  BY <1>1 DEF Serves, ServersInv, Lsp!TypeOK
<1>7. SessionsFit'
  BY <1>1, <1>2, <1>4, <1>5, <1>6, MadeOfIds DEF ServersInv, Lsp!TypeOK, SessionsFit, Lsp!Living,
     Lsp!stateVars, Lsp!sessionVars, Lsp!callVars
<1>8. Lsp!ServersSafe'
  BY <1>1, <1>6 DEF ServersInv, Lsp!ServersSafe, Lsp!ServersInReach, Lsp!OneProvisions, Serves,
     Lsp!stateVars, Lsp!sessionVars, Lsp!callVars
<1>9. QED
  BY <1>3, <1>7, <1>8 DEF ServersInv

LEMMA WorkerMsgKeeps ==
  ASSUME LspConstants, ServersInv, NEW s \in Lsp!Sessions, Lsp!WorkerMsg(s)
  PROVE  ServersInv'
<1>1. /\ post[s] \in Seq({"ready", "refused", "dead", "exit"}) /\ post[s] # <<>>
      /\ post' = [post EXCEPT ![s] = Tail(post[s])]
      /\ UNCHANGED <<inflight, draining, drains, made, linked, threads, server, disposed, got>>
  BY DEF Lsp!WorkerMsg, ServersInv, SessionsFit
<1>2. s \in 1 .. Len(made) /\ made[s].id \in Ids /\ s # None
  <2>1. s <= Len(made)
    BY <1>1, MadeOfIds DEF ServersInv, SessionsFit
  <2>2. QED
    BY <2>1, MadeOfIds DEF Lsp!Sessions, LspConstants
<1>3. /\ post' \in [Lsp!Sessions -> Seq({"ready", "refused", "dead", "exit"})]
      /\ \A t \in Lsp!Sessions : \A j \in 1 .. Len(post'[t]) :
           post'[t][j] # "ready" => server[t] = "exited"
  <2>1. /\ Tail(post[s]) \in Seq({"ready", "refused", "dead", "exit"})
        /\ \A j \in 1 .. Len(Tail(post[s])) : j + 1 \in 1 .. Len(post[s])
                                              /\ Tail(post[s])[j] = post[s][j + 1]
    BY <1>1
  <2>2. \A t \in Lsp!Sessions : post'[t] = IF t = s THEN Tail(post[s]) ELSE post[t]
    BY <1>1 DEF ServersInv, SessionsFit
  <2>3. post' \in [Lsp!Sessions -> Seq({"ready", "refused", "dead", "exit"})]
    BY <1>1, <2>1 DEF ServersInv, SessionsFit
  <2>4. ASSUME NEW t \in Lsp!Sessions, NEW j \in 1 .. Len(post'[t]), post'[t][j] # "ready"
        PROVE  server[t] = "exited"
    <3>1. CASE t = s
      <4>1. j + 1 \in 1 .. Len(post[s]) /\ post[s][j + 1] # "ready"
        BY <2>1, <2>2, <2>4, <3>1
      <4>2. QED
        BY <3>1, <4>1 DEF ServersInv, SessionsFit
    <3>2. CASE t # s
      BY <2>2, <2>4, <3>2 DEF ServersInv, SessionsFit
    <3>3. QED
      BY <3>1, <3>2
  <2>5. QED
    BY <2>3, <2>4
<1>4. CASE Head(post[s]) = "ready"
  <2>1. status' = [status EXCEPT ![s] = "ready"] /\ UNCHANGED <<lspPc, sessions, hooked>>
    BY <1>4 DEF Lsp!WorkerMsg
  <2>2. Lsp!TypeOK'
    BY <1>1, <1>2, <2>1 DEF ServersInv, Lsp!TypeOK, Lsp!States, Lsp!Sessions
  <2>3. SessionsFit'
    BY <1>1, <1>2, <1>3, <2>1 DEF ServersInv, Lsp!TypeOK, SessionsFit, Lsp!Living, Serves
  <2>4. Lsp!ServersSafe'
    BY <1>1, <2>1 DEF ServersInv, Lsp!ServersSafe, Lsp!ServersInReach, Lsp!OneProvisions
  <2>5. QED
    BY <2>2, <2>3, <2>4 DEF ServersInv
<1>5. CASE Head(post[s]) # "ready" /\ ~Lsp!Living(s)
  <2>1. UNCHANGED <<status, lspPc, sessions, hooked>>
    <3>1. /\ lspPc' = lspPc /\ sessions' = sessions
          /\ status' = [status EXCEPT ![s] = status[s]] /\ hooked' = Lsp!HooksLeft({s})
      BY <1>5 DEF Lsp!WorkerMsg, Lsp!MarkDead
    <3>2. Lsp!HooksLeft({s}) = hooked
      BY <1>5 DEF Lsp!HooksLeft
    <3>3. status' = status
      BY <3>1 DEF ServersInv, Lsp!TypeOK
    <3>4. QED
      BY <3>1, <3>2, <3>3
  <2>2. Lsp!TypeOK'
    BY <1>1, <2>1 DEF ServersInv, Lsp!TypeOK
  <2>3. SessionsFit'
    BY <1>1, <1>3, <2>1 DEF ServersInv, SessionsFit, Lsp!Living, Serves
  <2>4. Lsp!ServersSafe'
    BY <1>1, <2>1 DEF ServersInv, Lsp!ServersSafe, Lsp!ServersInReach, Lsp!OneProvisions
  <2>5. QED
    BY <2>2, <2>3, <2>4 DEF ServersInv
<1>6. CASE Head(post[s]) # "ready" /\ Lsp!Living(s)
  <2>1. /\ status' = [status EXCEPT ![s] = "dead"] /\ hooked' = hooked \ {s}
        /\ \/ sessions' = [sessions EXCEPT ![made[s].id] = None] /\ sessions[made[s].id] = s
           \/ UNCHANGED sessions
    BY <1>6 DEF Lsp!WorkerMsg, Lsp!MarkDead, Lsp!HooksLeft, ServersInv, Lsp!TypeOK, SessionsFit
  <2>2. /\ lspPc' \in [Callers -> Places]
        /\ \A d \in Callers : \/ lspPc'[d] = lspPc[d]
                              \/ lspPc[d] = "linting" /\ lspPc'[d] = "done"
    <3>1. lspPc \in [Callers -> Places]
      BY DEF ServersInv, Lsp!TypeOK, Places
    <3>2. QED
      BY <1>6, <3>1 DEF Lsp!WorkerMsg, Lsp!MarkDead, Lsp!Drained, Places
  <2>3. server[s] = "exited"
    BY <1>1, <1>6 DEF ServersInv, SessionsFit
  <2>4. \A i \in Ids : sessions'[i] = sessions[i] \/ sessions'[i] = None
    BY <2>1 DEF ServersInv, Lsp!TypeOK
  <2>5. Lsp!TypeOK'
    <3>1. /\ sessions' \in [Ids -> Lsp!Sessions \cup {None}]
          /\ status' \in [Lsp!Sessions -> Lsp!States]
      BY <2>1 DEF ServersInv, Lsp!TypeOK, Lsp!States
    <3>2. \A t \in Lsp!Sessions : status'[t] = "none" <=> t > Len(made)
      BY <1>2, <2>1, MadeOfIds DEF ServersInv, Lsp!TypeOK, Lsp!Sessions
    <3>3. \A i \in Ids : sessions'[i] # None => made[sessions'[i]].id = i
      BY <2>4 DEF ServersInv, Lsp!TypeOK
    <3>4. QED
      BY <1>1, <2>1, <2>2, <3>1, <3>2, <3>3 DEF ServersInv, Lsp!TypeOK, Places
  <2>6. \A t \in Lsp!Sessions \ {s} : \A i \in Ids : sessions[i] = t => sessions'[i] = t
    BY <1>2, <2>1 DEF ServersInv, Lsp!TypeOK
  <2>7. \A t \in hooked' : Lsp!Living(t)' /\ sessions'[made'[t].id] = t
    <3>1. \A t \in hooked' : /\ t \in hooked /\ t \in Lsp!Sessions \ {s} /\ made[t].id \in Ids
                             /\ status'[t] = status[t]
      BY <2>1, MadeOfIds DEF ServersInv, Lsp!TypeOK, SessionsFit, Lsp!Sessions
    <3>2. QED
      BY <1>1, <2>6, <3>1 DEF ServersInv, SessionsFit, Lsp!Living
  <2>8. SessionsFit'
    BY <1>1, <1>3, <2>1, <2>4, <2>7 DEF ServersInv, SessionsFit, Serves
  <2>9. Lsp!ServersInReach'
    <3>1. ASSUME NEW t \in Lsp!Sessions, Serves(t), t \notin disposed
          PROVE  t # s /\ sessions[made[t].id] = t /\ made[t].id \in Ids
      <4>1. t # s /\ sessions[made[t].id] = t
        BY <2>3, <3>1 DEF ServersInv, Lsp!ServersSafe, Lsp!ServersInReach, Serves
      <4>2. t \in 1 .. Len(made)
        BY <3>1, MadeOfIds DEF ServersInv, SessionsFit, Serves, Lsp!Sessions
      <4>3. QED
        BY <4>1, <4>2, MadeOfIds
    <3>2. QED
      BY <1>1, <2>6, <3>1 DEF Lsp!ServersInReach, Serves
  <2>10. Lsp!OneProvisions'
    BY <1>1, <2>2 DEF ServersInv, Lsp!TypeOK, Lsp!ServersSafe, Lsp!OneProvisions, LspConstants
  <2>11. QED
    BY <2>5, <2>8, <2>9, <2>10 DEF ServersInv, Lsp!ServersSafe
<1>7. QED
  BY <1>4, <1>5, <1>6

-----------------------------------------------------------------------------

LEMMA ServersStep == ASSUME LspConstants, ServersInv, [Lsp!Next]_(Lsp!vars) PROVE ServersInv'
<1>1. CASE UNCHANGED Lsp!vars
  BY <1>1 DEF ServersInv, Lsp!TypeOK, SessionsFit, Lsp!ServersSafe, Lsp!ServersInReach,
     Lsp!OneProvisions, Serves, Lsp!Living, Lsp!vars, Lsp!stateVars, Lsp!sessionVars,
     Lsp!workerVars, Lsp!callVars
<1>2. CASE \E c \in Callers : Lsp!EnsureSession(c)
  BY <1>2, ReuseKeeps, AwaitKeeps, ProvisionKeeps DEF Lsp!EnsureSession
<1>3. CASE Lsp!Next /\ ~\E c \in Callers : Lsp!EnsureSession(c)
  BY <1>3, CallEndsKeeps, InstallFailsKeeps, SpawnKeeps, StopKeeps, DisposeAllKeeps,
     DisposeEndsKeeps, WorkerStepKeeps, WorkerMsgKeeps DEF Lsp!Next
<1>4. QED
  BY <1>1, <1>2, <1>3

(* ensureSession, stop, disposeAll and what workers post: a server that runs is in the
   registry or was told to end, and each id is provisioned by one call at a time *)
THEOREM ServersAreSafe == Lsp!Spec => []ServersSafe
<1>1. Lsp!Init => ServersInv
  BY ServersInit, HelpersAssumption
<1>2. ServersInv /\ [Lsp!Next]_(Lsp!vars) => ServersInv'
  BY ServersStep, HelpersAssumption
<1>3. ServersInv => ServersSafe
  BY DEF ServersInv, ServersSafe
<1>4. QED
  BY <1>1, <1>2, <1>3, PTL DEF Lsp!Spec

-----------------------------------------------------------------------------
(* Subagent workers                                                          *)

(* A worker has no more events under way and credits held than it was given; a command runs
   while its socket is open or was cut, and a call between its endpoint and its end; output
   waits for a client that is there, or the run was aborted *)
RunsFit ==
  /\ \A c \in Commands : sent[c] + held[c] <= Credits
  /\ \A c \in Commands : sock[c] \in {"none", "ended"} => c \notin active
  /\ \A c \in Commands : sock[c] = "none" => answers[c] = 0
  /\ \A k \in InHost : k \in active => rpcCall[k] = "running"
  /\ \A c \in Commands : c \in paused => (sock[c] = "open" /\ c \in full) \/ c \in timers

RunsInv == Rpc!TypeOK /\ RunsFit /\ Rpc!RunsSafe

LEMMA RunsInit == ASSUME RpcConstants PROVE Rpc!Init => RunsInv
BY DEF Rpc!Init, RunsInv, Rpc!TypeOK, RunsFit, Rpc!RunsSafe, Rpc!AnsweredOnce, Rpc!OperationHeld,
   Rpc!CreditsComeBack, RpcConstants, Rpc!Runs, Rpc!Endpoints

LEMMA RetiredTyped ==
  ASSUME RpcConstants, Rpc!TypeOK
  PROVE  Rpc!ToRetire \subseteq Rpc!Endpoints /\ Rpc!Retiring \subseteq Rpc!Endpoints
BY DEF Rpc!TypeOK, Rpc!ToRetire, Rpc!Retiring

(* A rebinding changes only endpoints and the sockets without a run *)
LEMMA RebindKeeps ==
  ASSUME RpcConstants, RunsInv, NEW o \in Owners, NEW e \in Rpc!Endpoints, Rpc!Rebind(o, e)
  PROVE  /\ bound' \in Rpc!Endpoints \cup {None}
         /\ ownerOf' \in [Rpc!Endpoints -> Owners \cup {None}]
         /\ endpoint' \in [Rpc!Endpoints ->
              {"unused", "binding", "listening", "retired", "closing", "closed", "failed"}]
         /\ \E E \in SUBSET Rpc!Endpoints : Rpc!SocketsCut(E)
<1>1. Rpc!ToRetire \subseteq Rpc!Endpoints
  BY RetiredTyped DEF RunsInv
<1>2. \A f \in Rpc!Endpoints : Rpc!RetiredState(f) \in {"retired", "closing"}
  BY DEF Rpc!RetiredState
<1>3. \E E \in SUBSET Rpc!Endpoints : Rpc!SocketsCut(E)
  BY <1>1 DEF Rpc!Rebind
<1>4. CASE Cardinality(Rpc!Retiring \cup Rpc!ToRetire) < MaxActive
  BY <1>1, <1>2, <1>3, <1>4 DEF Rpc!Rebind, RunsInv, Rpc!TypeOK
<1>5. CASE ~(Cardinality(Rpc!Retiring \cup Rpc!ToRetire) < MaxActive)
  BY <1>1, <1>2, <1>3, <1>5 DEF Rpc!Rebind, RunsInv, Rpc!TypeOK
<1>6. QED
  BY <1>4, <1>5

(* What a cut of sockets without a run leaves of sockets and their output *)
LEMMA CutKeeps ==
  ASSUME RpcConstants, RunsInv, NEW E \in SUBSET Rpc!Endpoints, Rpc!SocketsCut(E)
  PROVE  /\ sock' \in [Commands -> {"none", "open", "ended", "closed"}]
         /\ full' \subseteq Commands
         /\ \A c \in Commands : \/ sock'[c] = sock[c] /\ (c \in full' <=> c \in full)
                                \/ sock'[c] = "closed" /\ c \notin active
BY DEF Rpc!SocketsCut, RunsInv, Rpc!TypeOK, Rpc!Connected

LEMMA ListeningKeeps ==
  ASSUME RpcConstants, RunsInv, NEW e \in Rpc!Endpoints, Rpc!Listening(e)
  PROVE  RunsInv'
<1>1. Rpc!TypeOK' /\ RunsFit'
  BY DEF Rpc!Listening, RunsInv, Rpc!RunsSafe, Rpc!TypeOK, RunsFit, Rpc!AnsweredOnce,
     RpcConstants, Rpc!Runs, Rpc!rpcVars, Rpc!runVars, Rpc!sockVars, Rpc!callVars, Rpc!quitVars
<1>2. Rpc!RunsSafe'
  BY DEF Rpc!Listening, RunsInv, Rpc!RunsSafe, Rpc!TypeOK, RunsFit, Rpc!AnsweredOnce,
     Rpc!OperationHeld, Rpc!CreditsComeBack, RpcConstants, Rpc!Runs, Rpc!rpcVars, Rpc!runVars,
     Rpc!sockVars, Rpc!callVars, Rpc!quitVars
<1>3. QED
  BY <1>1, <1>2 DEF RunsInv

LEMMA BindFailsKeeps ==
  ASSUME RpcConstants, RunsInv, NEW e \in Rpc!Endpoints, Rpc!BindFails(e)
  PROVE  RunsInv'
<1>1. Rpc!TypeOK' /\ RunsFit'
  BY DEF Rpc!BindFails, RunsInv, Rpc!RunsSafe, Rpc!TypeOK, RunsFit, Rpc!AnsweredOnce,
     RpcConstants, Rpc!Runs, Rpc!rpcVars, Rpc!runVars, Rpc!sockVars, Rpc!callVars, Rpc!quitVars
<1>2. Rpc!RunsSafe'
  BY DEF Rpc!BindFails, RunsInv, Rpc!RunsSafe, Rpc!TypeOK, RunsFit, Rpc!AnsweredOnce,
     Rpc!OperationHeld, Rpc!CreditsComeBack, RpcConstants, Rpc!Runs, Rpc!rpcVars, Rpc!runVars,
     Rpc!sockVars, Rpc!callVars, Rpc!quitVars
<1>3. QED
  BY <1>1, <1>2 DEF RunsInv

LEMMA ClosedKeeps ==
  ASSUME RpcConstants, RunsInv, NEW e \in Rpc!Endpoints, Rpc!Closed(e)
  PROVE  RunsInv'
<1>1. Rpc!TypeOK' /\ RunsFit'
  BY DEF Rpc!Closed, RunsInv, Rpc!RunsSafe, Rpc!TypeOK, RunsFit, Rpc!AnsweredOnce, RpcConstants,
     Rpc!Runs, Rpc!rpcVars, Rpc!runVars, Rpc!sockVars, Rpc!callVars, Rpc!quitVars
<1>2. Rpc!RunsSafe'
  BY DEF Rpc!Closed, RunsInv, Rpc!RunsSafe, Rpc!TypeOK, RunsFit, Rpc!AnsweredOnce,
     Rpc!OperationHeld, Rpc!CreditsComeBack, RpcConstants, Rpc!Runs, Rpc!rpcVars, Rpc!runVars,
     Rpc!sockVars, Rpc!callVars, Rpc!quitVars
<1>3. QED
  BY <1>1, <1>2 DEF RunsInv

LEMMA ConnectKeeps ==
  ASSUME RpcConstants, RunsInv, NEW c \in Commands, NEW e \in Rpc!Endpoints, Rpc!Connect(c, e)
  PROVE  RunsInv'
<1>1. Rpc!TypeOK' /\ RunsFit'
  BY DEF Rpc!Connect, RunsInv, Rpc!RunsSafe, Rpc!TypeOK, RunsFit, Rpc!AnsweredOnce, RpcConstants,
     Rpc!Runs, Rpc!rpcVars, Rpc!runVars, Rpc!sockVars, Rpc!callVars, Rpc!quitVars
<1>2. Rpc!RunsSafe'
  BY DEF Rpc!Connect, RunsInv, Rpc!RunsSafe, Rpc!TypeOK, RunsFit, Rpc!AnsweredOnce,
     Rpc!OperationHeld, Rpc!CreditsComeBack, RpcConstants, Rpc!Runs, Rpc!rpcVars, Rpc!runVars,
     Rpc!sockVars, Rpc!callVars, Rpc!quitVars
<1>3. QED
  BY <1>1, <1>2 DEF RunsInv

LEMMA LaunchKeeps ==
  ASSUME RpcConstants, RunsInv, NEW c \in Commands, Rpc!Launch(c)
  PROVE  RunsInv'
<1>1. Rpc!TypeOK' /\ RunsFit'
  BY DEF Rpc!Launch, Rpc!StartRun, Rpc!Unasked, RunsInv, Rpc!RunsSafe, Rpc!TypeOK, RunsFit,
     Rpc!AnsweredOnce, RpcConstants, Rpc!Runs, Rpc!rpcVars, Rpc!runVars, Rpc!sockVars,
     Rpc!callVars, Rpc!quitVars
<1>2. Rpc!RunsSafe'
  BY DEF Rpc!Launch, Rpc!StartRun, Rpc!Unasked, RunsInv, Rpc!RunsSafe, Rpc!TypeOK, RunsFit,
     Rpc!AnsweredOnce, Rpc!OperationHeld, Rpc!CreditsComeBack, RpcConstants, Rpc!Runs,
     Rpc!rpcVars, Rpc!runVars, Rpc!sockVars, Rpc!callVars, Rpc!quitVars
<1>3. QED
  BY <1>1, <1>2 DEF RunsInv

LEMMA RefuseKeeps ==
  ASSUME RpcConstants, RunsInv, NEW c \in Commands, Rpc!Refuse(c)
  PROVE  RunsInv'
<1>1. Rpc!TypeOK' /\ RunsFit'
  BY DEF Rpc!Refuse, Rpc!Unasked, RunsInv, Rpc!RunsSafe, Rpc!TypeOK, RunsFit, Rpc!AnsweredOnce,
     RpcConstants, Rpc!Runs, Rpc!rpcVars, Rpc!runVars, Rpc!sockVars, Rpc!callVars, Rpc!quitVars
<1>2. Rpc!RunsSafe'
  BY DEF Rpc!Refuse, Rpc!Unasked, RunsInv, Rpc!RunsSafe, Rpc!TypeOK, RunsFit, Rpc!AnsweredOnce,
     Rpc!OperationHeld, Rpc!CreditsComeBack, RpcConstants, Rpc!Runs, Rpc!rpcVars, Rpc!runVars,
     Rpc!sockVars, Rpc!callVars, Rpc!quitVars
<1>3. QED
  BY <1>1, <1>2 DEF RunsInv

LEMMA LeaveKeeps ==
  ASSUME RpcConstants, RunsInv, NEW c \in Commands, Rpc!Leave(c)
  PROVE  RunsInv'
<1>1. Rpc!TypeOK' /\ RunsFit'
  BY DEF Rpc!Leave, Rpc!AbortRuns, RunsInv, Rpc!RunsSafe, Rpc!TypeOK, RunsFit, Rpc!AnsweredOnce,
     RpcConstants, Rpc!Runs, Rpc!rpcVars, Rpc!runVars, Rpc!sockVars, Rpc!callVars, Rpc!quitVars
<1>2. Rpc!RunsSafe'
  BY DEF Rpc!Leave, Rpc!AbortRuns, RunsInv, Rpc!RunsSafe, Rpc!TypeOK, RunsFit, Rpc!AnsweredOnce,
     Rpc!OperationHeld, Rpc!CreditsComeBack, RpcConstants, Rpc!Runs, Rpc!rpcVars, Rpc!runVars,
     Rpc!sockVars, Rpc!callVars, Rpc!quitVars
<1>3. QED
  BY <1>1, <1>2 DEF RunsInv

LEMMA HangUpKeeps ==
  ASSUME RpcConstants, RunsInv, NEW c \in Commands, Rpc!HangUp(c)
  PROVE  RunsInv'
<1>1. Rpc!TypeOK' /\ RunsFit'
  BY DEF Rpc!HangUp, RunsInv, Rpc!RunsSafe, Rpc!TypeOK, RunsFit, Rpc!AnsweredOnce, RpcConstants,
     Rpc!Runs, Rpc!rpcVars, Rpc!runVars, Rpc!sockVars, Rpc!callVars, Rpc!quitVars
<1>2. Rpc!RunsSafe'
  BY DEF Rpc!HangUp, RunsInv, Rpc!RunsSafe, Rpc!TypeOK, RunsFit, Rpc!AnsweredOnce,
     Rpc!OperationHeld, Rpc!CreditsComeBack, RpcConstants, Rpc!Runs, Rpc!rpcVars, Rpc!runVars,
     Rpc!sockVars, Rpc!callVars, Rpc!quitVars
<1>3. QED
  BY <1>1, <1>2 DEF RunsInv

LEMMA DrainKeeps ==
  ASSUME RpcConstants, RunsInv, NEW c \in Commands, Rpc!Drain(c)
  PROVE  RunsInv'
<1>1. Rpc!TypeOK' /\ RunsFit'
  BY DEF Rpc!Drain, RunsInv, Rpc!RunsSafe, Rpc!TypeOK, RunsFit, Rpc!AnsweredOnce, RpcConstants,
     Rpc!Runs, Rpc!rpcVars, Rpc!runVars, Rpc!sockVars, Rpc!callVars, Rpc!quitVars
<1>2. Rpc!RunsSafe'
  BY DEF Rpc!Drain, RunsInv, Rpc!RunsSafe, Rpc!TypeOK, RunsFit, Rpc!AnsweredOnce,
     Rpc!OperationHeld, Rpc!CreditsComeBack, RpcConstants, Rpc!Runs, Rpc!rpcVars, Rpc!runVars,
     Rpc!sockVars, Rpc!callVars, Rpc!quitVars
<1>3. QED
  BY <1>1, <1>2 DEF RunsInv

LEMMA PublishKeeps ==
  ASSUME RpcConstants, RunsInv, NEW c \in Commands, Rpc!Publish(c)
  PROVE  RunsInv'
<1>1. Rpc!TypeOK' /\ RunsFit'
  BY DEF Rpc!Publish, RunsInv, Rpc!RunsSafe, Rpc!TypeOK, RunsFit, Rpc!AnsweredOnce, RpcConstants,
     Rpc!Runs, Rpc!rpcVars, Rpc!runVars, Rpc!sockVars, Rpc!callVars, Rpc!quitVars
<1>2. Rpc!RunsSafe'
  BY DEF Rpc!Publish, RunsInv, Rpc!RunsSafe, Rpc!TypeOK, RunsFit, Rpc!AnsweredOnce,
     Rpc!OperationHeld, Rpc!CreditsComeBack, RpcConstants, Rpc!Runs, Rpc!rpcVars, Rpc!runVars,
     Rpc!sockVars, Rpc!callVars, Rpc!quitVars
<1>3. QED
  BY <1>1, <1>2 DEF RunsInv

LEMMA ReceiveKeeps ==
  ASSUME RpcConstants, RunsInv, NEW c \in Commands, Rpc!Receive(c)
  PROVE  RunsInv'
<1>1. Rpc!TypeOK' /\ RunsFit'
  BY DEF Rpc!Receive, RunsInv, Rpc!RunsSafe, Rpc!TypeOK, RunsFit, Rpc!AnsweredOnce, RpcConstants,
     Rpc!Runs, Rpc!rpcVars, Rpc!runVars, Rpc!sockVars, Rpc!callVars, Rpc!quitVars
<1>2. Rpc!RunsSafe'
  BY DEF Rpc!Receive, RunsInv, Rpc!RunsSafe, Rpc!TypeOK, RunsFit, Rpc!AnsweredOnce,
     Rpc!OperationHeld, Rpc!CreditsComeBack, RpcConstants, Rpc!Runs, Rpc!rpcVars, Rpc!runVars,
     Rpc!sockVars, Rpc!callVars, Rpc!quitVars
<1>3. QED
  BY <1>1, <1>2 DEF RunsInv

LEMMA RunWorkerKeeps ==
  ASSUME RpcConstants, RunsInv, NEW k \in InHost, Rpc!RunWorker(k)
  PROVE  RunsInv'
<1>1. Rpc!TypeOK' /\ RunsFit'
  BY DEF Rpc!RunWorker, Rpc!StartRun, RunsInv, Rpc!RunsSafe, Rpc!TypeOK, RunsFit,
     Rpc!AnsweredOnce, RpcConstants, Rpc!Runs, Rpc!rpcVars, Rpc!runVars, Rpc!sockVars,
     Rpc!callVars, Rpc!quitVars
<1>2. Rpc!RunsSafe'
  BY DEF Rpc!RunWorker, Rpc!StartRun, RunsInv, Rpc!RunsSafe, Rpc!TypeOK, RunsFit,
     Rpc!AnsweredOnce, Rpc!OperationHeld, Rpc!CreditsComeBack, RpcConstants, Rpc!Runs,
     Rpc!rpcVars, Rpc!runVars, Rpc!sockVars, Rpc!callVars, Rpc!quitVars
<1>3. QED
  BY <1>1, <1>2 DEF RunsInv

LEMMA BeginKeeps ==
  ASSUME RpcConstants, RunsInv, NEW k \in InHost, Rpc!Begin(k)
  PROVE  RunsInv'
<1>1. Rpc!TypeOK' /\ RunsFit'
  BY DEF Rpc!Begin, Rpc!StartRun, RunsInv, Rpc!RunsSafe, Rpc!TypeOK, RunsFit, Rpc!AnsweredOnce,
     RpcConstants, Rpc!Runs, Rpc!rpcVars, Rpc!runVars, Rpc!sockVars, Rpc!callVars, Rpc!quitVars
<1>2. Rpc!RunsSafe'
  BY DEF Rpc!Begin, Rpc!StartRun, RunsInv, Rpc!RunsSafe, Rpc!TypeOK, RunsFit, Rpc!AnsweredOnce,
     Rpc!OperationHeld, Rpc!CreditsComeBack, RpcConstants, Rpc!Runs, Rpc!rpcVars, Rpc!runVars,
     Rpc!sockVars, Rpc!callVars, Rpc!quitVars
<1>3. QED
  BY <1>1, <1>2 DEF RunsInv

LEMMA GiveUpKeeps ==
  ASSUME RpcConstants, RunsInv, NEW k \in InHost, Rpc!GiveUp(k)
  PROVE  RunsInv'
<1>1. Rpc!TypeOK' /\ RunsFit'
  BY DEF Rpc!GiveUp, RunsInv, Rpc!RunsSafe, Rpc!TypeOK, RunsFit, Rpc!AnsweredOnce, RpcConstants,
     Rpc!Runs, Rpc!rpcVars, Rpc!runVars, Rpc!sockVars, Rpc!callVars, Rpc!quitVars
<1>2. Rpc!RunsSafe'
  BY DEF Rpc!GiveUp, RunsInv, Rpc!RunsSafe, Rpc!TypeOK, RunsFit, Rpc!AnsweredOnce,
     Rpc!OperationHeld, Rpc!CreditsComeBack, RpcConstants, Rpc!Runs, Rpc!rpcVars, Rpc!runVars,
     Rpc!sockVars, Rpc!callVars, Rpc!quitVars
<1>3. QED
  BY <1>1, <1>2 DEF RunsInv

LEMMA ReceiveDoneKeeps ==
  ASSUME RpcConstants, RunsInv, NEW r \in Rpc!Runs, Rpc!ReceiveDone(r)
  PROVE  RunsInv'
<1>1. Rpc!TypeOK' /\ RunsFit'
  BY DEF Rpc!ReceiveDone, RunsInv, Rpc!RunsSafe, Rpc!TypeOK, RunsFit, Rpc!AnsweredOnce,
     RpcConstants, Rpc!Runs, Rpc!rpcVars, Rpc!runVars, Rpc!sockVars, Rpc!callVars, Rpc!quitVars
<1>2. Rpc!RunsSafe'
  BY DEF Rpc!ReceiveDone, RunsInv, Rpc!RunsSafe, Rpc!TypeOK, RunsFit, Rpc!AnsweredOnce,
     Rpc!OperationHeld, Rpc!CreditsComeBack, RpcConstants, Rpc!Runs, Rpc!rpcVars, Rpc!runVars,
     Rpc!sockVars, Rpc!callVars, Rpc!quitVars
<1>3. QED
  BY <1>1, <1>2 DEF RunsInv

LEMMA AbortKeeps ==
  ASSUME RpcConstants, RunsInv, NEW r \in Rpc!Runs, Rpc!Abort(r)
  PROVE  RunsInv'
<1>1. Rpc!TypeOK' /\ RunsFit'
  BY DEF Rpc!Abort, Rpc!AbortRuns, RunsInv, Rpc!RunsSafe, Rpc!TypeOK, RunsFit, Rpc!AnsweredOnce,
     RpcConstants, Rpc!Runs, Rpc!rpcVars, Rpc!runVars, Rpc!sockVars, Rpc!callVars, Rpc!quitVars
<1>2. Rpc!RunsSafe'
  BY DEF Rpc!Abort, Rpc!AbortRuns, RunsInv, Rpc!RunsSafe, Rpc!TypeOK, RunsFit, Rpc!AnsweredOnce,
     Rpc!OperationHeld, Rpc!CreditsComeBack, RpcConstants, Rpc!Runs, Rpc!rpcVars, Rpc!runVars,
     Rpc!sockVars, Rpc!callVars, Rpc!quitVars
<1>3. QED
  BY <1>1, <1>2 DEF RunsInv

LEMMA TerminateKeeps ==
  ASSUME RpcConstants, RunsInv, NEW r \in Rpc!Runs, Rpc!Terminate(r)
  PROVE  RunsInv'
<1>1. Rpc!TypeOK' /\ RunsFit'
  BY DEF Rpc!Terminate, RunsInv, Rpc!RunsSafe, Rpc!TypeOK, RunsFit, Rpc!AnsweredOnce,
     RpcConstants, Rpc!Runs, Rpc!rpcVars, Rpc!runVars, Rpc!sockVars, Rpc!callVars, Rpc!quitVars
<1>2. Rpc!RunsSafe'
  BY DEF Rpc!Terminate, RunsInv, Rpc!RunsSafe, Rpc!TypeOK, RunsFit, Rpc!AnsweredOnce,
     Rpc!OperationHeld, Rpc!CreditsComeBack, RpcConstants, Rpc!Runs, Rpc!rpcVars, Rpc!runVars,
     Rpc!sockVars, Rpc!callVars, Rpc!quitVars
<1>3. QED
  BY <1>1, <1>2 DEF RunsInv

LEMMA ExitKeeps ==
  ASSUME RpcConstants, RunsInv, NEW r \in Rpc!Runs, Rpc!Exit(r)
  PROVE  RunsInv'
<1>1. Rpc!TypeOK' /\ RunsFit'
  BY DEF Rpc!Exit, RunsInv, Rpc!RunsSafe, Rpc!TypeOK, RunsFit, Rpc!AnsweredOnce, RpcConstants,
     Rpc!Runs, Rpc!rpcVars, Rpc!runVars, Rpc!sockVars, Rpc!callVars, Rpc!quitVars
<1>2. Rpc!RunsSafe'
  BY DEF Rpc!Exit, RunsInv, Rpc!RunsSafe, Rpc!TypeOK, RunsFit, Rpc!AnsweredOnce,
     Rpc!OperationHeld, Rpc!CreditsComeBack, RpcConstants, Rpc!Runs, Rpc!rpcVars, Rpc!runVars,
     Rpc!sockVars, Rpc!callVars, Rpc!quitVars
<1>3. QED
  BY <1>1, <1>2 DEF RunsInv

LEMMA SessionStartKeeps ==
  ASSUME RpcConstants, RunsInv, NEW o \in Owners, NEW e \in Rpc!Endpoints, Rpc!SessionStart(o, e)
  PROVE  RunsInv'
<1>1. PICK E \in SUBSET Rpc!Endpoints : Rpc!SocketsCut(E)
  BY RebindKeeps DEF Rpc!SessionStart
<1>2. /\ sock' \in [Commands -> {"none", "open", "ended", "closed"}] /\ full' \subseteq Commands
      /\ \A c \in Commands : \/ sock'[c] = sock[c] /\ (c \in full' <=> c \in full)
                             \/ sock'[c] = "closed" /\ c \notin active
  BY <1>1, CutKeeps
<1>3. Rpc!TypeOK' /\ RunsFit'
  BY <1>2, RebindKeeps DEF Rpc!SessionStart, RunsInv, Rpc!TypeOK, RunsFit, Rpc!runVars,
     Rpc!callVars, Rpc!quitVars
<1>4. Rpc!RunsSafe'
  BY <1>2 DEF Rpc!SessionStart, RunsInv, Rpc!RunsSafe, Rpc!TypeOK, RunsFit, Rpc!AnsweredOnce,
     Rpc!OperationHeld, Rpc!CreditsComeBack, Rpc!runVars, Rpc!callVars, Rpc!quitVars
<1>5. QED
  BY <1>3, <1>4 DEF RunsInv

(* A call that awaits an endpoint holds its operation, whether it made the endpoint or found
   it *)
LEMMA AwaitEndpointKeeps ==
  ASSUME RpcConstants, RunsInv, NEW k \in InHost, NEW e \in Rpc!Endpoints, Rpc!AwaitEndpoint(k, e)
  PROVE  RunsInv'
<1>1. /\ bound' \in Rpc!Endpoints \cup {None}
      /\ ownerOf' \in [Rpc!Endpoints -> Owners \cup {None}]
      /\ endpoint' \in [Rpc!Endpoints ->
           {"unused", "binding", "listening", "retired", "closing", "closed", "failed"}]
      /\ \E E \in SUBSET Rpc!Endpoints : Rpc!SocketsCut(E)
  <2>1. CASE UNCHANGED <<bound, ownerOf, endpoint, sock, full>>
    <3>1. Rpc!SocketsCut({})
      BY <2>1 DEF Rpc!SocketsCut, RunsInv, Rpc!TypeOK
    <3>2. QED
      BY <2>1, <3>1 DEF RunsInv, Rpc!TypeOK
  <2>2. CASE Rpc!Rebind(session, e)
    BY <2>2, RebindKeeps DEF Rpc!AwaitEndpoint, RunsInv, Rpc!TypeOK
  <2>3. QED
    BY <2>1, <2>2 DEF Rpc!AwaitEndpoint
<1>2. PICK E \in SUBSET Rpc!Endpoints : Rpc!SocketsCut(E)
  BY <1>1
<1>3. /\ sock' \in [Commands -> {"none", "open", "ended", "closed"}] /\ full' \subseteq Commands
      /\ \A c \in Commands : \/ sock'[c] = sock[c] /\ (c \in full' <=> c \in full)
                             \/ sock'[c] = "closed" /\ c \notin active
  BY <1>2, CutKeeps
<1>4. Rpc!TypeOK' /\ RunsFit'
  BY <1>1, <1>3 DEF Rpc!AwaitEndpoint, RunsInv, Rpc!TypeOK, RunsFit, Rpc!Runs, RpcConstants,
     Rpc!quitVars
<1>5. Rpc!RunsSafe'
  BY <1>3 DEF Rpc!AwaitEndpoint, RunsInv, Rpc!RunsSafe, Rpc!TypeOK, RunsFit, Rpc!AnsweredOnce,
     Rpc!OperationHeld, Rpc!CreditsComeBack, Rpc!Runs, RpcConstants, Rpc!quitVars
<1>6. QED
  BY <1>4, <1>5 DEF RunsInv

LEMMA QuitKeeps ==
  ASSUME RpcConstants, RunsInv, Rpc!Quit
  PROVE  RunsInv'
<1>1. Rpc!ToRetire \subseteq Rpc!Endpoints /\ Rpc!Retiring \subseteq Rpc!Endpoints
  BY RetiredTyped DEF RunsInv
<1>2. /\ sock' \in [Commands -> {"none", "open", "ended", "closed"}] /\ full' \subseteq Commands
      /\ \A c \in Commands : \/ sock'[c] = sock[c] /\ (c \in full' <=> c \in full)
                             \/ sock'[c] = "closed" /\ c \notin active
  BY <1>1, CutKeeps DEF Rpc!Quit
<1>3. \A e \in Rpc!Endpoints : Rpc!RetiredState(e) \in {"retired", "closing"}
  BY DEF Rpc!RetiredState
<1>4. Rpc!TypeOK' /\ RunsFit'
  <2>1. /\ endpoint' \in [Rpc!Endpoints ->
             {"unused", "binding", "listening", "retired", "closing", "closed", "failed"}]
        /\ awaited'.runs \subseteq Rpc!Runs /\ awaited'.endpoints \subseteq Rpc!Endpoints
    BY <1>1, <1>3 DEF Rpc!Quit, RunsInv, Rpc!TypeOK
  <2>2. /\ timers' \subseteq active' /\ paused' \subseteq active'
        /\ held' \in [Commands -> 0 .. Credits]
        /\ \A c \in Commands : held'[c] <= held[c]
    BY DEF Rpc!Quit, Rpc!AbortRuns, RunsInv, Rpc!TypeOK, RpcConstants
  <2>3. Rpc!TypeOK'
    BY <1>2, <2>1, <2>2 DEF Rpc!Quit, RunsInv, Rpc!TypeOK, Rpc!callVars
  <2>4. RunsFit'
    BY <1>2, <2>2 DEF Rpc!Quit, Rpc!AbortRuns, RunsInv, Rpc!TypeOK, RunsFit, Rpc!callVars,
       RpcConstants
  <2>5. QED
    BY <2>3, <2>4
<1>5. Rpc!RunsSafe'
  BY <1>2 DEF Rpc!Quit, Rpc!AbortRuns, RunsInv, Rpc!RunsSafe, Rpc!TypeOK, RunsFit,
     Rpc!AnsweredOnce, Rpc!OperationHeld, Rpc!CreditsComeBack, Rpc!callVars
<1>6. QED
  BY <1>4, <1>5 DEF RunsInv

LEMMA StoppedKeeps ==
  ASSUME RpcConstants, RunsInv, Rpc!Stopped
  PROVE  RunsInv'
BY DEF Rpc!Stopped, RunsInv, Rpc!RunsSafe, Rpc!TypeOK, RunsFit, Rpc!AnsweredOnce,
   Rpc!OperationHeld, Rpc!CreditsComeBack, Rpc!rpcVars, Rpc!runVars, Rpc!sockVars, Rpc!callVars

LEMMA RunsStep == ASSUME RpcConstants, RunsInv, [Rpc!Next]_(Rpc!vars) PROVE RunsInv'
<1>1. CASE UNCHANGED Rpc!vars
  BY <1>1 DEF RunsInv, Rpc!RunsSafe, Rpc!TypeOK, RunsFit, Rpc!AnsweredOnce, Rpc!OperationHeld,
     Rpc!CreditsComeBack, Rpc!vars, Rpc!rpcVars, Rpc!runVars, Rpc!sockVars, Rpc!callVars,
     Rpc!quitVars
<1>2. CASE Rpc!Next
  BY <1>2, SessionStartKeeps, ListeningKeeps, BindFailsKeeps, ClosedKeeps, ConnectKeeps,
     LaunchKeeps, RefuseKeeps, LeaveKeeps, HangUpKeeps, DrainKeeps, PublishKeeps, ReceiveKeeps,
     AwaitEndpointKeeps, RunWorkerKeeps, BeginKeeps, GiveUpKeeps, ReceiveDoneKeeps, AbortKeeps,
     TerminateKeeps, ExitKeeps, QuitKeeps, StoppedKeeps DEF Rpc!Next
<1>3. QED
  BY <1>1, <1>2

(* launch, runSubagentWorker, finishRun and stopSubagentRpc: a command is answered once, an
   operation is held for what runs or awaits its endpoint, and a worker that waits for
   credits gets them or is ended *)
THEOREM RunsAreSafe == Rpc!Spec => []RunsSafe
<1>1. Rpc!Init => RunsInv
  BY RunsInit, HelpersAssumption
<1>2. RunsInv /\ [Rpc!Next]_(Rpc!vars) => RunsInv'
  BY RunsStep, HelpersAssumption
<1>3. RunsInv => RunsSafe
  BY DEF RunsInv, RunsSafe
<1>4. QED
  BY <1>1, <1>2, <1>3, PTL DEF Rpc!Spec

-----------------------------------------------------------------------------
(* The types of the three, and the relations of state in them: journal and records, calls and
   the sessions they wait for, runs and their sockets *)
THEOREM HelpersTypes == Spec /\ Lsp!Spec /\ Rpc!Spec => []TypesOK
<1>1. Lsp!Spec => []Lsp!TypeOK
  <2>1. Lsp!Init => ServersInv
    BY ServersInit, HelpersAssumption
  <2>2. ServersInv /\ [Lsp!Next]_(Lsp!vars) => ServersInv'
    BY ServersStep, HelpersAssumption
  <2>3. ServersInv => Lsp!TypeOK
    BY DEF ServersInv
  <2>4. QED
    BY <2>1, <2>2, <2>3, PTL DEF Lsp!Spec
<1>2. Rpc!Spec => []Rpc!TypeOK
  <2>1. Rpc!Init => RunsInv
    BY RunsInit, HelpersAssumption
  <2>2. RunsInv /\ [Rpc!Next]_(Rpc!vars) => RunsInv'
    BY RunsStep, HelpersAssumption
  <2>3. RunsInv => Rpc!TypeOK
    BY DEF RunsInv
  <2>4. QED
    BY <2>1, <2>2, <2>3, PTL DEF Rpc!Spec
<1>3. QED
  BY <1>1, <1>2, TypeInvariant, PTL DEF TypesOK

=============================================================================
