---------------------------- MODULE SessionProofs ----------------------------
(***************************************************************************)
(* Proofs about what goes on between the turns of a session's agent:       *)
(* SessionHold, for any sets of shells, alarms and producers and any       *)
(* bounds on queues and sources; AntiStuck, for any numbers of sessions    *)
(* and probes; GoalLoop, for any budget of runs and any number of          *)
(* commands.                                                               *)
(***************************************************************************)
EXTENDS Session, FiniteSetTheorems, TLAPS

-----------------------------------------------------------------------------
(* The hold of the session                                                   *)

AgentOK ==
  /\ phase \in {"idle", "busy", "drained", "holding", "ended"}
  /\ stopped \in BOOLEAN
  /\ mail \in [Kinds -> 0 .. MaxMail]
  /\ running \subseteq Shells
  /\ armed \subseteq Alarms

SourcesOK ==
  /\ sources \subseteq Producers
  /\ IsFiniteSet(sources) /\ Cardinality(sources) <= MaxSources
  /\ pending \subseteq sources
  /\ queued \in 0 .. MaxQueued
  /\ bound \in BOOLEAN

HoldOK ==
  /\ watched \subseteq Producers
  /\ count \in Nat
  /\ woken \in BOOLEAN
  /\ news \subseteq Kinds /\ missed \subseteq Kinds

Typed == AgentOK /\ SourcesOK /\ HoldOK

(* What hasQueued counts is what the agent has yet to read, except after an abort, which
   forgets the count at once and the messages when the run settles *)
QueueInv ==
  /\ queued <= mail["external"]
  /\ ~stopped => mail["external"] = queued
  /\ phase = "idle" => ~stopped
  /\ phase = "holding" /\ ~woken => ~stopped /\ queued = 0

(* A run that has sources listens to its abort, and after the abort it has none *)
SourceInv ==
  /\ Active /\ ~stopped /\ sources # {} => bound
  /\ Active /\ stopped => sources = {}

IInv == Typed /\ QueueInv /\ SourceInv

(* The number of pending sources is a number *)
LEMMA PendingIsNat ==
  ASSUME SourcesOK, NEW among
  PROVE  Pending(among) \in Nat
<1>1. IsFiniteSet(among \cap sources \cap pending)
  BY FS_Subset DEF SourcesOK
<1>2. Cardinality(among \cap sources \cap pending) \in Nat
  BY <1>1, FS_CardinalityType
<1>3. QED
  BY <1>2 DEF Pending

(* A message more, or one less, of a kind *)
LEMMA MailMoves ==
  ASSUME AgentOK, Limits, NEW k \in Kinds
  PROVE  /\ \A j \in Kinds : mail[j] \in Nat
         /\ mail[k] < MaxMail => [mail EXCEPT ![k] = @ + 1] \in [Kinds -> 0 .. MaxMail]
         /\ mail[k] > 0 => [mail EXCEPT ![k] = @ - 1] \in [Kinds -> 0 .. MaxMail]
         /\ [mail EXCEPT ![k] = @ + 1][k] = mail[k] + 1
         /\ [mail EXCEPT ![k] = @ - 1][k] = mail[k] - 1
         /\ \A j \in Kinds \ {k} : /\ [mail EXCEPT ![k] = @ + 1][j] = mail[j]
                                   /\ [mail EXCEPT ![k] = @ - 1][j] = mail[j]
BY DEF AgentOK, Limits

LEMMA ExternalIsKind == "external" \in Kinds
BY DEF Kinds

LEMMA InitIInv ==
  ASSUME Limits
  PROVE  Init => IInv
<1> SUFFICES ASSUME Init PROVE IInv
  OBVIOUS
<1>1. AgentOK
  <2>1. stopped \in BOOLEAN
    BY DEF Init
  <2>2. QED
    BY <2>1 DEF Init, AgentOK, Limits
<1>2. SourcesOK
  <2>1. bound \in BOOLEAN
    BY DEF Init
  <2>2. IsFiniteSet(sources) /\ Cardinality(sources) = 0
    BY FS_EmptySet DEF Init
  <2>3. QED
    BY <2>1, <2>2 DEF Init, SourcesOK, Limits
<1>3. HoldOK
  <2>1. woken \in BOOLEAN
    BY DEF Init
  <2>2. QED
    BY <2>1 DEF Init, HoldOK
<1>4. QueueInv /\ SourceInv
  BY ExternalIsKind DEF Init, QueueInv, SourceInv, Active
<1>5. QED
  BY <1>1, <1>2, <1>3, <1>4 DEF IInv, Typed

-----------------------------------------------------------------------------
(* The agent *)

LEMMA AgentStartIInv ==
  ASSUME Limits, IInv, AgentStart
  PROVE  IInv'
<1>1. /\ phase \in {"idle", "ended"} /\ phase' = "busy" /\ stopped' = FALSE /\ ~stopped
      /\ bound' = (sources # {})
      /\ UNCHANGED <<mail, running, armed, pending, sources, queued, watched, count, woken,
                     news, missed>>
  BY DEF AgentStart, workVars, holdVars, IInv, QueueInv
<1>2. stopped' \in BOOLEAN /\ bound' \in BOOLEAN
  BY <1>1
<1>3. Typed'
  BY <1>1, <1>2 DEF IInv, Typed, AgentOK, SourcesOK, HoldOK
<1>4. QueueInv' /\ SourceInv'
  BY <1>1 DEF IInv, QueueInv, SourceInv, Active
<1>5. QED
  BY <1>3, <1>4 DEF IInv

LEMMA ReadMessageIInv ==
  ASSUME Limits, IInv, NEW k \in Kinds, ReadMessage(k)
  PROVE  IInv'
<1>1. /\ phase = "busy" /\ mail[k] > 0 /\ mail' = [mail EXCEPT ![k] = @ - 1]
      /\ queued' = IF k = "external" /\ queued > 0 THEN queued - 1 ELSE queued
      /\ UNCHANGED <<phase, stopped, running, armed, pending, sources, bound, watched, count,
                     woken, news, missed>>
  BY DEF ReadMessage, workVars, holdVars
<1>2. /\ mail' \in [Kinds -> 0 .. MaxMail] /\ mail["external"] \in Nat
      /\ mail'["external"] = IF k = "external" THEN mail["external"] - 1 ELSE mail["external"]
  BY <1>1, MailMoves, ExternalIsKind DEF IInv, Typed
<1>3. queued \in 0 .. MaxQueued /\ queued' \in 0 .. MaxQueued
  BY <1>1 DEF IInv, Typed, SourcesOK, Limits
<1>4. Typed'
  BY <1>1, <1>2, <1>3 DEF IInv, Typed, AgentOK, SourcesOK, HoldOK
<1>5. QueueInv'
  BY <1>1, <1>2, <1>3 DEF IInv, QueueInv
<1>6. SourceInv'
  BY <1>1 DEF IInv, SourceInv, Active
<1>7. QED
  BY <1>4, <1>5, <1>6 DEF IInv

LEMMA AgentEndIInv ==
  ASSUME Limits, IInv, Drained \/ AgentEnd \/ HoldEnds
  PROVE  IInv'
<1>1. /\ phase # "idle" /\ phase' \in {"drained", "holding", "ended"}
      /\ UNCHANGED <<stopped, mail, running, armed, pending, sources, queued, bound>>
  BY DEF Drained, AgentEnd, HoldEnds, workVars, eventVars
<1>2. HoldOK'
  <2>1. CASE UNCHANGED holdVars
    BY <2>1 DEF holdVars, IInv, Typed, HoldOK
  <2>2. CASE ~UNCHANGED holdVars
    <3>1. /\ watched' = sources /\ count' = Pending(sources) /\ woken' = FALSE
          /\ news' = {} /\ missed' = {}
      BY <2>2 DEF Drained, AgentEnd, HoldEnds
    <3>2. woken' \in BOOLEAN
      BY <3>1
    <3>3. count' \in Nat
      BY <3>1, PendingIsNat DEF IInv, Typed
    <3>4. QED
      BY <3>1, <3>2, <3>3 DEF IInv, Typed, SourcesOK, HoldOK
  <2>3. QED
    BY <2>1, <2>2
<1>3. Typed'
  BY <1>1, <1>2 DEF IInv, Typed, AgentOK, SourcesOK
<1>4. phase' = "holding" => ~stopped /\ queued = 0
  <2>1. phase' = "holding" => ~stopped /\ ~HasQueued
    BY DEF Drained, AgentEnd, HoldEnds
  <2>2. QED
    BY <2>1 DEF HasQueued, IInv, Typed, SourcesOK
<1>5. QueueInv' /\ SourceInv'
  BY <1>1, <1>4 DEF IInv, QueueInv, SourceInv, Active
<1>6. QED
  BY <1>3, <1>5 DEF IInv

LEMMA TickIInv ==
  ASSUME Limits, IInv, Tick
  PROVE  IInv'
<1>1. /\ phase = "holding" /\ ~woken
      /\ UNCHANGED <<phase, stopped, mail, running, armed, pending, sources, queued, bound,
                     watched, news>>
  BY DEF Tick, agentVars, workVars, eventVars
<1>2. Pending(watched) \in Nat
  BY PendingIsNat DEF IInv, Typed
<1>3. count' \in Nat /\ missed' \subseteq Kinds
  BY <1>2 DEF Tick, IInv, Typed, HoldOK
<1>4. woken' \in BOOLEAN
  BY DEF Tick, IInv, Typed, HoldOK
<1>5. Typed'
  BY <1>1, <1>3, <1>4 DEF IInv, Typed, AgentOK, SourcesOK, HoldOK
<1>6. QueueInv' /\ SourceInv'
  BY <1>1 DEF IInv, QueueInv, SourceInv, Active
<1>7. QED
  BY <1>5, <1>6 DEF IInv

LEMMA SettleIInv ==
  ASSUME Limits, IInv, Settle
  PROVE  IInv'
<1>1. /\ phase' = "idle" /\ stopped' = FALSE /\ bound' = FALSE
      /\ UNCHANGED <<running, armed, watched, count, woken, news, missed>>
  BY DEF Settle, holdVars
<1>2. stopped' \in BOOLEAN /\ bound' \in BOOLEAN
  BY <1>1
<1>3. CASE stopped
  <2>1. /\ mail' = [k \in Kinds |-> 0] /\ sources' = {} /\ pending' = {} /\ queued' = 0
    BY <1>3 DEF Settle
  <2>2. IsFiniteSet(sources') /\ Cardinality(sources') = 0
    BY <2>1, FS_EmptySet
  <2>3. SourcesOK'
    BY <1>2, <2>1, <2>2 DEF SourcesOK, Limits
  <2>4. AgentOK' /\ HoldOK'
    BY <1>1, <1>2, <2>1 DEF IInv, Typed, AgentOK, HoldOK, Limits
  <2>5. QueueInv' /\ SourceInv'
    BY <1>1, <2>1, ExternalIsKind DEF QueueInv, SourceInv, Active
  <2>6. QED
    BY <2>3, <2>4, <2>5 DEF IInv, Typed
<1>4. CASE ~stopped
  <2>1. UNCHANGED <<mail, sources, pending, queued>>
    BY <1>4 DEF Settle
  <2>2. Typed'
    BY <1>1, <1>2, <2>1 DEF IInv, Typed, AgentOK, SourcesOK, HoldOK
  <2>3. QueueInv' /\ SourceInv'
    BY <1>1, <1>4, <2>1 DEF IInv, QueueInv, SourceInv, Active
  <2>4. QED
    BY <2>2, <2>3 DEF IInv
<1>5. QED
  BY <1>3, <1>4

(* The listener of the run takes its sources; without sources nothing need listen *)
LEMMA AbortIInv ==
  ASSUME Limits, IInv, Abort
  PROVE  IInv'
<1>1. /\ phase # "idle" /\ ~stopped /\ stopped' = TRUE /\ bound' = FALSE
      /\ UNCHANGED <<phase, mail, running, armed, watched, count, news, missed>>
  BY DEF Abort, Active
<1>2. stopped' \in BOOLEAN /\ bound' \in BOOLEAN
  BY <1>1
<1>3. woken' \in BOOLEAN /\ (phase = "holding" => woken')
  BY DEF Abort, Signalled, IInv, Typed, HoldOK
<1>4. AgentOK' /\ HoldOK'
  BY <1>1, <1>2, <1>3 DEF IInv, Typed, AgentOK, HoldOK
<1>5. sources' = {} /\ pending' = {} /\ queued' \in {0, queued}
  BY <1>1 DEF Abort, IInv, Typed, SourcesOK, SourceInv, Active
<1>6. IsFiniteSet(sources') /\ Cardinality(sources') = 0
  BY <1>5, FS_EmptySet
<1>7. SourcesOK'
  BY <1>2, <1>5, <1>6 DEF IInv, Typed, SourcesOK, Limits
<1>8. mail["external"] \in Nat /\ queued \in Nat
  BY MailMoves, ExternalIsKind DEF IInv, Typed, SourcesOK, Limits
<1>9. QueueInv'
  BY <1>1, <1>3, <1>5, <1>8 DEF IInv, QueueInv
<1>10. SourceInv'
  BY <1>1, <1>5 DEF SourceInv
<1>11. QED
  BY <1>4, <1>7, <1>9, <1>10 DEF IInv, Typed

-----------------------------------------------------------------------------
(* Work behind the agent *)

(* A message that is not of an external source leaves the queue's count as it is *)
LEMMA OtherMessageIInv ==
  ASSUME Limits, IInv, NEW k \in Kinds \ {"external"}, Send(k),
         UNCHANGED <<phase, stopped, pending, sources, queued, bound, watched, count>>,
         running' \subseteq running, armed' \subseteq armed,
         woken' = TRUE \/ woken' = woken
  PROVE  IInv'
<1>1. /\ mail[k] < MaxMail /\ mail' = [mail EXCEPT ![k] = @ + 1]
      /\ news' \subseteq Kinds /\ missed' = missed
  BY DEF Send, IInv, Typed, HoldOK
<1>2. mail' \in [Kinds -> 0 .. MaxMail] /\ mail'["external"] = mail["external"]
  BY <1>1, MailMoves, ExternalIsKind DEF IInv, Typed
<1>3. woken' \in BOOLEAN
  BY DEF IInv, Typed, HoldOK
<1>4. Typed'
  BY <1>1, <1>2, <1>3 DEF IInv, Typed, AgentOK, SourcesOK, HoldOK
<1>5. QueueInv' /\ SourceInv'
  BY <1>2 DEF IInv, QueueInv, SourceInv, Active
<1>6. QED
  BY <1>4, <1>5 DEF IInv

LEMMA WorkIInv ==
  ASSUME Limits, IInv,
         \/ Resume
         \/ \E s \in Shells : Shell(s) \/ ShellCompletes(s)
         \/ \E a \in Alarms : SetAlarm(a) \/ AlarmFires(a)
  PROVE  IInv'
<1>1. CASE Resume
  BY <1>1, OtherMessageIInv DEF Resume, Signalled, workVars, eventVars, Kinds
<1>2. ASSUME NEW s \in Shells, Shell(s) PROVE IInv'
  BY <1>2 DEF Shell, agentVars, eventVars, holdVars, IInv, Typed, AgentOK, SourcesOK,
              HoldOK, QueueInv, SourceInv, Active
<1>3. ASSUME NEW s \in Shells, ShellCompletes(s) PROVE IInv'
  BY <1>3, OtherMessageIInv DEF ShellCompletes, Signalled, eventVars, Kinds
<1>4. ASSUME NEW a \in Alarms, SetAlarm(a) PROVE IInv'
  BY <1>4 DEF SetAlarm, agentVars, eventVars, holdVars, IInv, Typed, AgentOK, SourcesOK,
              HoldOK, QueueInv, SourceInv, Active
<1>5. ASSUME NEW a \in Alarms, AlarmFires(a) PROVE IInv'
  BY <1>5, OtherMessageIInv DEF AlarmFires, eventVars, Kinds
<1>6. QED
  BY <1>1, <1>2, <1>3, <1>4, <1>5

-----------------------------------------------------------------------------
(* External event sources *)

LEMMA RegisterIInv ==
  ASSUME Limits, IInv, NEW p \in Producers, Register(p)
  PROVE  IInv'
<1>1. /\ p \notin sources /\ ~(Active /\ stopped) /\ Cardinality(sources) < MaxSources
      /\ sources' = sources \cup {p} /\ pending' \in {pending \cup {p}, pending \ {p}}
      /\ bound' = Active
      /\ UNCHANGED <<phase, stopped, mail, running, armed, queued, watched, count, woken,
                     news, missed>>
  BY DEF Register, agentVars, holdVars
<1>2. bound' \in BOOLEAN
  BY <1>1 DEF Active
<1>3. IsFiniteSet(sources) /\ Cardinality(sources) \in Nat
  BY FS_CardinalityType DEF IInv, Typed, SourcesOK
<1>4. IsFiniteSet(sources') /\ Cardinality(sources') = Cardinality(sources) + 1
  BY <1>1, <1>3, FS_AddElement
<1>5. SourcesOK'
  BY <1>1, <1>2, <1>3, <1>4 DEF IInv, Typed, SourcesOK, Limits
<1>6. AgentOK' /\ HoldOK' /\ QueueInv'
  BY <1>1 DEF IInv, Typed, AgentOK, HoldOK, QueueInv
<1>7. SourceInv'
  BY <1>1 DEF SourceInv, Active
<1>8. QED
  BY <1>5, <1>6, <1>7 DEF IInv, Typed

LEMMA DisposeIInv ==
  ASSUME Limits, IInv, NEW p \in Producers, Dispose(p)
  PROVE  IInv'
<1>1. /\ sources' = sources \ {p} /\ pending' = pending \ {p}
      /\ bound' = (bound /\ sources' # {})
      /\ UNCHANGED <<phase, stopped, mail, running, armed, queued, watched, count, news,
                     missed>>
  BY DEF Dispose, agentVars
<1>2. bound' \in BOOLEAN
  BY <1>1
<1>3. woken' \in BOOLEAN /\ (phase = "holding" => woken')
  BY DEF Dispose, Signalled, IInv, Typed, HoldOK
<1>4. /\ IsFiniteSet(sources) /\ Cardinality(sources) \in Nat
      /\ IsFiniteSet(sources') /\ Cardinality(sources') \in Nat
      /\ Cardinality(sources') <= Cardinality(sources)
  <2>1. IsFiniteSet(sources) /\ sources' \subseteq sources
    BY <1>1 DEF IInv, Typed, SourcesOK
  <2>2. QED
    BY <2>1, FS_Subset, FS_CardinalityType
<1>5. SourcesOK'
  BY <1>1, <1>2, <1>4 DEF IInv, Typed, SourcesOK, Limits
<1>6. AgentOK' /\ HoldOK'
  BY <1>1, <1>3 DEF IInv, Typed, AgentOK, HoldOK
<1>7. QueueInv'
  BY <1>1, <1>3 DEF IInv, QueueInv
<1>8. SourceInv'
  BY <1>1 DEF IInv, SourceInv, Active
<1>9. QED
  BY <1>5, <1>6, <1>7, <1>8 DEF IInv, Typed

(* A notification counts as queued, and ends a hold *)
LEMMA NotifyIInv ==
  ASSUME Limits, IInv, NEW p \in Producers, Notify(p)
  PROVE  IInv'
<1>1. /\ ~(Active /\ stopped) /\ queued < MaxQueued /\ queued' = queued + 1
      /\ mail["external"] < MaxMail /\ mail' = [mail EXCEPT !["external"] = @ + 1]
      /\ news' \subseteq Kinds
      /\ UNCHANGED <<phase, stopped, running, armed, pending, sources, bound, watched, count,
                     missed>>
  BY ExternalIsKind DEF Notify, Send, workVars, IInv, Typed, HoldOK
<1>2. /\ mail' \in [Kinds -> 0 .. MaxMail] /\ mail["external"] \in Nat
      /\ mail'["external"] = mail["external"] + 1
  BY <1>1, MailMoves, ExternalIsKind DEF IInv, Typed
<1>3. queued \in Nat /\ queued' \in 0 .. MaxQueued
  BY <1>1 DEF IInv, Typed, SourcesOK, Limits
<1>4. woken' \in BOOLEAN /\ (phase = "holding" => woken')
  BY DEF Notify, Signalled, IInv, Typed, HoldOK
<1>5. Typed'
  BY <1>1, <1>2, <1>3, <1>4 DEF IInv, Typed, AgentOK, SourcesOK, HoldOK
<1>6. QueueInv'
  BY <1>1, <1>2, <1>3, <1>4 DEF IInv, QueueInv
<1>7. SourceInv'
  BY <1>1 DEF IInv, SourceInv, Active
<1>8. QED
  BY <1>5, <1>6, <1>7 DEF IInv

LEMMA ObserveIInv ==
  ASSUME Limits, IInv, NEW p \in Producers, Observe(p)
  PROVE  IInv'
<1>1. /\ p \in sources /\ pending' \in {pending \cup {p}, pending \ {p}}
      /\ UNCHANGED <<phase, stopped, mail, running, armed, sources, queued, bound, watched,
                     count, news, missed>>
  BY DEF Observe, agentVars, eventVars
<1>2. woken' \in BOOLEAN /\ (woken' = TRUE \/ woken' = woken)
  BY DEF Observe, Signalled, IInv, Typed, HoldOK
<1>3. Typed'
  BY <1>1, <1>2 DEF IInv, Typed, AgentOK, SourcesOK, HoldOK
<1>4. QueueInv' /\ SourceInv'
  BY <1>1, <1>2 DEF IInv, QueueInv, SourceInv, Active
<1>5. QED
  BY <1>3, <1>4 DEF IInv

LEMMA SessionStartIInv ==
  ASSUME Limits, IInv, SessionStart
  PROVE  IInv'
<1>1. /\ phase = "idle" /\ sources' = {} /\ pending' = {} /\ queued' = 0 /\ bound' = FALSE
      /\ mail' = [k \in Kinds |-> 0]
      /\ UNCHANGED <<phase, stopped, running, armed, watched, count, woken, news, missed>>
  BY DEF SessionStart, holdVars
<1>2. bound' \in BOOLEAN
  BY <1>1
<1>3. IsFiniteSet(sources') /\ Cardinality(sources') = 0
  BY <1>1, FS_EmptySet
<1>4. SourcesOK'
  BY <1>1, <1>2, <1>3 DEF SourcesOK, Limits
<1>5. AgentOK' /\ HoldOK'
  BY <1>1 DEF IInv, Typed, AgentOK, HoldOK, Limits
<1>6. QueueInv' /\ SourceInv'
  BY <1>1, ExternalIsKind DEF IInv, QueueInv, SourceInv, Active
<1>7. QED
  BY <1>4, <1>5, <1>6 DEF IInv, Typed

-----------------------------------------------------------------------------
LEMMA NextIInv ==
  ASSUME Limits, IInv, [Next]_vars
  PROVE  IInv'
<1>1. CASE UNCHANGED vars
  BY <1>1 DEF vars, agentVars, workVars, eventVars, holdVars, IInv, Typed, AgentOK,
              SourcesOK, HoldOK, QueueInv, SourceInv, Active
<1>2. CASE AgentStart
  BY <1>2, AgentStartIInv
<1>3. CASE Agent
  BY <1>3, ReadMessageIInv, AgentEndIInv, TickIInv, SettleIInv DEF Agent
<1>4. CASE Abort \/ SessionStart
  BY <1>4, AbortIInv, SessionStartIInv
<1>5. CASE \/ Resume
           \/ \E s \in Shells : Shell(s) \/ ShellCompletes(s)
           \/ \E a \in Alarms : SetAlarm(a) \/ AlarmFires(a)
  BY <1>5, WorkIInv
<1>6. ASSUME NEW p \in Producers, Register(p) \/ Dispose(p) \/ Notify(p) \/ Observe(p)
      PROVE  IInv'
  BY <1>6, RegisterIInv, DisposeIInv, NotifyIInv, ObserveIInv
<1>7. QED
  BY <1>1, <1>2, <1>3, <1>4, <1>5, <1>6 DEF Next

(* The invariant holds always *)
THEOREM Invariants == Spec => []IInv
<1> USE SessionAssumption
<1>1. Init => IInv
  BY InitIInv
<1>2. IInv /\ [Next]_vars => IInv'
  BY NextIInv
<1>3. QED
  BY <1>1, <1>2, PTL DEF Spec

(* Types; and what hasQueued counts is in the agent's queue *)
THEOREM TypeInvariant == Spec => []TypeOK
<1> USE SessionAssumption
<1>1. IInv => TypeOK
  BY DEF IInv, Typed, AgentOK, SourcesOK, HoldOK, QueueInv, TypeOK
<1>2. QED
  BY <1>1, Invariants, PTL

(* notify and the hold of agent_end: an external notification is never stranded behind a
   hold, whenever it comes between the agent's last look at its queue and the hold *)
THEOREM NothingStranded == Spec => []ExternalNotStranded
<1> USE SessionAssumption
<1>1. IInv => ExternalNotStranded
  BY DEF IInv, QueueInv, ExternalNotStranded
<1>2. QED
  BY <1>1, Invariants, PTL

(* register and its abort listener: an aborted run has no external sources, whether they
   came before the run, during it, or after others had gone *)
THEOREM AbortTakesSources == Spec => []AbortedHasNoSources
<1> USE SessionAssumption
<1>1. IInv => AbortedHasNoSources
  BY DEF IInv, SourceInv, AbortedHasNoSources
<1>2. QED
  BY <1>1, Invariants, PTL

(* Both: what the run checks of the hold *)
THEOREM HoldIsSafe == Spec => []HoldSafe
<1> USE SessionAssumption
<1>1. IInv => HoldSafe
  BY DEF IInv, QueueInv, SourceInv, HoldSafe, ExternalNotStranded, AbortedHasNoSources
<1>2. QED
  BY <1>1, Invariants, PTL

-----------------------------------------------------------------------------
(* The anti-stuck check                                                      *)

StuckTyped ==
  /\ session \in Stuck!Sessions
  /\ stuckPhase \in {"busy", "waiting", "idle"}
  /\ waiting \in BOOLEAN
  /\ timer \in 0 .. MaxSession
  /\ controller \in 0 .. MaxProbes
  /\ probes \subseteq Stuck!Probes
  /\ stuckMade \in 0 .. MaxProbes
  /\ resumed \in 0 .. MaxSession

(* A clock runs only while the agent waits, and timers and probes are of this session or
   of an earlier one *)
WaitInv ==
  /\ waiting => stuckPhase = "waiting"
  /\ timer <= session
  /\ \A p \in probes : p.of <= session

(* Only the controller's probe counts, and it is about the wait that goes on *)
ProbeInv ==
  /\ controller <= stuckMade
  /\ \A p \in probes : p.id <= stuckMade
  /\ \A p, q \in probes : p.id = q.id => p = q
  /\ \A p \in probes : ~p.aborted => p.id = controller /\ p.of = session /\ waiting
  /\ controller # 0 => \E p \in probes : p.id = controller /\ ~p.aborted

StuckInv == StuckTyped /\ WaitInv /\ ProbeInv /\ Stuck!NoStaleAnswer /\ Stuck!CheckGoesOn

(* After a cancellation no probe counts; otherwise the probes are the same *)
LEMMA CancelAbortsAll ==
  ASSUME StuckTyped, ProbeInv
  PROVE  /\ Stuck!Cancelled \subseteq Stuck!Probes
         /\ \A p \in Stuck!Cancelled : p.aborted
         /\ \A p \in Stuck!Cancelled : \E q \in probes : p.id = q.id /\ p.of = q.of
<1>1. ASSUME NEW p \in Stuck!Cancelled
      PROVE  p \in Stuck!Probes /\ p.aborted /\ \E q \in probes : p.id = q.id /\ p.of = q.of
  <2>1. PICK q \in probes :
          p = IF q.id = controller THEN [q EXCEPT !.aborted = TRUE] ELSE q
    BY <1>1 DEF Stuck!Cancelled
  <2>2. q \in Stuck!Probes
    BY DEF StuckTyped
  <2>3. CASE q.id = controller
    <3>1. p = [id |-> q.id, of |-> q.of, aborted |-> TRUE]
      BY <2>1, <2>2, <2>3 DEF Stuck!Probes
    <3>2. QED
      BY <2>2, <3>1 DEF Stuck!Probes
  <2>4. CASE q.id # controller
    BY <2>1, <2>2, <2>4 DEF ProbeInv, Stuck!Probes
  <2>5. QED
    BY <2>3, <2>4
<1>2. QED
  BY <1>1

(* A cancellation keeps one probe for each id *)
LEMMA CancelKeepsIds ==
  ASSUME StuckTyped, ProbeInv, NEW p \in Stuck!Cancelled, NEW q \in Stuck!Cancelled, p.id = q.id
  PROVE  p = q
<1>1. PICK r \in probes :
        p = IF r.id = controller THEN [r EXCEPT !.aborted = TRUE] ELSE r
  BY DEF Stuck!Cancelled
<1>2. PICK s \in probes :
        q = IF s.id = controller THEN [s EXCEPT !.aborted = TRUE] ELSE s
  BY DEF Stuck!Cancelled
<1>3. r \in Stuck!Probes /\ s \in Stuck!Probes
  BY DEF StuckTyped
<1>4. r.id = p.id /\ s.id = q.id
  BY <1>1, <1>2, <1>3 DEF Stuck!Probes
<1>5. QED
  BY <1>1, <1>2, <1>4 DEF ProbeInv

LEMMA StuckInitInv ==
  ASSUME MaxSession \in Nat \ {0}, MaxProbes \in Nat
  PROVE  Stuck!Init => StuckInv
<1> SUFFICES ASSUME Stuck!Init PROVE StuckInv
  OBVIOUS
<1>1. waiting \in BOOLEAN
  BY DEF Stuck!Init
<1>2. StuckTyped
  BY <1>1 DEF Stuck!Init, StuckTyped, Stuck!Sessions
<1>3. WaitInv /\ ProbeInv
  BY DEF Stuck!Init, WaitInv, ProbeInv
<1>4. Stuck!NoStaleAnswer /\ Stuck!CheckGoesOn
  BY DEF Stuck!Init, Stuck!NoStaleAnswer, Stuck!CheckGoesOn
<1>5. QED
  BY <1>2, <1>3, <1>4 DEF StuckInv

(* What every reset of the wait leaves behind satisfies the invariant *)
LEMMA StuckResetInv ==
  ASSUME MaxSession \in Nat \ {0}, MaxProbes \in Nat, StuckInv, Stuck!Reset,
         stuckMade' = stuckMade,
         session' \in Stuck!Sessions, session' >= session,
         stuckPhase' \in {"busy", "waiting", "idle"},
         resumed' \in {0, session'}, resumed' # 0 => stuckPhase' = "waiting"
  PROVE  StuckInv'
<1>1. /\ waiting' = FALSE /\ timer' = 0 /\ controller' = 0 /\ probes' = Stuck!Cancelled
  BY DEF Stuck!Reset
<1>2. /\ probes' \subseteq Stuck!Probes
      /\ \A p \in probes' : p.aborted
      /\ \A p \in probes' : \E q \in probes : p.id = q.id /\ p.of = q.of
  BY <1>1, CancelAbortsAll DEF StuckInv
<1>3. \A p, q \in probes' : p.id = q.id => p = q
  BY <1>1, CancelKeepsIds DEF StuckInv
<1>4. StuckTyped'
  <2>1. waiting' \in BOOLEAN
    BY <1>1
  <2>2. resumed' \in 0 .. MaxSession
    BY DEF Stuck!Sessions
  <2>3. timer' \in 0 .. MaxSession /\ controller' \in 0 .. MaxProbes
    BY <1>1
  <2>4. QED
    BY <1>2, <2>1, <2>2, <2>3 DEF StuckInv, StuckTyped
<1>5. WaitInv'
  <2>1. \A p \in probes' : p.of <= session'
    <3>1. ASSUME NEW p \in probes' PROVE p.of <= session'
      <4>1. PICK q \in probes : p.id = q.id /\ p.of = q.of
        BY <1>2, <3>1
      <4>2. q.of <= session /\ q.of \in Int /\ session \in Int /\ session' \in Int
        BY DEF StuckInv, WaitInv, StuckTyped, Stuck!Probes, Stuck!Sessions
      <4>3. QED
        BY <4>1, <4>2
    <3>2. QED
      BY <3>1
  <2>2. QED
    BY <1>1, <2>1 DEF WaitInv, Stuck!Sessions
<1>6. ProbeInv'
  <2>1. \A p \in probes' : p.id <= stuckMade'
    BY <1>2 DEF StuckInv, ProbeInv
  <2>2. QED
    BY <1>1, <1>2, <1>3, <2>1 DEF StuckInv, StuckTyped, ProbeInv
<1>7. Stuck!NoStaleAnswer' /\ Stuck!CheckGoesOn'
  BY <1>1 DEF Stuck!NoStaleAnswer, Stuck!CheckGoesOn
<1>8. QED
  BY <1>4, <1>5, <1>6, <1>7 DEF StuckInv

(* A step that leaves the probes and their controller alone *)
LEMMA ProbesStay ==
  ASSUME MaxSession \in Nat \ {0}, StuckInv, UNCHANGED <<session, controller, probes, stuckMade>>,
         stuckPhase' \in {"busy", "waiting", "idle"}, waiting' \in BOOLEAN,
         timer' \in {0, timer, session}, resumed' = 0,
         waiting => waiting', waiting' => stuckPhase' = "waiting",
         waiting' /\ session = 1 => timer' # 0 \/ \E p \in probes : ~p.aborted
  PROVE  StuckInv'
<1>1. StuckTyped'
  <2>1. timer' \in 0 .. MaxSession /\ resumed' \in 0 .. MaxSession
    BY DEF StuckInv, StuckTyped, Stuck!Sessions
  <2>2. QED
    BY <2>1 DEF StuckInv, StuckTyped
<1>2. WaitInv'
  BY DEF StuckInv, StuckTyped, WaitInv, Stuck!Sessions
<1>3. ProbeInv'
  BY DEF StuckInv, StuckTyped, ProbeInv
<1>4. Stuck!NoStaleAnswer' /\ Stuck!CheckGoesOn'
  BY DEF Stuck!NoStaleAnswer, Stuck!CheckGoesOn
<1>5. QED
  BY <1>1, <1>2, <1>3, <1>4 DEF StuckInv

(* An answered probe is gone; one that still counted was the only one *)
LEMMA AnsweredProbeGoes ==
  ASSUME MaxSession \in Nat \ {0}, MaxProbes \in Nat, StuckInv,
         NEW p \in probes, Stuck!Without(p),
         UNCHANGED <<session, stuckPhase, stuckMade>>,
         \/ ~p.aborted /\ waiting' = FALSE /\ timer' = timer /\ resumed' = session
         \/ /\ waiting' = waiting /\ resumed' = 0
            /\ timer' = IF waiting THEN p.of ELSE timer
  PROVE  StuckInv'
<1>1. /\ probes' = probes \ {p} /\ controller' = IF controller = p.id THEN 0 ELSE controller
      /\ p \in Stuck!Probes /\ p.id # 0
  BY DEF Stuck!Without, StuckInv, StuckTyped, Stuck!Probes
<1>2. StuckTyped'
  <2>1. waiting' \in BOOLEAN
    BY DEF StuckInv, StuckTyped
  <2>2. p.of \in 0 .. MaxSession /\ session \in 0 .. MaxSession
    BY <1>1 DEF StuckInv, StuckTyped, Stuck!Probes, Stuck!Sessions
  <2>3. timer' \in 0 .. MaxSession /\ resumed' \in 0 .. MaxSession
    BY <2>2 DEF StuckInv, StuckTyped
  <2>4. controller' \in 0 .. MaxProbes /\ probes' \subseteq Stuck!Probes
    BY <1>1 DEF StuckInv, StuckTyped
  <2>5. QED
    BY <2>1, <2>3, <2>4 DEF StuckInv, StuckTyped
<1>3. WaitInv'
  <2>1. p.of <= session /\ timer <= session
    BY DEF StuckInv, WaitInv
  <2>2. \A q \in probes' : q.of <= session'
    BY <1>1 DEF StuckInv, WaitInv
  <2>3. QED
    BY <2>1, <2>2 DEF StuckInv, WaitInv, StuckTyped
<1>4. ProbeInv'
  <2>1. controller' <= stuckMade'
    BY <1>1 DEF StuckInv, StuckTyped, ProbeInv
  <2>2. \A q \in probes' : q.id <= stuckMade'
    BY <1>1 DEF StuckInv, ProbeInv
  <2>3. \A q, r \in probes' : q.id = r.id => q = r
    BY <1>1 DEF StuckInv, ProbeInv
  <2>4. \A q \in probes' : ~q.aborted => q.id = controller' /\ q.of = session' /\ waiting'
    BY <1>1 DEF StuckInv, ProbeInv
  <2>5. controller' # 0 => \E q \in probes' : q.id = controller' /\ ~q.aborted
    BY <1>1 DEF StuckInv, ProbeInv
  <2>6. QED
    BY <2>1, <2>2, <2>3, <2>4, <2>5 DEF ProbeInv
<1>5. Stuck!NoStaleAnswer'
  BY DEF StuckInv, Stuck!NoStaleAnswer, ProbeInv, WaitInv
<1>6. Stuck!CheckGoesOn'
  <2>1. CASE waiting' = FALSE
    BY <2>1 DEF Stuck!CheckGoesOn
  <2>2. CASE waiting' = waiting /\ timer' = IF waiting THEN p.of ELSE timer
    <3>1. p.of # 0
      BY <1>1 DEF Stuck!Probes, Stuck!Sessions
    <3>2. waiting' => timer' # 0
      BY <2>2, <3>1
    <3>3. QED
      BY <3>2 DEF Stuck!CheckGoesOn
  <2>3. QED
    BY <2>1, <2>2
<1>7. QED
  BY <1>2, <1>3, <1>4, <1>5, <1>6 DEF StuckInv

LEMMA StuckNextInv ==
  ASSUME MaxSession \in Nat \ {0}, MaxProbes \in Nat, StuckInv, [Stuck!Next]_(Stuck!vars)
  PROVE  StuckInv'
<1> session \in Int /\ session \in Stuck!Sessions
  BY DEF StuckInv, StuckTyped, Stuck!Sessions
<1>1. CASE Stuck!AgentStart
  <2>1. /\ Stuck!Reset /\ stuckMade' = stuckMade /\ session' = session
        /\ stuckPhase' = "busy" /\ resumed' = 0
    BY <1>1 DEF Stuck!AgentStart
  <2>2. QED
    BY <2>1, StuckResetInv
<1>2. CASE Stuck!AgentEndWaits
  <2>1. /\ UNCHANGED <<session, controller, probes, stuckMade>>
        /\ stuckPhase' = "waiting" /\ waiting' = TRUE /\ timer' = session /\ resumed' = 0
    BY <1>2 DEF Stuck!AgentEndWaits
  <2>2. timer' # 0
    BY <2>1 DEF Stuck!Sessions
  <2>3. QED
    BY <2>1, <2>2, ProbesStay
<1>3. CASE Stuck!AgentEnd
  <2>1. /\ UNCHANGED <<session, waiting, timer, controller, probes, stuckMade>>
        /\ stuckPhase' = "idle" /\ resumed' = 0 /\ ~waiting /\ waiting \in BOOLEAN
    BY <1>3 DEF Stuck!AgentEnd, StuckInv, WaitInv, StuckTyped
  <2>2. QED
    BY <2>1, ProbesStay
<1>4. CASE Stuck!WaitEnds
  <2>1. /\ Stuck!Reset /\ stuckMade' = stuckMade /\ session' = session
        /\ stuckPhase' = "idle" /\ resumed' = 0
    BY <1>4 DEF Stuck!WaitEnds
  <2>2. QED
    BY <2>1, StuckResetInv
<1>5. CASE Stuck!SessionStart
  <2>1. Stuck!Reset /\ stuckMade' = stuckMade /\ session' = session + 1 /\ session < MaxSession
        /\ stuckPhase' = "idle" /\ resumed' = 0
    BY <1>5 DEF Stuck!SessionStart
  <2>2. session' \in Stuck!Sessions /\ session' >= session
    BY <2>1 DEF Stuck!Sessions
  <2>3. QED
    BY <2>1, <2>2, StuckResetInv
<1>6. CASE Stuck!TickOfPast
  <2>1. /\ UNCHANGED <<session, stuckPhase, waiting, controller, probes, stuckMade>>
        /\ timer' = 0 /\ resumed' = 0 /\ timer \in Stuck!Sessions \ {session}
    BY <1>6 DEF Stuck!TickOfPast
  <2>2. session # 1
    BY <2>1 DEF StuckInv, WaitInv, Stuck!Sessions
  <2>3. QED
    BY <2>1, <2>2, ProbesStay DEF StuckInv, StuckTyped, WaitInv
<1>7. CASE Stuck!TickIdle
  <2>1. CASE ~waiting /\ timer' = 0 /\ UNCHANGED <<waiting, controller, probes>>
    BY <1>7, <2>1, ProbesStay DEF Stuck!TickIdle, StuckInv, StuckTyped, WaitInv
  <2>2. CASE waiting /\ Stuck!Reset
    BY <1>7, <2>2, StuckResetInv DEF Stuck!TickIdle, StuckInv, StuckTyped
  <2>3. QED
    BY <1>7, <2>1, <2>2 DEF Stuck!TickIdle
<1>8. CASE Stuck!TickAgain
  <2>1. /\ UNCHANGED <<session, stuckPhase, waiting, timer, controller, probes, stuckMade>>
        /\ resumed' = 0 /\ timer = session /\ waiting
    BY <1>8 DEF Stuck!TickAgain
  <2>2. timer' # 0
    BY <2>1 DEF Stuck!Sessions
  <2>3. QED
    BY <2>1, <2>2, ProbesStay DEF StuckInv, StuckTyped, WaitInv
<1>9. CASE Stuck!TickGoal
  <2>1. /\ Stuck!Reset /\ waiting /\ resumed' = session
        /\ UNCHANGED <<session, stuckPhase, stuckMade>>
    BY <1>9 DEF Stuck!TickGoal
  <2>2. stuckPhase' = "waiting"
    BY <2>1 DEF StuckInv, WaitInv
  <2>3. QED
    BY <2>1, <2>2, StuckResetInv
<1>10. CASE Stuck!TickProbe
  <2> DEFINE n == [id |-> stuckMade', of |-> session, aborted |-> FALSE]
  <2>1. /\ waiting /\ controller = 0 /\ stuckMade' = stuckMade + 1 /\ stuckMade < MaxProbes
        /\ controller' = stuckMade' /\ timer' = 0 /\ resumed' = 0
        /\ UNCHANGED <<session, stuckPhase, waiting>>
        /\ probes' = probes \cup {n}
    BY <1>10 DEF Stuck!TickProbe
  <2>2. n \in Stuck!Probes /\ stuckMade \in Int /\ stuckMade' \in 1 .. MaxProbes
    BY <2>1 DEF StuckInv, StuckTyped, Stuck!Probes
  <2>3. \A p \in probes : p.aborted /\ p.id <= stuckMade /\ p.id \in Int
    BY <2>1 DEF StuckInv, StuckTyped, ProbeInv, Stuck!Probes
  <2>4. StuckTyped'
    <3>1. waiting' \in BOOLEAN
      BY <2>1 DEF StuckInv, StuckTyped
    <3>2. /\ timer' \in 0 .. MaxSession /\ resumed' \in 0 .. MaxSession
          /\ controller' \in 0 .. MaxProbes /\ stuckMade' \in 0 .. MaxProbes
      BY <2>1, <2>2
    <3>3. probes' \subseteq Stuck!Probes
      BY <2>1, <2>2 DEF StuckInv, StuckTyped
    <3>4. QED
      BY <2>1, <3>1, <3>2, <3>3 DEF StuckInv, StuckTyped
  <2>5. WaitInv'
    BY <2>1, <2>2 DEF StuckInv, StuckTyped, WaitInv, Stuck!Sessions
  <2>6. ProbeInv'
    <3>1. \A p \in probes' : p.id <= stuckMade'
      BY <2>1, <2>2, <2>3
    <3>2. \A p, q \in probes' : p.id = q.id => p = q
      <4>1. n.id = stuckMade' /\ n.id \notin {p.id : p \in probes}
        BY <2>1, <2>2, <2>3
      <4>2. QED
        BY <2>1, <4>1, ZenonT(30) DEF StuckInv, ProbeInv
    <3>3. \A p \in probes' : ~p.aborted => p.id = controller' /\ p.of = session' /\ waiting'
      BY <2>1, <2>3
    <3>4. \E p \in probes' : p.id = controller' /\ ~p.aborted
      <4>1. n \in probes' /\ n.id = controller' /\ n.aborted = FALSE
        BY <2>1
      <4>2. QED
        BY <4>1
    <3>5. QED
      BY <2>1, <2>2, <3>1, <3>2, <3>3, <3>4 DEF ProbeInv
  <2>7. Stuck!NoStaleAnswer'
    BY <2>1 DEF Stuck!NoStaleAnswer
  <2>8. Stuck!CheckGoesOn'
    <3>1. n \in probes' /\ n.aborted = FALSE
      BY <2>1
    <3>2. QED
      BY <3>1 DEF Stuck!CheckGoesOn
  <2>9. QED
    BY <2>4, <2>5, <2>6, <2>7, <2>8 DEF StuckInv
<1>11. ASSUME NEW p \in probes, Stuck!ProbeWaits(p)
       PROVE  StuckInv'
  BY <1>11, AnsweredProbeGoes DEF Stuck!ProbeWaits
<1>12. ASSUME NEW p \in probes, Stuck!ProbeResumes(p)
       PROVE  StuckInv'
  <2>1. p.of = session
    BY <1>12 DEF Stuck!ProbeResumes, StuckInv, ProbeInv
  <2>2. QED
    BY <1>12, <2>1, AnsweredProbeGoes DEF Stuck!ProbeResumes
<1>13. CASE UNCHANGED Stuck!vars
  BY <1>13 DEF Stuck!vars, StuckInv, StuckTyped, WaitInv, ProbeInv, Stuck!NoStaleAnswer,
     Stuck!CheckGoesOn
<1>14. QED
  BY <1>1, <1>2, <1>3, <1>4, <1>5, <1>6, <1>7, <1>8, <1>9, <1>10, <1>11, <1>12, <1>13
  DEF Stuck!Next

(* The invariant holds always *)
THEOREM StuckInvariants == Stuck!Spec => []StuckInv
<1> USE SessionAssumption
<1>1. Stuck!Init => StuckInv
  BY StuckInitInv
<1>2. StuckInv /\ [Stuck!Next]_(Stuck!vars) => StuckInv'
  BY StuckNextInv
<1>3. QED
  BY <1>1, <1>2, PTL DEF Stuck!Spec

(* Types, and the controller is that of the one probe whose answer still counts: the one
   that a cancellation must reach *)
THEOREM StuckTypes == Stuck!Spec => []Stuck!TypeOK
<1> USE SessionAssumption
<1>1. StuckInv => Stuck!TypeOK
  <2> SUFFICES ASSUME StuckInv PROVE Stuck!TypeOK
    OBVIOUS
  <2>1. {p.id : p \in {q \in probes : ~q.aborted}} = {controller} \ {0}
    BY DEF StuckInv, StuckTyped, ProbeInv, Stuck!Probes
  <2>2. QED
    BY <2>1 DEF StuckInv, StuckTyped, Stuck!TypeOK
<1>2. Stuck!Spec => []StuckInv
  BY StuckInvariants
<1>3. QED
  BY <1>1, <1>2, PTL

(* tickAntiStuck and its probe: an answer that comes after the wait it is about, after
   another turn or another session began, wakes nobody *)
THEOREM AnswersAreNotStale == Stuck!Spec => []Stuck!NoStaleAnswer
<1> USE SessionAssumption
<1>1. StuckInv => Stuck!NoStaleAnswer
  BY DEF StuckInv
<1>2. Stuck!Spec => []StuckInv
  BY StuckInvariants
<1>3. QED
  BY <1>1, <1>2, PTL

(* A wait of the first session of a process goes on being checked, whatever turns,
   cancellations and answers came before *)
THEOREM ChecksGoOn == Stuck!Spec => []Stuck!CheckGoesOn
<1> USE SessionAssumption
<1>1. StuckInv => Stuck!CheckGoesOn
  BY DEF StuckInv
<1>2. Stuck!Spec => []StuckInv
  BY StuckInvariants
<1>3. QED
  BY <1>1, <1>2, PTL

-----------------------------------------------------------------------------
(* The goal loop                                                             *)

Question == [revision : Nat, goal : 1 .. MaxCommands, current : BOOLEAN]

(* A goal that is set has a number, and one that runs has budget left to count *)
Sound(s) ==
  /\ s \in Goal!States
  /\ s.active => s.goal # 0
  /\ Goal!Active(s) => s.turns <= MaxTurns

(* The session's file has the state in force, unless an entry could not be appended *)
Kept ==
  /\ unkept \in Nat
  /\ Sound(saved) /\ (saved = state \/ unkept > 0)
  /\ \A s \in history : Sound(s)

GoalTyped ==
  /\ Sound(state) /\ Kept
  /\ revision \in Nat
  /\ late \in BOOLEAN
  /\ goalPhase \in {"idle", "busy"}
  /\ goalMail \in BOOLEAN
  /\ asked \subseteq Question
  /\ commands \in 0 .. MaxCommands

(* What the loop gave is counted in the goal's own turns *)
BudgetInv ==
  /\ given \in Nat /\ given <= MaxTurns
  /\ state.active => given <= state.turns

(* Revisions tell goals apart, and one question at most counts, while the agent is idle *)
AskedInv ==
  /\ \A e \in asked : e.revision <= revision
  /\ \A e \in asked : e.revision = revision => e.goal = state.goal
  /\ \A e, f \in asked : e.current /\ f.current => e = f
  /\ goalPhase = "busy" => \A e \in asked : ~e.current
  /\ probe = -1 \/ \E e \in asked : e.current /\ e.revision = probe

GoalInv == GoalTyped /\ BudgetInv /\ AskedInv

(* What a cancellation leaves: the same questions, none of which counts *)
LEMMA CancelledCount ==
  ASSUME GoalTyped
  PROVE  /\ Goal!Cancelled \subseteq Question
         /\ \A e \in Goal!Cancelled : ~e.current
         /\ \A e \in Goal!Cancelled : \E f \in asked : e.revision = f.revision /\ e.goal = f.goal
<1>1. ASSUME NEW e \in Goal!Cancelled
      PROVE  e \in Question /\ ~e.current
               /\ \E f \in asked : e.revision = f.revision /\ e.goal = f.goal
  <2>1. PICK f \in asked : e = [f EXCEPT !.current = FALSE]
    BY <1>1 DEF Goal!Cancelled
  <2>2. f \in Question
    BY DEF GoalTyped
  <2>3. e = [revision |-> f.revision, goal |-> f.goal, current |-> FALSE]
    BY <2>1, <2>2 DEF Question
  <2>4. QED
    BY <2>2, <2>3 DEF Question
<1>2. QED
  BY <1>1

(* The states that the loop and its commands make *)
LEMMA PausedState ==
  ASSUME MaxTurns \in Nat, MaxCommands \in Nat, NEW s \in Goal!States
  PROVE  /\ [s EXCEPT !.paused = TRUE] \in Goal!States
         /\ [s EXCEPT !.paused = TRUE].paused
         /\ [s EXCEPT !.paused = TRUE].goal = s.goal
         /\ [s EXCEPT !.paused = TRUE].turns = s.turns
         /\ [s EXCEPT !.paused = TRUE].active <=> s.active
BY DEF Goal!States

LEMMA ResumedState ==
  ASSUME MaxTurns \in Nat, MaxCommands \in Nat, NEW s \in Goal!States
  PROVE  /\ [s EXCEPT !.paused = FALSE, !.turns = 0] \in Goal!States
         /\ [s EXCEPT !.paused = FALSE, !.turns = 0].goal = s.goal
         /\ [s EXCEPT !.paused = FALSE, !.turns = 0].turns = 0
         /\ [s EXCEPT !.paused = FALSE, !.turns = 0].active <=> s.active
<1> DEFINE r == [s EXCEPT !.paused = FALSE, !.turns = 0]
<1>1. r.goal \in 0 .. MaxCommands /\ r.goal = s.goal
  BY DEF Goal!States
<1>2. r.turns \in 0 .. MaxTurns + 1 /\ r.turns = 0
  BY DEF Goal!States
<1>3. r.active \in BOOLEAN
  BY DEF Goal!States
<1>4. r.active <=> s.active
  BY DEF Goal!States
<1>5. r.paused \in BOOLEAN
  BY DEF Goal!States
<1>6. r \in Goal!States
  BY <1>1, <1>2, <1>3, <1>5 DEF Goal!States
<1>7. QED
  BY <1>1, <1>2, <1>4, <1>6

LEMMA CountedState ==
  ASSUME MaxTurns \in Nat, MaxCommands \in Nat, NEW s \in Goal!States, s.turns <= MaxTurns
  PROVE  /\ [s EXCEPT !.turns = s.turns + 1] \in Goal!States
         /\ [s EXCEPT !.turns = s.turns + 1].goal = s.goal
         /\ [s EXCEPT !.turns = s.turns + 1].turns = s.turns + 1
         /\ [s EXCEPT !.turns = s.turns + 1].active <=> s.active
BY DEF Goal!States

(* The part of the invariant that a persisted state disturbs *)
LEMMA PersistedState ==
  ASSUME GoalTyped, NEW s, Sound(s), Goal!Persist(s)
  PROVE  state' = s /\ Sound(state') /\ Kept'
BY DEF GoalTyped, Kept, Goal!Persist

(* Another run, or a pause at the end of the budget *)
LEMMA ContinueCounts ==
  ASSUME MaxTurns \in Nat, MaxCommands \in Nat, GoalTyped, BudgetInv, Goal!isGoalActive,
         Goal!Continue
  PROVE  /\ Sound(state') /\ Kept'
         /\ state'.goal = state.goal
         /\ goalMail' = goalMail \/ goalMail' = TRUE
         /\ BudgetInv'
<1> DEFINE next == [state EXCEPT !.turns = @ + 1]
           end == [next EXCEPT !.paused = TRUE]
<1>1. /\ state \in Goal!States /\ state.active
      /\ state.turns <= MaxTurns /\ state.goal # 0 /\ state.turns \in Int
  BY DEF GoalTyped, Sound, Goal!isGoalActive, Goal!Active, Goal!States
<1>2. /\ next \in Goal!States /\ next.goal = state.goal
      /\ next.turns = state.turns + 1 /\ next.active
  BY <1>1, CountedState
<1>3. /\ end \in Goal!States /\ end.paused /\ end.goal = state.goal
      /\ end.turns = state.turns + 1 /\ end.active
  BY <1>2, PausedState
<1> HIDE DEF next, end
<1>4. given \in Nat /\ given <= MaxTurns /\ given <= state.turns
  BY <1>1 DEF BudgetInv
<1>5. CASE next.turns > MaxTurns \/ late
  <2>1. Goal!Persist(end) /\ goalMail' = goalMail /\ given' = given
    BY <1>5 DEF Goal!Continue, next, end
  <2>2. state' = end
    BY <2>1 DEF Goal!Persist
  <2>3. Sound(end)
    BY <1>1, <1>3 DEF Sound, Goal!Active
  <2>4. given' <= end.turns /\ given' \in Nat /\ given' <= MaxTurns
    BY <1>1, <1>3, <1>4, <2>1
  <2>5. BudgetInv'
    BY <2>2, <2>4 DEF BudgetInv
  <2>6. QED
    BY <1>3, <2>1, <2>2, <2>3, <2>5, PersistedState
<1>6. CASE ~(next.turns > MaxTurns \/ late)
  <2>1. Goal!Persist(next) /\ goalMail' = TRUE /\ given' = given + 1
    BY <1>6 DEF Goal!Continue, next, end
  <2>2. state' = next
    BY <2>1 DEF Goal!Persist
  <2>3. next.turns <= MaxTurns
    BY <1>1, <1>2, <1>6
  <2>4. Sound(next)
    BY <1>1, <1>2, <2>3 DEF Sound
  <2>5. given' <= next.turns /\ given' \in Nat /\ given' <= MaxTurns
    BY <1>1, <1>2, <1>4, <2>1, <2>3
  <2>6. BudgetInv'
    BY <2>2, <2>5 DEF BudgetInv
  <2>7. QED
    BY <1>2, <2>1, <2>2, <2>4, <2>6, PersistedState
<1>7. QED
  BY <1>5, <1>6

(* Steps that make a new revision leave the questions with the old ones *)
LEMMA NewRevision ==
  ASSUME GoalTyped, AskedInv, revision' = revision + 1, UNCHANGED <<goalPhase, probe, asked>>
  PROVE  AskedInv'
<1>1. \A e \in asked : e.revision < revision' /\ e.revision \in Int /\ revision' \in Int
  BY DEF GoalTyped, AskedInv, Question
<1>2. QED
  BY <1>1 DEF AskedInv

LEMMA SameRevision ==
  ASSUME AskedInv, state'.goal = state.goal, UNCHANGED <<revision, goalPhase, probe, asked>>
  PROVE  AskedInv'
BY DEF AskedInv

(* An answered question is gone, and with it the controller that was its own *)
LEMMA AnsweredQuestion ==
  ASSUME GoalTyped, AskedInv, NEW e \in asked, Goal!Answered(e), goalPhase' = goalPhase,
         revision' = revision + 1 \/ (revision' = revision /\ state'.goal = state.goal)
  PROVE  AskedInv'
<1>1. asked' = asked \ {e} /\ probe' = IF e.current THEN -1 ELSE probe
  BY DEF Goal!Answered
<1>2. \A f \in asked : f.revision \in Int /\ revision \in Int
  BY DEF GoalTyped, Question
<1>3. \A f \in asked' : f.revision <= revision'
  BY <1>1, <1>2 DEF AskedInv
<1>4. \A f \in asked' : f.revision = revision' => f.goal = state'.goal
  BY <1>1, <1>2 DEF AskedInv
<1>5. \A f, g \in asked' : f.current /\ g.current => f = g
  BY <1>1 DEF AskedInv
<1>6. goalPhase' = "busy" => \A f \in asked' : ~f.current
  BY <1>1 DEF AskedInv
<1>7. probe' = -1 \/ \E f \in asked' : f.current /\ f.revision = probe'
  BY <1>1 DEF AskedInv
<1>8. QED
  BY <1>3, <1>4, <1>5, <1>6, <1>7 DEF AskedInv

(* After a cancellation no question counts *)
LEMMA CancelledQuestions ==
  ASSUME GoalTyped, AskedInv, Goal!Cancel,
         revision' = revision + 1 \/ (revision' = revision /\ state'.goal = state.goal)
  PROVE  AskedInv' /\ asked' \subseteq Question
<1>1. /\ asked' = Goal!Cancelled /\ probe' = -1 /\ asked' \subseteq Question
      /\ \A e \in asked' : ~e.current
      /\ \A e \in asked' : \E f \in asked : e.revision = f.revision /\ e.goal = f.goal
  BY CancelledCount DEF Goal!Cancel
<1>2. ASSUME NEW e \in asked'
      PROVE  e.revision <= revision' /\ (e.revision = revision' => e.goal = state'.goal)
  <2>1. PICK f \in asked : e.revision = f.revision /\ e.goal = f.goal
    BY <1>1, <1>2
  <2>2. f.revision \in Int /\ revision \in Int /\ f.revision <= revision
    BY DEF GoalTyped, Question, AskedInv
  <2>3. QED
    BY <2>1, <2>2 DEF AskedInv
<1>3. QED
  BY <1>1, <1>2 DEF AskedInv

LEMMA GoalInitInv ==
  ASSUME MaxTurns \in Nat, MaxCommands \in Nat
  PROVE  Goal!Init => GoalInv
<1> SUFFICES ASSUME Goal!Init PROVE GoalInv
  OBVIOUS
<1>1. Sound(Goal!NoGoal) /\ ~Goal!NoGoal.active
  BY DEF Sound, Goal!NoGoal, Goal!States, Goal!Active
<1>2. late \in BOOLEAN /\ goalMail \in BOOLEAN
  BY DEF Goal!Init
<1>3. GoalTyped
  BY <1>1, <1>2 DEF Goal!Init, GoalTyped, Kept
<1>4. BudgetInv /\ AskedInv
  BY <1>1 DEF Goal!Init, BudgetInv, AskedInv
<1>5. QED
  BY <1>3, <1>4 DEF GoalInv

LEMMA GoalUserInv ==
  ASSUME MaxTurns \in Nat, MaxCommands \in Nat, GoalInv, Goal!User
  PROVE  GoalInv'
<1>1. /\ GoalTyped /\ BudgetInv /\ AskedInv /\ state \in Goal!States
      /\ commands \in Int /\ revision \in Nat
  BY DEF GoalInv, GoalTyped, Kept, Sound
<1>2. Sound(Goal!NoGoal) /\ ~Goal!NoGoal.active
  BY DEF Sound, Goal!NoGoal, Goal!States, Goal!Active
<1>3. CASE Goal!SetGoal
  <2> DEFINE new == [goal |-> commands', active |-> TRUE, paused |-> FALSE, turns |-> 0]
  <2>1. /\ commands' = commands + 1 /\ commands < MaxCommands /\ revision' = revision + 1
        /\ Goal!Persist(new) /\ late' = FALSE /\ given' = 0 /\ goalMail' = TRUE
        /\ UNCHANGED <<goalPhase, probe, asked>>
    BY <1>3 DEF Goal!SetGoal, Goal!Commands
  <2>2. commands' \in 1 .. MaxCommands
    BY <1>1, <2>1 DEF GoalTyped, Kept
  <2>3. Sound(new) /\ new.turns = 0
    BY <2>2 DEF Sound, Goal!States, Goal!Active
  <2>4. late' \in BOOLEAN /\ goalMail' \in BOOLEAN
    BY <2>1
  <2>5. GoalTyped'
    BY <1>1, <2>1, <2>2, <2>3, <2>4, PersistedState DEF GoalTyped, Kept
  <2>6. BudgetInv'
    BY <2>1, <2>3 DEF Goal!Persist, BudgetInv
  <2>7. QED
    BY <1>1, <2>1, <2>5, <2>6, NewRevision DEF GoalInv
<1>4. CASE Goal!ClearGoal
  <2>1. /\ commands' = commands + 1 /\ commands < MaxCommands /\ revision' = revision + 1
        /\ Goal!Persist(Goal!NoGoal) /\ late' = FALSE
        /\ UNCHANGED <<goalPhase, goalMail, probe, asked, given>>
    BY <1>4 DEF Goal!ClearGoal, Goal!Commands
  <2>2. late' \in BOOLEAN
    BY <2>1
  <2>3. GoalTyped'
    BY <1>1, <1>2, <2>1, <2>2, PersistedState DEF GoalTyped, Kept
  <2>4. BudgetInv'
    BY <1>1, <1>2, <2>1 DEF Goal!Persist, BudgetInv
  <2>5. QED
    BY <1>1, <2>1, <2>3, <2>4, NewRevision DEF GoalInv
<1>5. CASE Goal!PauseGoal
  <2> DEFINE new == [state EXCEPT !.paused = TRUE]
  <2>1. /\ commands' = commands + 1 /\ commands < MaxCommands /\ revision' = revision + 1
        /\ Goal!Persist(new) /\ UNCHANGED <<late, goalPhase, goalMail, probe, asked, given>>
    BY <1>5 DEF Goal!PauseGoal, Goal!Commands
  <2>2. /\ new \in Goal!States /\ new.paused /\ new.goal = state.goal
        /\ new.turns = state.turns /\ (new.active <=> state.active)
    BY <1>1, PausedState
  <2> HIDE DEF new
  <2>3. Sound(new)
    BY <1>1, <2>2 DEF GoalTyped, Kept, Sound, Goal!Active
  <2>4. GoalTyped'
    BY <1>1, <2>1, <2>3, PersistedState DEF GoalTyped, Kept
  <2>5. BudgetInv'
    BY <1>1, <2>1, <2>2 DEF Goal!Persist, BudgetInv
  <2>6. QED
    BY <1>1, <2>1, <2>4, <2>5, NewRevision DEF GoalInv
<1>6. CASE Goal!ResumeGoal
  <2> DEFINE new == [state EXCEPT !.paused = FALSE, !.turns = 0]
  <2>1. /\ commands' = commands + 1 /\ commands < MaxCommands /\ revision' = revision + 1
        /\ Goal!Persist(new) /\ late' = FALSE /\ given' = 0
        /\ goalMail' = (goalMail \/ goalPhase = "idle") /\ UNCHANGED <<goalPhase, probe, asked>>
    BY <1>6 DEF Goal!ResumeGoal, Goal!Commands
  <2>2. /\ new \in Goal!States /\ new.goal = state.goal
        /\ new.turns = 0 /\ (new.active <=> state.active)
    BY <1>1, ResumedState
  <2> HIDE DEF new
  <2>3. Sound(new)
    BY <1>1, <2>2 DEF GoalTyped, Kept, Sound, Goal!Active
  <2>4. late' \in BOOLEAN /\ goalMail' \in BOOLEAN
    BY <2>1
  <2>5. GoalTyped'
    BY <1>1, <2>1, <2>3, <2>4, PersistedState DEF GoalTyped, Kept
  <2>6. BudgetInv'
    BY <2>1, <2>2 DEF Goal!Persist, BudgetInv
  <2>7. QED
    BY <1>1, <2>1, <2>5, <2>6, NewRevision DEF GoalInv
<1>7. CASE Goal!Prompt
  <2>1. /\ commands' = commands + 1 /\ commands < MaxCommands /\ goalMail' = TRUE
        /\ UNCHANGED <<state, revision, late, saved, history, unkept, goalPhase, probe, asked,
                       given>>
    BY <1>7 DEF Goal!Prompt, Goal!Commands
  <2>2. goalMail' \in BOOLEAN
    BY <2>1
  <2>3. GoalTyped'
    BY <1>1, <2>1, <2>2 DEF GoalTyped, Kept
  <2>4. BudgetInv'
    BY <1>1, <2>1 DEF BudgetInv
  <2>5. QED
    BY <1>1, <2>1, <2>3, <2>4, SameRevision DEF GoalInv
<1>8. CASE Goal!Restart
  <2>1. /\ commands' = commands + 1 /\ commands < MaxCommands /\ revision' = revision + 1
        /\ state' = saved /\ probe' = -1 /\ asked' = {}
        /\ given' = IF saved = state THEN given ELSE Goal!Used(saved)
        /\ goalPhase' = "idle" /\ goalMail' = FALSE
        /\ late' \in BOOLEAN /\ UNCHANGED <<saved, history, unkept>>
    BY <1>8 DEF Goal!Restart, Goal!Commands
  <2>2. goalMail' \in BOOLEAN
    BY <2>1
  <2>3. GoalTyped'
    BY <1>1, <2>1, <2>2 DEF GoalTyped, Kept
  <2>4. BudgetInv'
    <3>1. saved.turns \in Nat
      BY <1>1 DEF GoalTyped, Kept, Sound, Goal!States
    <3>2. QED
      BY <1>1, <2>1, <3>1 DEF BudgetInv, Goal!Used
  <2>5. AskedInv'
    BY <2>1 DEF AskedInv
  <2>6. QED
    BY <2>3, <2>4, <2>5 DEF GoalInv
<1>9. ASSUME NEW s \in history, Goal!SessionTree(s)
      PROVE  GoalInv'
  <2>1. /\ commands' = commands + 1 /\ commands < MaxCommands /\ revision' = revision + 1
        /\ state' = s /\ saved' = s /\ late' \in BOOLEAN
        /\ given' = IF s.turns > MaxTurns THEN MaxTurns ELSE s.turns
        /\ Goal!Cancel /\ UNCHANGED <<history, unkept, goalPhase, goalMail>>
    BY <1>9 DEF Goal!SessionTree, Goal!Commands, Goal!Used
  <2>2. Sound(s) /\ s.turns \in Nat
    BY <1>1 DEF GoalTyped, Kept, Sound, Goal!States
  <2>3. AskedInv' /\ asked' \subseteq Question
    BY <1>1, <2>1, CancelledQuestions
  <2>4. GoalTyped'
    BY <1>1, <2>1, <2>2, <2>3 DEF GoalTyped, Kept
  <2>5. BudgetInv'
    BY <2>1, <2>2 DEF BudgetInv
  <2>6. QED
    BY <2>3, <2>4, <2>5 DEF GoalInv
<1>10. QED
  BY <1>3, <1>4, <1>5, <1>6, <1>7, <1>8, <1>9 DEF Goal!User

LEMMA GoalAgentInv ==
  ASSUME MaxTurns \in Nat, MaxCommands \in Nat, GoalInv,
         Goal!TimePasses \/ Goal!AgentStart \/ Goal!Read \/ Goal!AgentEnd \/ Goal!StuckResume
  PROVE  GoalInv'
<1>1. GoalTyped /\ BudgetInv /\ AskedInv
  BY DEF GoalInv
<1>2. CASE Goal!TimePasses
  <2>1. late' = TRUE /\ UNCHANGED <<state, revision, saved, history, unkept, goalPhase, goalMail,
                                    probe, asked, commands, given>>
    BY <1>2 DEF Goal!TimePasses
  <2>2. late' \in BOOLEAN
    BY <2>1
  <2>3. QED
    BY <1>1, <2>1, <2>2 DEF GoalInv, GoalTyped, Kept, BudgetInv, AskedInv
<1>3. CASE Goal!AgentStart
  <2>1. goalPhase' = "busy" /\ goalMail' = FALSE /\ Goal!Cancel
          /\ UNCHANGED <<state, revision, late, saved, history, unkept, commands, given>>
    BY <1>3 DEF Goal!AgentStart
  <2>2. AskedInv' /\ asked' \subseteq Question
    BY <1>1, <2>1, CancelledQuestions
  <2>3. goalMail' \in BOOLEAN
    BY <2>1
  <2>4. GoalTyped'
    BY <1>1, <2>1, <2>2, <2>3 DEF GoalTyped, Kept
  <2>5. BudgetInv'
    BY <1>1, <2>1 DEF BudgetInv
  <2>6. QED
    BY <2>2, <2>4, <2>5 DEF GoalInv
<1>4. CASE Goal!Read
  <2>1. goalMail' = FALSE /\ UNCHANGED <<state, revision, late, saved, history, unkept, goalPhase,
                                         probe, asked, commands, given>>
    BY <1>4 DEF Goal!Read
  <2>2. goalMail' \in BOOLEAN
    BY <2>1
  <2>3. QED
    BY <1>1, <2>1, <2>2 DEF GoalInv, GoalTyped, Kept, BudgetInv, AskedInv
<1>5. CASE Goal!AgentEnd
  <2>1. /\ goalPhase = "busy" /\ goalPhase' = "idle"
        /\ UNCHANGED <<state, revision, late, saved, history, unkept, goalMail, commands, given>>
    BY <1>5 DEF Goal!AgentEnd
  <2>2. BudgetInv'
    BY <1>1, <2>1 DEF BudgetInv
  <2>3. CASE UNCHANGED <<probe, asked>>
    <3>1. GoalTyped'
      BY <1>1, <2>1, <2>3 DEF GoalTyped, Kept
    <3>2. AskedInv'
      BY <1>1, <2>1, <2>3 DEF AskedInv
    <3>3. QED
      BY <2>2, <3>1, <3>2 DEF GoalInv
  <2>4. CASE /\ Goal!isGoalActive /\ probe' = revision
             /\ asked' = Goal!Cancelled \cup {[revision |-> revision, goal |-> state.goal,
                                          current |-> TRUE]}
    <3> DEFINE new == [revision |-> revision, goal |-> state.goal, current |-> TRUE]
    <3>1. state.goal \in 1 .. MaxCommands /\ revision \in Nat
      BY <1>1, <2>4 DEF Goal!isGoalActive, Goal!Active, GoalTyped, Kept, Sound, Goal!States
    <3>2. /\ new \in Question /\ new.revision = revision /\ new.goal = state.goal
          /\ new.current
      BY <3>1 DEF Question
    <3>3. asked' = Goal!Cancelled \cup {new}
      BY <2>4
    <3> HIDE DEF new
    <3>4. asked' \subseteq Question
      BY <1>1, <3>2, <3>3, CancelledCount
    <3>5. GoalTyped'
      BY <1>1, <2>1, <3>4 DEF GoalTyped, Kept
    <3>6. ASSUME NEW e \in Goal!Cancelled
          PROVE  e.revision <= revision /\ (e.revision = revision => e.goal = state.goal)
      <4>1. PICK f \in asked : e.revision = f.revision /\ e.goal = f.goal
        BY <1>1, <3>6, CancelledCount
      <4>2. QED
        BY <1>1, <4>1 DEF AskedInv
    <3>7. \A e, f \in asked' : e.current /\ f.current => e = f
      BY <1>1, <3>3, CancelledCount
    <3>8. \E e \in asked' : e.current /\ e.revision = probe'
      BY <2>4, <3>2, <3>3
    <3>9. AskedInv'
      BY <2>1, <3>1, <3>2, <3>3, <3>6, <3>7, <3>8 DEF AskedInv
    <3>10. QED
      BY <2>2, <3>5, <3>9 DEF GoalInv
  <2>5. QED
    BY <1>5, <2>3, <2>4 DEF Goal!AgentEnd
<1>6. CASE Goal!StuckResume
  <2>1. /\ Goal!isGoalActive /\ Goal!Continue
        /\ UNCHANGED <<revision, late, goalPhase, probe, asked, commands>>
    BY <1>6 DEF Goal!StuckResume
  <2>2. /\ Sound(state') /\ Kept'
        /\ state'.goal = state.goal /\ (goalMail' = goalMail \/ goalMail' = TRUE) /\ BudgetInv'
    BY <1>1, <2>1, ContinueCounts
  <2>3. goalMail' \in BOOLEAN
    BY <1>1, <2>2 DEF GoalTyped, Kept
  <2>4. GoalTyped'
    BY <1>1, <2>1, <2>2, <2>3 DEF GoalTyped, Kept
  <2>5. AskedInv'
    BY <1>1, <2>1, <2>2, SameRevision
  <2>6. QED
    BY <2>2, <2>4, <2>5 DEF GoalInv
<1>7. QED
  BY <1>2, <1>3, <1>4, <1>5, <1>6

LEMMA GoalAnswerInv ==
  ASSUME MaxTurns \in Nat, MaxCommands \in Nat, GoalInv, NEW e \in asked, Goal!Answer(e)
  PROVE  GoalInv'
<1>1. GoalTyped /\ BudgetInv /\ AskedInv /\ state \in Goal!States /\ revision \in Nat
  BY DEF GoalInv, GoalTyped, Kept, Sound
<1>2. Goal!Answered(e) /\ asked' = asked \ {e} /\ goalPhase' = goalPhase
  BY DEF Goal!Answer, Goal!AnswerDropped, Goal!Met, Goal!EvaluationFailed, Goal!NotMet,
     Goal!Answered
<1>3. CASE Goal!AnswerDropped(e)
  <2>1. UNCHANGED <<state, revision, late, saved, history, unkept, goalPhase, goalMail, commands,
                    given>>
    BY <1>3 DEF Goal!AnswerDropped
  <2>2. GoalTyped'
    BY <1>1, <1>2, <2>1 DEF GoalTyped, Kept
  <2>3. BudgetInv'
    BY <1>1, <2>1 DEF BudgetInv
  <2>4. QED
    BY <1>1, <1>2, <2>1, <2>2, <2>3, AnsweredQuestion DEF GoalInv
<1>4. CASE Goal!Met(e)
  <2>1. /\ revision' = revision + 1 /\ Goal!Persist(Goal!NoGoal) /\ late' = FALSE
        /\ UNCHANGED <<goalPhase, goalMail, commands, given>>
    BY <1>4 DEF Goal!Met
  <2>2. Sound(Goal!NoGoal) /\ ~Goal!NoGoal.active
    BY DEF Sound, Goal!NoGoal, Goal!States, Goal!Active
  <2>3. late' \in BOOLEAN
    BY <2>1
  <2>4. GoalTyped'
    BY <1>1, <1>2, <2>1, <2>2, <2>3, PersistedState DEF GoalTyped, Kept
  <2>5. BudgetInv'
    BY <1>1, <2>1, <2>2 DEF Goal!Persist, BudgetInv
  <2>6. QED
    BY <1>1, <1>2, <2>1, <2>4, <2>5, AnsweredQuestion DEF GoalInv
<1>5. CASE Goal!EvaluationFailed(e)
  <2> DEFINE new == [state EXCEPT !.paused = TRUE]
  <2>1. Goal!Persist(new) /\ UNCHANGED <<revision, late, goalPhase, goalMail, commands, given>>
    BY <1>5 DEF Goal!EvaluationFailed
  <2>2. /\ new \in Goal!States /\ new.paused /\ new.goal = state.goal
        /\ new.turns = state.turns /\ (new.active <=> state.active)
    BY <1>1, PausedState
  <2> HIDE DEF new
  <2>3. Sound(new)
    BY <1>1, <2>2 DEF GoalTyped, Kept, Sound, Goal!Active
  <2>4. GoalTyped'
    BY <1>1, <1>2, <2>1, <2>3, PersistedState DEF GoalTyped, Kept
  <2>5. BudgetInv'
    BY <1>1, <2>1, <2>2 DEF Goal!Persist, BudgetInv
  <2>6. state'.goal = state.goal
    BY <2>1, <2>2 DEF Goal!Persist
  <2>7. QED
    BY <1>1, <1>2, <2>1, <2>4, <2>5, <2>6, AnsweredQuestion DEF GoalInv
<1>6. CASE Goal!NotMet(e)
  <2>1. Goal!isGoalActive /\ Goal!Continue /\ UNCHANGED <<revision, late, goalPhase, commands>>
    BY <1>6 DEF Goal!NotMet, Goal!Current
  <2>2. /\ Sound(state') /\ Kept'
        /\ state'.goal = state.goal /\ (goalMail' = goalMail \/ goalMail' = TRUE) /\ BudgetInv'
    BY <1>1, <2>1, ContinueCounts
  <2>3. goalMail' \in BOOLEAN
    BY <1>1, <2>2 DEF GoalTyped, Kept
  <2>4. GoalTyped'
    BY <1>1, <1>2, <2>1, <2>2, <2>3 DEF GoalTyped, Kept
  <2>5. QED
    BY <1>1, <1>2, <2>1, <2>2, <2>4, AnsweredQuestion DEF GoalInv
<1>7. QED
  BY <1>3, <1>4, <1>5, <1>6 DEF Goal!Answer

(* The invariant holds always *)
THEOREM GoalInvariants == Goal!Spec => []GoalInv
<1> USE SessionAssumption
<1>1. Goal!Init => GoalInv
  BY GoalInitInv
<1>2. GoalInv /\ [Goal!Next]_(Goal!vars) => GoalInv'
  <2> SUFFICES ASSUME GoalInv, [Goal!Next]_(Goal!vars) PROVE GoalInv'
    OBVIOUS
  <2>1. CASE UNCHANGED Goal!vars
    BY <2>1 DEF Goal!vars, GoalInv, GoalTyped, Kept, BudgetInv, AskedInv
  <2>2. CASE Goal!Next
    BY <2>2, GoalUserInv, GoalAgentInv, GoalAnswerInv DEF Goal!Next
  <2>3. QED
    BY <2>1, <2>2
<1>3. QED
  BY <1>1, <1>2, PTL DEF Goal!Spec

(* Types, and the controller belongs to the evaluation that can still count *)
THEOREM GoalTypes == Goal!Spec => []Goal!TypeOK
<1> USE SessionAssumption
<1>1. GoalInv => Goal!TypeOK
  BY DEF GoalInv, GoalTyped, Kept, BudgetInv, AskedInv, Sound, Question, Goal!TypeOK
<1>2. QED
  BY <1>1, GoalInvariants, PTL

(* agent_start cancels the probe and agent_end starts the only one: an evaluation never
   counts beside a run or beside another evaluation *)
THEOREM EvaluatesBetweenRuns == Goal!Spec => []Goal!EvaluatedBetweenRuns
<1> USE SessionAssumption
<1>1. GoalInv => Goal!EvaluatedBetweenRuns
  BY DEF GoalInv, AskedInv, Goal!EvaluatedBetweenRuns
<1>2. QED
  BY <1>1, GoalInvariants, PTL

(* continueGoal: runs that nobody asked for stay within MAX_TURNS, over any pauses,
   restarts and moves in the tree *)
THEOREM StaysWithinBudget == Goal!Spec => []Goal!WithinBudget
<1> USE SessionAssumption
<1>1. GoalInv => Goal!WithinBudget
  BY DEF GoalInv, GoalTyped, Kept, BudgetInv, Goal!WithinBudget
<1>2. QED
  BY <1>1, GoalInvariants, PTL

(* evaluate: an answer that arrives late acts on the goal it was asked about or on none *)
THEOREM AnswersAreAboutGoal == Goal!Spec => AnswerIsAboutGoal
<1> USE SessionAssumption
<1>1. GoalInv =>
        [\A e \in asked : Goal!Answer(e) /\ state' # state => e.goal = state.goal]_(Goal!vars)
  <2>1. ASSUME GoalInv, NEW e \in asked, Goal!Answer(e), state' # state
        PROVE  e.goal = state.goal
    <3>1. Goal!Current(e)
      BY <2>1 DEF Goal!Answer, Goal!AnswerDropped, Goal!Met, Goal!EvaluationFailed, Goal!NotMet
    <3>2. QED
      BY <2>1, <3>1 DEF Goal!Current, GoalInv, AskedInv
  <2>2. QED
    BY <2>1
<1>2. QED
  BY <1>1, GoalInvariants, PTL DEF AnswerIsAboutGoal, Goal!AnswerIsAboutGoal

-----------------------------------------------------------------------------

(* tickAntiStuck and evaluateAtAgentEnd, in any numbers of sessions, probes, turns and
   commands *)
THEOREM LoopsAreSafe == Stuck!Spec /\ Goal!Spec => []LoopsSafe
<1> USE SessionAssumption
<1>1. Stuck!Spec => []Stuck!NoStaleAnswer
  BY AnswersAreNotStale
<1>2. Stuck!Spec => []Stuck!CheckGoesOn
  BY ChecksGoOn
<1>3. Goal!Spec => []Goal!EvaluatedBetweenRuns
  BY EvaluatesBetweenRuns
<1>4. Goal!Spec => []Goal!WithinBudget
  BY StaysWithinBudget
<1>5. Stuck!NoStaleAnswer /\ Stuck!CheckGoesOn /\ Goal!EvaluatedBetweenRuns /\ Goal!WithinBudget
      => LoopsSafe
  BY DEF LoopsSafe
<1>6. QED
  BY <1>1, <1>2, <1>3, <1>4, <1>5, PTL

=============================================================================
