------------------------ MODULE ScratchGuardianProofs ------------------------
(* Proofs about ScratchGuardian, for every set of hosts and of scopes, any     *)
(* number of repeated closes and of failing disk operations.                   *)
EXTENDS ScratchGuardian, TLAPS

Early == {"none", "boot", "reconcile", "write", "mkdir", "identify"}

(* The guardian of s has made its directory and identified it, or has ended: it *)
(* will never make the directory (again).                                       *)
Settled(s) == pc[s] \notin Early /\ (pc[s] \in Finishing => subject[s] = s)

Own == {"write", "mkdir", "identify", "announce", "serve", "receipt", "farewell", "retry"}
Serving == Finishing \cup {"announce", "serve", "receipt", "farewell", "retry"}

(* Where a guardian is before its own record has its identity.  Only then is    *)
(* the record its alone, and only there is the directory made.                  *)
RegisterInv ==
  \A s \in Scopes :
    /\ pc[s] \in Own => subject[s] = s
    /\ pc[s] \in {"write", "mkdir", "identify"} => mem[s] = Fresh
    /\ ~Settled(s) /\ pc[s] \notin {"mkdir", "identify"} => journal[s] = None
    /\ pc[s] \in {"mkdir", "identify"} => journal[s] = Fresh
    /\ pc[s] = "mkdir" => s \notin disk
    /\ journal[s] = None => s \notin disk
    /\ \A r \in todo[s] : journal[r] # None

(* What a guardian knows of the directory whose record it works on *)
MemoryInv ==
  \A g \in Scopes : pc[g] \in Serving =>
    /\ Settled(subject[g])
    /\ journal[subject[g]] # None
    /\ mem[g].scope_removed => subject[g] \notin disk
    /\ mem[g].state = "closed" => mem[g].scope_removed
    /\ mem[g].state = "retained" => subject[g] \in Keep
    /\ mem[g].evidence = "host_exit" => mem[g].host_closed
    /\ pc[g] \notin {"announce", "serve"} => mem[g].evidence # "none"

(* What a record says of its directory *)
RecordInv ==
  \A s \in Scopes : journal[s] # None =>
    /\ Parses(journal[s])
    /\ journal[s].scope_removed => s \notin disk
    /\ journal[s].state = "retained" => s \in Keep
    /\ journal[s].identity => Settled(s)

Among(state, receipts) == \E i \in 1 .. Len(receipts) : receipts[i] = state

(* What a client may conclude from receipts and from its guardian's exit *)
ClientInv ==
  \A s \in Scopes :
    /\ exited[s] => pc[s] \in Ends
    /\ ~started[s] => pc[s] = "none"
    /\ call[s] = "new" => ~started[s]
    /\ call[s] = "leaving" \/ Among("closed", outbox[s]) \/ Among("retained", outbox[s]) =>
         Settled(s) /\ (s \notin disk \/ s \in Keep)
    /\ call[s] = "released" =>
         (Settled(s) \/ pc[s] = "none") /\ (s \notin disk \/ s \in Keep)

(* The client has not asked for the end of the directory, and its host is there *)
Untouched(s) == call[s] \in {"new", "starting", "held"} /\ HasHost(s)

(* Then nobody works on its end *)
HeldInv ==
  \A s \in Scopes : Untouched(s) =>
    /\ ~ended[s] /\ inbox[s] = <<>>
    /\ pc[s] \notin {"receipt", "farewell", "retry"}
    /\ \A g \in Scopes : pc[g] \in Finishing => subject[g] # s
    /\ journal[s] # None => ~journal[s].host_closed
    /\ pc[s] \in {"identify", "announce", "serve"} \/ Among("ready", outbox[s])
       \/ call[s] = "held" => s \in disk

(* Each call of the client leaves its own variables well formed, and close counts up to
   its bound *)
LEMMA ClientTypes == ClientOK /\ [Next]_vars => ClientOK'
<1> SUFFICES ASSUME ClientOK, [Next]_vars PROVE ClientOK'
  OBVIOUS
<1> USE ScopesAssumption DEF ClientOK
<1>1. ASSUME NEW s \in Scopes, Start(s) \/ SpawnFails(s) PROVE ClientOK'
  BY <1>1 DEF Start, SpawnFails, Becomes, Calls
<1>2. ASSUME NEW s \in Scopes, Receive(s) PROVE ClientOK'
  BY <1>2 DEF Receive, Becomes, Calls
<1>3. ASSUME NEW s \in Scopes, TimeOut(s) \/ InputBreaks(s) PROVE ClientOK'
  BY <1>3 DEF TimeOut, InputBreaks, Becomes, Calls
<1>10. ASSUME NEW s \in Scopes, SeeExit(s) PROVE ClientOK'
  BY <1>10 DEF SeeExit, Becomes, Calls
<1>4. ASSUME NEW s \in Scopes, CloseAlone(s) \/ Close(s) PROVE ClientOK'
  <2>1. CASE CloseAlone(s)
    <3>1. call' = [call EXCEPT ![s] = "released"] \/ call' = [call EXCEPT ![s] = "idle"]
      BY <2>1 DEF CloseAlone, Becomes
    <3>2. QED
      BY <2>1, <3>1 DEF CloseAlone, Calls
  <2>2. CASE Close(s)
    <3>1. \E phase \in {"idle", "closing"} : call' = [call EXCEPT ![s] = phase]
      BY <2>2 DEF Close, Becomes
    <3>2. calls' \in [Scopes -> Nat] /\ \A r \in Scopes : calls'[r] <= MaxCalls[r]
      BY <2>2 DEF Close
    <3>3. QED
      BY <2>2, <3>1, <3>2 DEF Close, Calls
  <2>3. QED
    BY <1>4, <2>1, <2>2
<1>5. ASSUME NEW h \in Hosts, HostDies(h) PROVE ClientOK'
  BY <1>5 DEF HostDies, clientVars
<1>6. ASSUME UNCHANGED <<alive, clientVars>> PROVE ClientOK'
  BY <1>6 DEF clientVars
<1> HIDE DEF ClientOK
<1>7. ASSUME NEW s \in Scopes, Guardian(s) \/ GuardianKilled(s) PROVE ClientOK'
  BY <1>6, <1>7 DEF Guardian, Register, Visit, Reconciled, WriteRecord, MakeDirectory, Identify,
     Announce, Command, InputEnds, Begin, Look, RemoveDirectory, Store, Note, Retry, Answer,
     GuardianKilled, Idly
<1>8. CASE UNCHANGED vars
  BY <1>6, <1>8 DEF vars
<1>9. QED
  BY <1>1, <1>2, <1>3, <1>10, <1>4, <1>5, <1>7, <1>8 DEF Next, Client

(* Only "close" goes down the one pipe, only states of a record up the other *)
LEMMA PipeTypes == PipesOK /\ GuardsOK /\ [Next]_vars => PipesOK'
<1> SUFFICES ASSUME PipesOK, GuardsOK, [Next]_vars PROVE PipesOK'
  OBVIOUS
<1> DEFINE Receipts == {"ready", "pending", "closed", "retained"}
<1>1. ASSUME NEW s \in Scopes, NEW state \in Receipts, NEW next, Says(s, state, next), inbox' = inbox
      PROVE  PipesOK'
  <2>1. outbox' = outbox \/ outbox' = [outbox EXCEPT ![s] = Append(outbox[s], state)]
    BY <1>1 DEF Says
  <2>2. outbox[s] \in Seq(Receipts)
    BY DEF PipesOK
  <2>3. Append(outbox[s], state) \in Seq(Receipts)
    BY <2>2
  <2>4. QED
    BY <1>1, <2>1, <2>3 DEF PipesOK
<1>2. ASSUME NEW s \in Scopes, Announce(s) \/ Answer(s) PROVE PipesOK'
  <2>1. mem[s].state \in Receipts
    BY DEF GuardsOK, Records
  <2>2. QED
    BY <1>1, <1>2, <2>1 DEF Announce, Answer
<1>3. ASSUME NEW s \in Scopes, Receive(s) PROVE PipesOK'
  BY <1>3 DEF PipesOK, Receive
<1>4. ASSUME NEW s \in Scopes, InputBreaks(s) \/ Close(s) \/ Command(s) PROVE PipesOK'
  <2>1. inbox[s] \in Seq({"close"})
    BY DEF PipesOK
  <2>2. /\ <<>> \in Seq({"close"}) /\ Append(inbox[s], "close") \in Seq({"close"})
        /\ inbox[s] # <<>> => Tail(inbox[s]) \in Seq({"close"})
    BY <2>1
  <2>3. outbox' = outbox /\ \E q \in Seq({"close"}) :
          inbox' = inbox \/ inbox' = [inbox EXCEPT ![s] = q]
    BY <1>4, <2>1, <2>2 DEF InputBreaks, Close, Command
  <2>4. QED
    BY <2>3 DEF PipesOK
<1>5. ASSUME UNCHANGED pipeVars PROVE PipesOK'
  BY <1>5 DEF pipeVars, PipesOK
<1>6. ASSUME NEW s \in Scopes,
             \/ Start(s) \/ SpawnFails(s) \/ TimeOut(s) \/ SeeExit(s) \/ CloseAlone(s)
             \/ Register(s) \/ (\E r \in Scopes : Visit(s, r)) \/ Reconciled(s) \/ WriteRecord(s)
             \/ MakeDirectory(s) \/ Identify(s) \/ InputEnds(s) \/ Begin(s) \/ Look(s)
             \/ RemoveDirectory(s) \/ Store(s) \/ Note(s) \/ Retry(s) \/ GuardianKilled(s)
      PROVE  PipesOK'
  BY <1>5, <1>6 DEF Start, SpawnFails, TimeOut, SeeExit, CloseAlone, Register, Visit, Reconciled,
     WriteRecord, MakeDirectory, Identify, InputEnds, Begin, Look, RemoveDirectory, Store, Note,
     Retry, GuardianKilled, Idly
<1>7. ASSUME NEW h \in Hosts, HostDies(h) PROVE PipesOK'
  BY <1>5, <1>7 DEF HostDies
<1>8. CASE UNCHANGED vars
  BY <1>5, <1>8 DEF vars
<1>9. QED
  BY <1>2, <1>3, <1>4, <1>6, <1>7, <1>8 DEF Next, Client, Guardian

(* A guardian is always at one of its steps, and holds a well-formed record: what it
   reads from the journal is one, since it only visits entries that are there *)
LEMMA GuardTypes == GuardsOK /\ DiskOK /\ RegisterInv /\ [Next]_vars => GuardsOK'
<1> SUFFICES ASSUME GuardsOK, DiskOK, RegisterInv, [Next]_vars PROVE GuardsOK'
  OBVIOUS
<1>1. ASSUME UNCHANGED guardVars PROVE GuardsOK'
  BY <1>1 DEF guardVars, GuardsOK
<1>2. ASSUME NEW s \in Scopes, NEW step \in Steps, NEW r \in Records, NEW q \in Scopes,
             NEW t \in SUBSET Scopes,
             Goes(s, step),
             mem' = mem \/ mem' = [mem EXCEPT ![s] = r],
             subject' = subject \/ subject' = [subject EXCEPT ![s] = q],
             todo' = todo \/ todo' = [todo EXCEPT ![s] = t]
      PROVE  GuardsOK'
  BY <1>2 DEF GuardsOK, Goes
<1>3. /\ Fresh \in Records
      /\ \A r \in Records : /\ WithIdentity(r) \in Records /\ Closing(r) \in Records
                            /\ HostGone(r) \in Records /\ Pending(r) \in Records
                            /\ Closed(r) \in Records
                            /\ InState(r, "retained", r.scope_removed) \in Records
  BY DEF Fresh, Records, Evidence, WithIdentity, Closing, HostGone, Pending, Closed, InState
<1>4. \A s \in Scopes : mem[s] \in Records /\ subject[s] \in Scopes /\ todo[s] \subseteq Scopes
  BY DEF GuardsOK
<1> USE DEF Steps, Ends, Finishing
<1>5. ASSUME NEW s \in Scopes, Start(s) \/ GuardianKilled(s) \/ Retry(s) PROVE GuardsOK'
  BY <1>2, <1>3, <1>5 DEF Start, GuardianKilled, Retry
<1>6. ASSUME NEW s \in Scopes, Register(s) \/ Reconciled(s) PROVE GuardsOK'
  BY <1>2, <1>3, <1>6 DEF Register, Reconciled
<1>7. ASSUME NEW s \in Scopes, NEW r \in Scopes, Visit(s, r) PROVE GuardsOK'
  <2>1. journal[r] \in Records
    BY <1>7 DEF Visit, RegisterInv, DiskOK
  <2>2. todo[s] \ {r} \in SUBSET Scopes
    BY <1>4
  <2>3. CASE Abandoned(journal[r])
    BY <1>2, <1>7, <2>1, <2>2, <2>3 DEF Visit
  <2>4. CASE ~Abandoned(journal[r])
    BY <1>7, <2>2, <2>4 DEF Visit, GuardsOK
  <2>5. QED
    BY <2>3, <2>4
<1>8. ASSUME NEW s \in Scopes, WriteRecord(s) \/ MakeDirectory(s) \/ Identify(s) PROVE GuardsOK'
  BY <1>2, <1>3, <1>4, <1>8 DEF WriteRecord, MakeDirectory, Identify
<1>9. ASSUME NEW s \in Scopes, Announce(s) \/ Answer(s) PROVE GuardsOK'
  BY <1>2, <1>4, <1>9 DEF Announce, Answer, Says
<1>10. ASSUME NEW s \in Scopes, Command(s) \/ InputEnds(s) PROVE GuardsOK'
  BY <1>2, <1>3, <1>4, <1>10 DEF Command, InputEnds
<1>11. ASSUME NEW s \in Scopes, Begin(s) PROVE GuardsOK'
  BY <1>2, <1>3, <1>4, <1>11 DEF Begin
<1>12. ASSUME NEW s \in Scopes, Look(s) \/ RemoveDirectory(s) PROVE GuardsOK'
  BY <1>2, <1>3, <1>4, <1>12 DEF Look, RemoveDirectory
<1>13. ASSUME NEW s \in Scopes, Store(s) \/ Note(s) PROVE GuardsOK'
  <2>1. Succeeded(s) \in Steps /\ NotSucceeded(s) \in Steps
    BY <1>4 DEF Succeeded, NotSucceeded
  <2>2. QED
    BY <1>2, <1>4, <1>13, <2>1 DEF Store, Note
<1>14. ASSUME NEW s \in Scopes,
              \/ SpawnFails(s) \/ Receive(s) \/ TimeOut(s) \/ InputBreaks(s) \/ SeeExit(s)
              \/ CloseAlone(s) \/ Close(s)
       PROVE  GuardsOK'
  BY <1>1, <1>14 DEF SpawnFails, Receive, TimeOut, InputBreaks, SeeExit, CloseAlone, Close
<1>15. ASSUME NEW h \in Hosts, HostDies(h) PROVE GuardsOK'
  BY <1>1, <1>15 DEF HostDies
<1>16. CASE UNCHANGED vars
  BY <1>1, <1>16 DEF vars
<1>17. QED
  BY <1>5, <1>6, <1>7, <1>8, <1>9, <1>10, <1>11, <1>12, <1>13, <1>14, <1>15, <1>16
     DEF Next, Client, Guardian

(* A record is written only as one that parses *)
LEMMA DiskTypes == GuardsOK /\ DiskOK /\ MemoryInv /\ RegisterInv /\ [Next]_vars => DiskOK'
<1> SUFFICES ASSUME GuardsOK, DiskOK, MemoryInv, RegisterInv, [Next]_vars PROVE DiskOK'
  OBVIOUS
<1> USE ScopesAssumption, NoneAssumption
<1>1. ASSUME UNCHANGED diskVars PROVE DiskOK'
  BY <1>1 DEF diskVars, DiskOK
<1>2. ASSUME NEW s \in Scopes, NEW r \in Records, Parses(r),
             Written(s, r) \/ WriteFault(s, r)
      PROVE  DiskOK'
  BY <1>2 DEF DiskOK, Written, WriteFault
<1>3. ASSUME NEW s \in Scopes, MakeDirectory(s) \/ RemoveDirectory(s) PROVE DiskOK'
  <2>1. journal' = journal /\ disk' \subseteq Scopes /\ faults' \in {faults, faults + 1}
        /\ (faults' # faults => faults < MaxFaults)
    BY <1>3 DEF MakeDirectory, RemoveDirectory, Fault, DiskOK, diskVars
  <2>2. QED
    BY <2>1 DEF DiskOK
<1>4. ASSUME NEW s \in Scopes, WriteRecord(s) \/ Identify(s) PROVE DiskOK'
  <2>1. mem[s] = Fresh
    BY <1>4 DEF WriteRecord, Identify, RegisterInv
  <2>2. /\ Fresh \in Records /\ Parses(Fresh)
        /\ WithIdentity(Fresh) \in Records /\ Parses(WithIdentity(Fresh))
    BY DEF Fresh, Records, Evidence, WithIdentity, Parses
  <2>3. QED
    BY <1>2, <1>4, <2>1, <2>2 DEF WriteRecord, Identify
<1>5. ASSUME NEW s \in Scopes, Begin(s) \/ Store(s) \/ Note(s) PROVE DiskOK'
  <2>1. mem[s] \in Records /\ subject[s] \in Scopes
    BY DEF GuardsOK
  <2>2. Parses(mem[s])
    BY <1>5 DEF Begin, Store, Note, MemoryInv, Serving, Finishing, Parses
  <2>3. Pending(mem[s]) \in Records /\ Parses(Pending(mem[s]))
    BY <2>1, <2>2 DEF Pending, InState, Records, Parses
  <2>4. QED
    BY <1>2, <1>5, <2>1, <2>2, <2>3 DEF Begin, Store, Note
<1>6. ASSUME NEW s \in Scopes,
             \/ Client(s) \/ GuardianKilled(s)
             \/ Register(s) \/ (\E r \in Scopes : Visit(s, r)) \/ Reconciled(s) \/ Announce(s)
             \/ Command(s) \/ InputEnds(s) \/ Look(s) \/ Retry(s) \/ Answer(s)
      PROVE  DiskOK'
  BY <1>1, <1>6 DEF Client, Start, SpawnFails, Receive, TimeOut, InputBreaks, SeeExit, CloseAlone,
     Close, GuardianKilled, Register, Visit, Reconciled, Announce, Command, InputEnds, Look, Retry,
     Answer
<1>7. ASSUME NEW h \in Hosts, HostDies(h) PROVE DiskOK'
  BY <1>1, <1>7 DEF HostDies
<1>8. CASE UNCHANGED vars
  BY <1>1, <1>8 DEF vars
<1>9. QED
  BY <1>3, <1>4, <1>5, <1>6, <1>7, <1>8 DEF Next, Guardian

(* The four together; the record on disk needs what guardians know of it *)
LEMMA TypeInductive == TypeOK /\ RegisterInv /\ MemoryInv /\ [Next]_vars => TypeOK'
BY ClientTypes, PipeTypes, GuardTypes, DiskTypes DEF TypeOK

-----------------------------------------------------------------------------
(* What a step can touch *)

Same(g) == pc'[g] = pc[g] /\ subject'[g] = subject[g] /\ mem'[g] = mem[g] /\ todo'[g] = todo[g]

(* A guardian's state is its own *)
LEMMA GuardsApart ==
  ASSUME GuardsOK, [Next]_vars, NEW g \in Scopes
  PROVE  Same(g) \/ Guardian(g) \/ GuardianKilled(g) \/ Start(g)
<1> USE DEF GuardsOK, Same
<1>1. ASSUME UNCHANGED guardVars PROVE Same(g)
  BY <1>1 DEF guardVars
<1>2. ASSUME NEW s \in Scopes, s # g, Guardian(s) PROVE Same(g)
  BY <1>2 DEF Guardian, Register, Visit, Reconciled, WriteRecord, MakeDirectory, Identify,
     Announce, Command, InputEnds, Begin, Look, RemoveDirectory, Store, Note, Retry, Answer,
     Goes, Says
<1>3. ASSUME NEW s \in Scopes, s # g, GuardianKilled(s) \/ Start(s) PROVE Same(g)
  BY <1>3 DEF GuardianKilled, Start, Goes
<1>4. ASSUME NEW s \in Scopes, Client(s) PROVE Same(g) \/ Start(s)
  BY <1>1, <1>4 DEF Client, SpawnFails, Receive, TimeOut, InputBreaks, SeeExit, CloseAlone, Close
<1>5. ASSUME NEW h \in Hosts, HostDies(h) PROVE Same(g)
  BY <1>1, <1>5 DEF HostDies
<1>6. CASE UNCHANGED vars
  BY <1>1, <1>6 DEF vars
<1> HIDE DEF GuardsOK, Same
<1>7. QED
  BY <1>2, <1>3, <1>4, <1>5, <1>6 DEF Next

(* Works(g): the step of guardian g writes the record of its subject *)
Works(g) == Begin(g) \/ Store(g) \/ Note(g)

(* Who writes a record, and what *)
LEMMA RecordSteps ==
  ASSUME GuardsOK, DiskOK, [Next]_vars, NEW r \in Scopes
  PROVE  \/ journal'[r] = journal[r]
         \/ (WriteRecord(r) \/ Identify(r)) /\ journal'[r] = mem'[r]
         \/ \E g \in Scopes : /\ Works(g) /\ subject[g] = r
                              /\ journal'[r] \in {mem[g], Pending(mem[g])}
<1>1. ASSUME NEW q \in Scopes, NEW rec, Written(q, rec) \/ WriteFault(q, rec)
      PROVE  journal'[r] = journal[r] \/ (q = r /\ journal'[r] = rec)
  <2>1. journal' = journal \/ journal' = [journal EXCEPT ![q] = rec]
    BY <1>1 DEF Written, WriteFault
  <2>2. QED
    BY <2>1 DEF DiskOK
<1>2. ASSUME UNCHANGED diskVars PROVE journal'[r] = journal[r]
  BY <1>2 DEF diskVars
<1>3. ASSUME NEW s \in Scopes, WriteRecord(s)
      PROVE  journal'[r] = journal[r] \/ (s = r /\ journal'[r] = mem'[r])
  <2>1. (Written(s, mem[s]) \/ WriteFault(s, mem[s])) /\ mem' = mem
    BY <1>3 DEF WriteRecord
  <2>2. QED
    BY <1>1, <2>1
<1>4. ASSUME NEW s \in Scopes, Identify(s)
      PROVE  journal'[r] = journal[r] \/ (s = r /\ journal'[r] = mem'[r])
  <2>1. \/ Written(s, WithIdentity(mem[s]))
        \/ WriteFault(s, WithIdentity(mem[s]))
    BY <1>4 DEF Identify
  <2>2. mem'[s] = WithIdentity(mem[s])
    BY <1>4 DEF Identify, GuardsOK
  <2>3. QED
    BY <1>1, <2>1, <2>2
<1>5. ASSUME NEW s \in Scopes, Works(s)
      PROVE  journal'[r] = journal[r] \/ (subject[s] = r /\ journal'[r] \in {mem[s], Pending(mem[s])})
  <2>1. \E rec \in {mem[s], Pending(mem[s])} :
          Written(subject[s], rec) \/ WriteFault(subject[s], rec)
    BY <1>5 DEF Works, Begin, Store, Note
  <2>2. subject[s] \in Scopes
    BY DEF GuardsOK
  <2>3. QED
    BY <1>1, <2>1, <2>2
<1>6. ASSUME NEW s \in Scopes,
             \/ Client(s) \/ GuardianKilled(s)
             \/ Register(s) \/ (\E q \in Scopes : Visit(s, q)) \/ Reconciled(s) \/ Announce(s)
             \/ Command(s) \/ InputEnds(s) \/ Look(s) \/ Retry(s) \/ Answer(s)
      PROVE  journal'[r] = journal[r]
  BY <1>2, <1>6 DEF Client, Start, SpawnFails, Receive, TimeOut, InputBreaks, SeeExit, CloseAlone,
     Close, GuardianKilled, Register, Visit, Reconciled, Announce, Command, InputEnds, Look, Retry,
     Answer
<1>7. ASSUME NEW s \in Scopes, MakeDirectory(s) \/ RemoveDirectory(s) PROVE journal'[r] = journal[r]
  BY <1>7 DEF MakeDirectory, RemoveDirectory, Fault, diskVars
<1>8. CASE UNCHANGED vars
  BY <1>2, <1>8 DEF vars
<1>9. ASSUME NEW h \in Hosts, HostDies(h) PROVE journal'[r] = journal[r]
  BY <1>2, <1>9 DEF HostDies
<1>10. QED
  BY <1>3, <1>4, <1>5, <1>6, <1>7, <1>8, <1>9 DEF Next, Guardian, Works

(* Who makes and who removes a directory *)
LEMMA DiskSteps ==
  ASSUME [Next]_vars
  PROVE  \/ disk' = disk
         \/ \E s \in Scopes : MakeDirectory(s) /\ disk' = disk \cup {s}
         \/ \E g \in Scopes : RemoveDirectory(g) /\ disk' = disk \ {subject[g]}
<1>1. ASSUME UNCHANGED diskVars PROVE disk' = disk
  BY <1>1 DEF diskVars
<1>2. ASSUME NEW s \in Scopes,
             WriteRecord(s) \/ Identify(s) \/ Begin(s) \/ Store(s) \/ Note(s)
      PROVE  disk' = disk
  BY <1>2 DEF WriteRecord, Identify, Begin, Store, Note, Written, WriteFault
<1>3. ASSUME NEW s \in Scopes, MakeDirectory(s) PROVE disk' = disk \/ disk' = disk \cup {s}
  BY <1>3 DEF MakeDirectory, Fault
<1>4. ASSUME NEW s \in Scopes, RemoveDirectory(s)
      PROVE  disk' = disk \/ disk' = disk \ {subject[s]}
  BY <1>4 DEF RemoveDirectory, diskVars
<1>5. ASSUME NEW s \in Scopes,
             \/ Client(s) \/ GuardianKilled(s)
             \/ Register(s) \/ (\E q \in Scopes : Visit(s, q)) \/ Reconciled(s) \/ Announce(s)
             \/ Command(s) \/ InputEnds(s) \/ Look(s) \/ Retry(s) \/ Answer(s)
      PROVE  disk' = disk
  BY <1>1, <1>5 DEF Client, Start, SpawnFails, Receive, TimeOut, InputBreaks, SeeExit, CloseAlone,
     Close, GuardianKilled, Register, Visit, Reconciled, Announce, Command, InputEnds, Look, Retry,
     Answer
<1>6. CASE UNCHANGED vars
  BY <1>1, <1>6 DEF vars
<1>7. ASSUME NEW h \in Hosts, HostDies(h) PROVE disk' = disk
  BY <1>1, <1>7 DEF HostDies
<1>8. QED
  BY <1>2, <1>3, <1>4, <1>5, <1>6, <1>7 DEF Next, Guardian

(* Once settled, a scope stays settled, and its directory, once gone, stays away *)
LEMMA SettledStays ==
  ASSUME GuardsOK, RegisterInv, ClientInv, [Next]_vars, NEW s \in Scopes, Settled(s)
  PROVE  Settled(s)' /\ (s \notin disk => s \notin disk')
<1> USE DEF GuardsOK, Early, Finishing, Ends
<1>1. Settled(s)'
  <2>1. CASE Same(s)
    BY <2>1 DEF Same, Settled
  <2>2. CASE GuardianKilled(s)
    BY <2>2 DEF GuardianKilled, Goes, Settled
  <2>3. CASE Start(s)
    BY <2>3 DEF Start, ClientInv, Settled
  <2>4. CASE Guardian(s)
    <3>1. subject[s] = s \/ pc[s] \in Ends
      BY DEF Settled, RegisterInv, Own, Steps
    <3>2. CASE Announce(s) \/ Answer(s)
      BY <3>2 DEF Announce, Answer, Says, Goes, Settled
    <3>3. CASE Command(s) \/ InputEnds(s) \/ Retry(s)
      BY <3>1, <3>3 DEF Command, InputEnds, Retry, Goes, Settled
    <3>4. CASE Begin(s) \/ Look(s) \/ RemoveDirectory(s)
      BY <3>1, <3>4 DEF Begin, Look, RemoveDirectory, Goes, Settled
    <3>5. CASE Store(s) \/ Note(s)
      BY <3>1, <3>5 DEF Store, Note, Goes, Succeeded, NotSucceeded, Settled
    <3>6. CASE Register(s) \/ (\E r \in Scopes : Visit(s, r)) \/ Reconciled(s) \/ WriteRecord(s)
               \/ MakeDirectory(s) \/ Identify(s)
      BY <3>6 DEF Register, Visit, Reconciled, WriteRecord, MakeDirectory, Identify, Settled
    <3>7. QED
      BY <2>4, <3>2, <3>3, <3>4, <3>5, <3>6 DEF Guardian
  <2>5. QED
    BY <2>1, <2>2, <2>3, <2>4, GuardsApart
<1>2. s \notin disk => s \notin disk'
  BY DiskSteps DEF MakeDirectory, Settled
<1>3. QED
  BY <1>1, <1>2

(* A record stays, and until its scope is settled only its own guardian writes it *)
LEMMA RecordStays ==
  ASSUME TypeOK, TypeOK', MemoryInv, [Next]_vars, NEW r \in Scopes
  PROVE  /\ journal[r] # None => journal'[r] # None
         /\ ~Settled(r) => journal'[r] = journal[r] \/ WriteRecord(r) \/ Identify(r)
<1> USE NoneAssumption
<1>1. mem'[r] \in Records /\ \A g \in Scopes : mem[g] \in Records /\ Pending(mem[g]) \in Records
  BY DEF TypeOK, GuardsOK, Pending, InState, Records
<1>2. ASSUME NEW g \in Scopes, Works(g) PROVE Settled(subject[g])
  BY <1>2 DEF Works, Begin, Store, Note, MemoryInv, Serving, Finishing
<1>3. QED
  BY <1>1, <1>2, RecordSteps DEF TypeOK

-----------------------------------------------------------------------------
(* The parts of the invariant *)

(* A guardian that is still registering is the only writer of its record and the only
   maker of its directory *)
LEMMA RegisterInductive ==
  ASSUME TypeOK, TypeOK', RegisterInv, MemoryInv, ClientInv, [Next]_vars
  PROVE  RegisterInv'
<1> SUFFICES ASSUME NEW s \in Scopes
    PROVE /\ pc'[s] \in Own => subject'[s] = s
          /\ pc'[s] \in {"write", "mkdir", "identify"} => mem'[s] = Fresh
          /\ ~Settled(s)' /\ pc'[s] \notin {"mkdir", "identify"} => journal'[s] = None
          /\ pc'[s] \in {"mkdir", "identify"} => journal'[s] = Fresh
          /\ pc'[s] = "mkdir" => s \notin disk'
          /\ journal'[s] = None => s \notin disk'
          /\ \A r \in todo'[s] : journal'[r] # None
  BY DEF RegisterInv
<1>1. \A r \in Scopes : journal[r] # None => journal'[r] # None
  BY RecordStays
<1>2. ~Settled(s) => journal'[s] = journal[s] \/ WriteRecord(s) \/ Identify(s)
  BY RecordStays
<1>3. journal[s] = None => s \notin disk
  BY DEF RegisterInv
<1>4. MakeDirectory(s) => journal[s] # None
  <2>1. Fresh \in Records
    BY DEF Fresh, Records, Evidence
  <2>2. QED
    BY <2>1, NoneAssumption DEF MakeDirectory, RegisterInv
<1>5. journal'[s] = None => s \notin disk'
  BY <1>1, <1>3, <1>4, DiskSteps
<1>6. \A r \in todo'[s] : journal'[r] # None
  <2>1. \A r \in todo[s] : r \in Scopes /\ journal[r] # None
    BY DEF RegisterInv, TypeOK, GuardsOK
  <2>2. CASE Register(s)
    BY <1>1, <2>2 DEF Register, TypeOK, GuardsOK
  <2>3. CASE todo'[s] \subseteq todo[s]
    BY <1>1, <2>1, <2>3
  <2>4. ASSUME Guardian(s), ~Register(s) PROVE todo'[s] \subseteq todo[s]
    BY <2>4 DEF Guardian, Visit, Reconciled, WriteRecord, MakeDirectory, Identify,
       Announce, Command, InputEnds, Begin, Look, RemoveDirectory, Store, Note, Retry, Answer,
       TypeOK, GuardsOK
  <2>5. Same(s) \/ GuardianKilled(s) \/ Start(s) => todo'[s] \subseteq todo[s]
    BY DEF Same, GuardianKilled, Start
  <2>6. QED
    BY <2>2, <2>3, <2>4, <2>5, GuardsApart DEF TypeOK
<1> DEFINE Goal == /\ pc'[s] \in Own => subject'[s] = s
                   /\ pc'[s] \in {"write", "mkdir", "identify"} => mem'[s] = Fresh
                   /\ ~Settled(s)' /\ pc'[s] \notin {"mkdir", "identify"} => journal'[s] = None
                   /\ pc'[s] \in {"mkdir", "identify"} => journal'[s] = Fresh
                   /\ pc'[s] = "mkdir" => s \notin disk'
<1>7. Goal
  <2> USE DEF Own, Early, Finishing, Ends, RegisterInv, Settled, TypeOK, GuardsOK, Goes
  <2>0. ASSUME WriteRecord(s) \/ Identify(s) PROVE pc[s] \in {"write", "identify"} /\ subject[s] = s
    BY <2>0 DEF WriteRecord, Identify
  <2>1. CASE Same(s)
    <3>1. ~WriteRecord(s) /\ ~Identify(s)
      BY <2>1 DEF Same, WriteRecord, Identify
    <3>2. pc[s] = "mkdir" => s \notin disk'
      BY <2>1, DiskSteps DEF MakeDirectory, Same
    <3>3. QED
      BY <2>1, <3>1, <3>2, <1>2 DEF Same
  <2>2. CASE GuardianKilled(s)
    BY <2>2 DEF GuardianKilled
  <2>3. CASE Register(s) \/ Start(s)
    <3>1. pc[s] \in {"none", "boot"} /\ journal' = journal
      BY <2>3 DEF Register, Start, ClientInv, diskVars
    <3>2. pc'[s] \in {"boot", "reconcile", "failed"}
      BY <2>3 DEF Register, Start
    <3>3. QED
      BY <3>1, <3>2
  <2>4. ASSUME NEW r \in Scopes, Visit(s, r) PROVE Goal
    <3>1. journal[s] = None /\ journal[r] # None /\ journal' = journal
      BY <2>4 DEF Visit, diskVars
    <3>2. QED
      BY <2>4, <3>1 DEF Visit
  <2>5. CASE Reconciled(s)
    BY <2>5 DEF Reconciled, diskVars
  <2>6. CASE WriteRecord(s)
    <3>1. CASE Written(s, mem[s]) /\ Goes(s, "mkdir")
      BY <2>6, <3>1, <1>3 DEF WriteRecord, Written, DiskOK
    <3>2. CASE Goes(s, "failed")
      BY <2>6, <3>2
    <3>3. QED
      BY <2>6, <3>1, <3>2 DEF WriteRecord
  <2>7. CASE MakeDirectory(s)
    BY <2>7 DEF MakeDirectory, Fault
  <2>8. CASE Identify(s)
    BY <2>8 DEF Identify
  <2>9. CASE Announce(s) \/ Answer(s)
    BY <2>9 DEF Announce, Answer, Says
  <2>10. CASE Command(s) \/ InputEnds(s) \/ Retry(s)
    BY <2>10 DEF Command, InputEnds, Retry
  <2>11. CASE Begin(s) \/ Look(s) \/ RemoveDirectory(s)
    <3>1. pc'[s] \in Finishing /\ subject'[s] = subject[s] /\ pc[s] \in Finishing
      BY <2>11 DEF Begin, Look, RemoveDirectory
    <3>2. QED
      BY <1>2, <2>0, <3>1
  <2>12. CASE Store(s) \/ Note(s)
    <3>1. CASE subject[s] = s
      BY <2>12, <3>1 DEF Store, Note, Succeeded, NotSucceeded
    <3>2. CASE subject[s] # s
      BY <1>2, <2>0, <2>12, <3>2 DEF Store, Note, Succeeded, NotSucceeded
    <3>3. QED
      BY <3>1, <3>2
  <2> HIDE DEF Goal
  <2>13. QED
    BY <2>1, <2>2, <2>3, <2>4, <2>5, <2>6, <2>7, <2>8, <2>9, <2>10, <2>11, <2>12, GuardsApart
       DEF Guardian
<1>8. QED
  BY <1>5, <1>6, <1>7

(* What is known of the directory r from m, a record of it in memory *)
Knows(r, m) ==
  /\ Settled(r)
  /\ journal[r] # None
  /\ m.scope_removed => r \notin disk
  /\ m.state = "closed" => m.scope_removed
  /\ m.state = "retained" => r \in Keep
  /\ m.evidence = "host_exit" => m.host_closed

(* What a guardian has read or concluded about a directory stays true while others work
   on the same one *)
LEMMA MemoryInductive ==
  ASSUME TypeOK, TypeOK', RegisterInv, MemoryInv, RecordInv, ClientInv, [Next]_vars
  PROVE  MemoryInv'
<1> DEFINE Goal(g) == pc'[g] \in Serving =>
             /\ Knows(subject[g], mem[g])'
             /\ pc'[g] \notin {"announce", "serve"} => mem'[g].evidence # "none"
<1> SUFFICES ASSUME NEW g \in Scopes PROVE Goal(g)
  BY DEF MemoryInv, Knows
<1>0. /\ subject[g] \in Scopes /\ mem[g] \in Records /\ mem'[g] \in Records
      /\ subject'[g] \in Scopes
  BY DEF TypeOK, GuardsOK
<1>1. pc[g] \in Serving =>
        /\ Knows(subject[g], mem[g])
        /\ pc[g] \notin {"announce", "serve"} => mem[g].evidence # "none"
  BY DEF MemoryInv, Knows
<1>2. pc[g] \in Serving /\ subject'[g] = subject[g] =>
        /\ Settled(subject[g])' /\ journal'[subject[g]] # None
        /\ subject[g] \notin disk => subject[g] \notin disk'
  <2>1. \A r \in Scopes : Settled(r) => Settled(r)' /\ (r \notin disk => r \notin disk')
    BY SettledStays DEF TypeOK
  <2>2. \A r \in Scopes : journal[r] # None => journal'[r] # None
    BY RecordStays
  <2>3. ASSUME subject'[g] = subject[g], NEW r \in Scopes, r = subject[g], Settled(r)'
        PROVE  Settled(subject[g])'
    BY <2>3
  <2>4. QED
    BY <1>0, <1>1, <2>1, <2>2, <2>3 DEF Knows
<1>3. ASSUME pc[g] \in Serving, subject'[g] = subject[g], mem'[g] = mem[g],
             mem[g].evidence # "none" \/ pc'[g] \in {"announce", "serve"} \/ pc'[g] \notin Serving
      PROVE  Goal(g)
  BY <1>1, <1>2, <1>3 DEF Knows
<1> USE DEF TypeOK, GuardsOK, Serving, Finishing, Goes, Ends
<1>4. CASE Same(g)
  BY <1>1, <1>3, <1>4 DEF Same
<1>5. CASE GuardianKilled(g) \/ Start(g) \/ Register(g) \/ Reconciled(g) \/ WriteRecord(g)
           \/ MakeDirectory(g)
  BY <1>5 DEF GuardianKilled, Start, Register, Reconciled, WriteRecord, MakeDirectory
<1>6. ASSUME NEW r \in Scopes, Visit(g, r) PROVE Goal(g)
  <2>1. CASE Abandoned(journal[r])
    <3>1. journal[r] # None /\ r \in Scopes
      BY <1>6 DEF Visit, RegisterInv
    <3>2. journal[r] \in Records
      BY <3>1 DEF DiskOK
    <3>3. Knows(r, journal[r]) /\ journal[r].evidence # "none"
      BY <2>1, <3>1, <3>2 DEF RecordInv, Knows, Abandoned, Parses
    <3>4. subject'[g] = r /\ mem'[g] = journal[r]
      BY <1>6, <2>1 DEF Visit
    <3>5. Settled(r)' /\ journal'[r] # None /\ (r \notin disk => r \notin disk')
      BY <3>3, RecordStays, SettledStays DEF Knows
    <3>6. QED
      BY <3>3, <3>4, <3>5 DEF Knows
  <2>2. CASE ~Abandoned(journal[r])
    BY <1>6, <2>2 DEF Visit
  <2>3. QED
    BY <2>1, <2>2
<1>7. CASE Identify(g)
  <2>1. subject[g] = g /\ mem[g] = Fresh /\ journal[g] # None
    <3>1. Fresh \in Records
      BY DEF Fresh, Records, Evidence
    <3>2. QED
      BY <1>7, <3>1, NoneAssumption DEF Identify, RegisterInv, Own
  <2>2. mem'[g] = WithIdentity(Fresh) /\ subject'[g] = g /\ pc'[g] \in {"announce", "failed"}
    BY <1>7, <2>1 DEF Identify
  <2>3. journal'[g] # None
    BY <2>1, RecordStays
  <2>4. pc'[g] = "announce" => Settled(g)'
    BY DEF Settled, Early
  <2>5. QED
    BY <2>2, <2>3, <2>4 DEF Knows, WithIdentity, Fresh
<1>8. CASE Announce(g)
  BY <1>3, <1>8 DEF Announce, Says
<1>9. CASE Command(g) \/ InputEnds(g)
  <2>1. /\ pc[g] = "serve" /\ subject'[g] = subject[g]
        /\ mem'[g] \in {Closing(mem[g]), HostGone(mem[g])}
    BY <1>9 DEF Command, InputEnds
  <2>2. QED
    BY <1>1, <1>2, <2>1 DEF Knows, Closing, HostGone
<1>10. CASE Begin(g)
  <2>1. pc[g] = "begin" /\ subject'[g] = subject[g]
    BY <1>10 DEF Begin
  <2>2. \/ mem'[g] = Pending(mem[g])
        \/ subject[g] \in Keep /\ mem'[g] = InState(mem[g], "retained", mem[g].scope_removed)
        \/ mem[g].scope_removed /\ mem'[g] = Closed(mem[g])
    BY <1>10 DEF Begin
  <2>3. QED
    BY <1>1, <1>2, <2>1, <2>2 DEF Knows, Pending, Closed, InState
<1>11. CASE Look(g) \/ RemoveDirectory(g)
  <2>1. pc[g] \in {"look", "rmdir"} /\ subject'[g] = subject[g]
    BY <1>11 DEF Look, RemoveDirectory
  <2>2. mem'[g] = mem[g] \/ (mem'[g] = Closed(mem[g]) /\ subject[g] \notin disk')
    BY <1>11 DEF Look, RemoveDirectory, diskVars
  <2>3. QED
    BY <1>1, <1>2, <1>3, <2>1, <2>2 DEF Knows, Closed, InState
<1>12. CASE Store(g) \/ Note(g)
  <2>1. pc[g] \in {"store", "note"} /\ subject'[g] = subject[g] /\ mem'[g] = mem[g]
    BY <1>12 DEF Store, Note
  <2>2. QED
    BY <1>1, <1>3, <2>1
<1>13. CASE Retry(g) \/ Answer(g)
  <2>1. /\ pc[g] \in {"retry", "receipt", "farewell"} /\ subject'[g] = subject[g]
        /\ mem'[g] = mem[g]
    BY <1>13 DEF Retry, Answer
  <2>2. QED
    BY <1>1, <1>3, <2>1
<1> HIDE DEF Goal, TypeOK, GuardsOK, Serving, Finishing, Goes, Ends
<1>14. QED
  BY <1>4, <1>5, <1>6, <1>7, <1>8, <1>9, <1>10, <1>11, <1>12, <1>13, GuardsApart
     DEF Guardian, TypeOK

(* A record never says more than is so: "removed" only of what is gone, "retained" only
   of what was to stay, an identity only after the directory was made *)
LEMMA RecordInductive ==
  ASSUME TypeOK, TypeOK', RegisterInv, MemoryInv, RecordInv, ClientInv, [Next]_vars
  PROVE  RecordInv'
<1> SUFFICES ASSUME NEW s \in Scopes, journal'[s] # None
             PROVE  /\ Parses(journal'[s])
                    /\ journal'[s].scope_removed => s \notin disk'
                    /\ journal'[s].state = "retained" => s \in Keep
                    /\ journal'[s].identity => Settled(s)'
  BY DEF RecordInv, Parses
<1>1. Parses(journal'[s])
  BY DEF TypeOK, DiskOK, Parses
<1>2. CASE journal'[s] = journal[s]
  <2>1. journal[s].scope_removed => s \notin disk'
    <3>1. MakeDirectory(s) => journal[s] = Fresh
      BY DEF MakeDirectory, RegisterInv
    <3>2. QED
      BY <1>2, <3>1, DiskSteps DEF RecordInv, Fresh
  <2>2. journal[s].identity => Settled(s)'
    BY <1>2, SettledStays DEF RecordInv, TypeOK
  <2>3. QED
    BY <1>1, <1>2, <2>1, <2>2 DEF RecordInv
<1>3. CASE (WriteRecord(s) \/ Identify(s)) /\ journal'[s] = mem'[s]
  <2>1. mem[s] = Fresh
    BY <1>3 DEF WriteRecord, Identify, RegisterInv
  <2>2. \/ mem'[s] = Fresh
        \/ mem'[s] = WithIdentity(Fresh) /\ pc'[s] \in {"announce", "failed"}
    BY <1>3, <2>1 DEF WriteRecord, Identify, TypeOK, GuardsOK, Goes
  <2>3. pc'[s] \in {"announce", "failed"} => Settled(s)'
    BY DEF Settled, Early, Finishing
  <2>4. QED
    BY <1>1, <1>3, <2>2, <2>3 DEF Fresh, WithIdentity
<1>4. ASSUME NEW g \in Scopes, Works(g), subject[g] = s,
             journal'[s] \in {mem[g], Pending(mem[g])}
      PROVE  /\ journal'[s].scope_removed => s \notin disk'
             /\ journal'[s].state = "retained" => s \in Keep
             /\ journal'[s].identity => Settled(s)'
  <2>1. pc[g] \in Serving
    BY <1>4 DEF Works, Begin, Store, Note, Serving, Finishing
  <2>2. /\ Settled(s) /\ (mem[g].scope_removed => s \notin disk)
        /\ (mem[g].state = "retained" => s \in Keep)
    BY <1>4, <2>1 DEF MemoryInv
  <2>3. Settled(s)' /\ (s \notin disk => s \notin disk')
    BY <2>2, SettledStays DEF TypeOK
  <2>4. QED
    BY <1>4, <2>2, <2>3 DEF Pending, InState
<1>5. QED
  BY <1>1, <1>2, <1>3, <1>4, RecordSteps DEF TypeOK

-----------------------------------------------------------------------------
(* What the client can conclude *)

(* A receipt in the lengthened output is an old one or the new one *)
LEMMA AmongAppend ==
  ASSUME NEW S, NEW receipts \in Seq(S), NEW x, NEW y \in S,
         Among(x, Append(receipts, y))
  PROVE  Among(x, receipts) \/ x = y
<1>1. PICK k \in 1 .. Len(Append(receipts, y)) : Append(receipts, y)[k] = x
  BY DEF Among
<1>2. CASE k <= Len(receipts)
  BY <1>1, <1>2 DEF Among
<1>3. CASE k = Len(receipts) + 1
  BY <1>1, <1>3
<1>4. QED
  BY <1>1, <1>2, <1>3

(* The first receipt is among the receipts, and what is left were receipts before *)
LEMMA AmongTail ==
  ASSUME NEW S, NEW receipts \in Seq(S), receipts # <<>>
  PROVE  /\ Among(Head(receipts), receipts)
         /\ \A x : Among(x, Tail(receipts)) => Among(x, receipts)
<1>1. Among(Head(receipts), receipts)
  BY DEF Among
<1>2. ASSUME NEW x, NEW k \in 1 .. Len(Tail(receipts)), Tail(receipts)[k] = x
      PROVE  Among(x, receipts)
  <2>1. k + 1 \in 1 .. Len(receipts) /\ receipts[k + 1] = x
    BY <1>2
  <2>2. QED
    BY <2>1 DEF Among
<1>3. QED
  BY <1>1, <1>2 DEF Among

SameClient(s) == call'[s] = call[s] /\ started'[s] = started[s] /\ exited'[s] = exited[s]
                 /\ ended'[s] = ended[s]

(* A client's state is its own *)
LEMMA ClientsApart ==
  ASSUME ClientOK, [Next]_vars, NEW s \in Scopes
  PROVE  SameClient(s) \/ Client(s)
<1> USE DEF ClientOK, SameClient
<1>1. ASSUME UNCHANGED clientVars PROVE SameClient(s)
  BY <1>1 DEF clientVars
<1>2. ASSUME NEW r \in Scopes, r # s, Client(r) PROVE SameClient(s)
  BY <1>2 DEF Client, Start, SpawnFails, Receive, TimeOut, InputBreaks, SeeExit, CloseAlone, Close,
     Becomes
<1>3. ASSUME NEW r \in Scopes, Guardian(r) \/ GuardianKilled(r) PROVE SameClient(s)
  BY <1>1, <1>3 DEF Guardian, Register, Visit, Reconciled, WriteRecord, MakeDirectory, Identify,
     Announce, Command, InputEnds, Begin, Look, RemoveDirectory, Store, Note, Retry, Answer,
     GuardianKilled, Idly
<1>4. ASSUME NEW h \in Hosts, HostDies(h) PROVE SameClient(s)
  BY <1>1, <1>4 DEF HostDies
<1>5. CASE UNCHANGED vars
  BY <1>1, <1>5 DEF vars
<1> HIDE DEF ClientOK, SameClient
<1>6. QED
  BY <1>2, <1>3, <1>4, <1>5 DEF Next

(* Who puts receipts into the pipe, and who takes them out *)
LEMMA ReceiptSteps ==
  ASSUME PipesOK, [Next]_vars, NEW s \in Scopes
  PROVE  \/ outbox'[s] = outbox[s]
         \/ Receive(s) /\ outbox[s] # <<>> /\ outbox'[s] = Tail(outbox[s])
         \/ Announce(s) /\ outbox'[s] = Append(outbox[s], "ready")
         \/ Answer(s) /\ outbox'[s] = Append(outbox[s], mem[s].state)
<1>1. ASSUME UNCHANGED outbox PROVE outbox'[s] = outbox[s]
  BY <1>1
<1>2. ASSUME NEW r \in Scopes, Receive(r)
      PROVE  outbox'[s] = outbox[s] \/ (r = s /\ outbox[s] # <<>> /\ outbox'[s] = Tail(outbox[s]))
  BY <1>2 DEF Receive, PipesOK
<1>3. ASSUME NEW r \in Scopes, NEW state, NEW next, Says(r, state, next)
      PROVE  outbox'[s] = outbox[s] \/ (r = s /\ outbox'[s] = Append(outbox[s], state))
  BY <1>3 DEF Says, PipesOK
<1>4. ASSUME NEW r \in Scopes, Announce(r)
      PROVE  outbox'[s] = outbox[s] \/ (r = s /\ outbox'[s] = Append(outbox[s], "ready"))
  BY <1>3, <1>4 DEF Announce
<1>5. ASSUME NEW r \in Scopes, Answer(r)
      PROVE  outbox'[s] = outbox[s] \/ (r = s /\ outbox'[s] = Append(outbox[s], mem[s].state))
  BY <1>3, <1>5 DEF Answer
<1>6. ASSUME NEW r \in Scopes,
             \/ Start(r) \/ SpawnFails(r) \/ TimeOut(r) \/ InputBreaks(r) \/ SeeExit(r)
             \/ CloseAlone(r) \/ Close(r) \/ GuardianKilled(r)
             \/ Register(r) \/ (\E q \in Scopes : Visit(r, q)) \/ Reconciled(r) \/ WriteRecord(r)
             \/ MakeDirectory(r) \/ Identify(r) \/ Command(r) \/ InputEnds(r) \/ Begin(r)
             \/ Look(r) \/ RemoveDirectory(r) \/ Store(r) \/ Note(r) \/ Retry(r)
      PROVE  outbox'[s] = outbox[s]
  BY <1>1, <1>6 DEF Start, SpawnFails, TimeOut, InputBreaks, SeeExit, CloseAlone, Close,
     GuardianKilled, Register, Visit, Reconciled, WriteRecord, MakeDirectory, Identify, Command,
     InputEnds, Begin, Look, RemoveDirectory, Store, Note, Retry, Idly, pipeVars
<1>7. ASSUME NEW h \in Hosts, HostDies(h) PROVE outbox'[s] = outbox[s]
  BY <1>1, <1>7 DEF HostDies, pipeVars
<1>8. CASE UNCHANGED vars
  BY <1>1, <1>8 DEF vars, pipeVars
<1>9. QED
  BY <1>2, <1>4, <1>5, <1>6, <1>7, <1>8 DEF Next, Client, Guardian

(* What the client takes from its receipts, from the guardian's exit and from the disk
   is so, however late a receipt is read *)
LEMMA ClientInductive ==
  ASSUME TypeOK, TypeOK', RegisterInv, MemoryInv, RecordInv, ClientInv, [Next]_vars
  PROVE  ClientInv'
<1> DEFINE Gone(s) == Settled(s) /\ (s \notin disk \/ s \in Keep)
           Final(s) == Among("closed", outbox[s]) \/ Among("retained", outbox[s])
<1> SUFFICES ASSUME NEW s \in Scopes
             PROVE  /\ exited'[s] => pc'[s] \in Ends
                    /\ ~started'[s] => pc'[s] = "none"
                    /\ call'[s] = "new" => ~started'[s]
                    /\ call'[s] = "leaving" \/ Final(s)' => Gone(s)'
                    /\ call'[s] = "released" => /\ Settled(s)' \/ pc'[s] = "none"
                                                /\ s \notin disk' \/ s \in Keep
  BY DEF ClientInv
<1>0. outbox[s] \in Seq({"ready", "pending", "closed", "retained"})
      /\ mem[s].state \in {"ready", "pending", "closed", "retained"}
  BY DEF TypeOK, PipesOK, GuardsOK, Records
<1>1. Gone(s) => Gone(s)'
  BY SettledStays DEF TypeOK
<1>2. pc[s] \in Ends => pc'[s] = pc[s]
  BY GuardsApart DEF TypeOK, Same, GuardianKilled, Start, ClientInv, Guardian, Register, Visit,
     Reconciled, WriteRecord, MakeDirectory, Identify, Announce, Command, InputEnds, Begin, Look,
     RemoveDirectory, Store, Note, Retry, Answer, Ends
<1>3. pc[s] = "none" => pc'[s] = "none" \/ Start(s)
  BY GuardsApart DEF TypeOK, Same, GuardianKilled, Guardian, Register, Visit,
     Reconciled, WriteRecord, MakeDirectory, Identify, Announce, Command, InputEnds, Begin, Look,
     RemoveDirectory, Store, Note, Retry, Answer
<1>4. exited'[s] => pc'[s] \in Ends
  <2>1. exited'[s] => exited[s] \/ pc[s] \in Ends
    BY ClientsApart DEF SameClient, TypeOK, ClientOK, Client, Start, SpawnFails, Receive, TimeOut,
       InputBreaks, SeeExit, CloseAlone, Close
  <2>2. QED
    BY <1>2, <2>1 DEF ClientInv
<1>5. started'[s] = started[s] \/ Start(s)
  BY ClientsApart DEF SameClient, TypeOK, ClientOK, Client, SpawnFails, Receive, TimeOut,
     InputBreaks, SeeExit, CloseAlone, Close
<1>6. Start(s) => started'[s] /\ call'[s] = "starting"
  BY DEF Start, Becomes, TypeOK, ClientOK
<1>7. ~started'[s] => pc'[s] = "none"
  BY <1>3, <1>5, <1>6 DEF ClientInv
<1>8. call'[s] = "new" => call[s] = "new"
  BY ClientsApart DEF SameClient, TypeOK, ClientOK, Client, Start, SpawnFails, Receive, TimeOut,
     InputBreaks, SeeExit, CloseAlone, Close, Becomes
<1>9. call'[s] = "new" => ~started'[s]
  BY <1>5, <1>6, <1>8 DEF ClientInv
<1>10. Final(s)' => Gone(s)'
  <2>1. CASE outbox'[s] = outbox[s]
    BY <1>1, <2>1 DEF ClientInv
  <2>2. CASE outbox[s] # <<>> /\ outbox'[s] = Tail(outbox[s])
    BY <1>0, <1>1, <2>2, AmongTail DEF ClientInv
  <2>3. CASE outbox'[s] = Append(outbox[s], "ready")
    BY <1>0, <1>1, <2>3, AmongAppend DEF ClientInv
  <2>4. CASE Answer(s) /\ outbox'[s] = Append(outbox[s], mem[s].state)
    <3>1. subject[s] = s /\ pc[s] \in Serving
      BY <2>4 DEF Answer, RegisterInv, Own, Serving
    <3>2. mem[s].state \in {"closed", "retained"} => Gone(s)
      BY <3>1 DEF MemoryInv
    <3>3. Final(s)' => Final(s) \/ mem[s].state \in {"closed", "retained"}
      BY <1>0, <2>4, AmongAppend
    <3>4. QED
      BY <1>1, <3>2, <3>3 DEF ClientInv
  <2>5. QED
    BY <2>1, <2>2, <2>3, <2>4, ReceiptSteps DEF TypeOK
<1>11. call'[s] = "leaving" => Gone(s)'
  <2>1. CASE call[s] = "leaving"
    BY <1>1, <2>1 DEF ClientInv
  <2>2. CASE Receive(s) /\ Head(outbox[s]) \in {"closed", "retained"}
    <3>1. outbox[s] # <<>>
      BY <2>2 DEF Receive
    <3>2. Final(s)
      BY <1>0, <2>2, <3>1, AmongTail
    <3>3. QED
      BY <1>1, <3>2 DEF ClientInv
  <2>3. ASSUME call'[s] = "leaving", call[s] # "leaving"
        PROVE  Receive(s) /\ Head(outbox[s]) \in {"closed", "retained"}
    <3>1. Client(s)
      BY <2>3, ClientsApart DEF SameClient, TypeOK
    <3>2. ~(Start(s) \/ SpawnFails(s) \/ TimeOut(s) \/ InputBreaks(s))
      BY <2>3 DEF Start, SpawnFails, TimeOut, InputBreaks, Becomes, TypeOK, ClientOK
    <3>3. ~SeeExit(s)
      BY <2>3 DEF SeeExit, TypeOK, ClientOK
    <3>4. ~(CloseAlone(s) \/ Close(s))
      BY <2>3 DEF CloseAlone, Close, Becomes, TypeOK, ClientOK
    <3>5. QED
      BY <2>3, <3>1, <3>2, <3>3, <3>4 DEF Client, Receive, TypeOK, ClientOK
  <2>4. QED
    BY <2>1, <2>2, <2>3
<1>12. call'[s] = "released" => /\ Settled(s)' \/ pc'[s] = "none"
                                /\ s \notin disk' \/ s \in Keep
  <2>0. pc[s] = "none" /\ ~Start(s) => s \notin disk' /\ pc'[s] = "none"
    <3>1. pc[s] = "none" => s \notin disk
      BY DEF RegisterInv, Settled, Early
    <3>2. QED
      BY <1>3, <3>1, DiskSteps DEF MakeDirectory
  <2>1. CASE call[s] = "released"
    <3>1. ~Start(s)
      BY <2>1 DEF Start
    <3>2. QED
      BY <1>1, <2>0, <2>1, <3>1 DEF ClientInv
  <2>2. CASE SeeExit(s) /\ call[s] = "leaving"
    BY <1>1, <2>2 DEF ClientInv
  <2>3. CASE CloseAlone(s) /\ (NothingLeft(s) \/ (started[s] /\ RecordSettles(s)))
    <3>1. Settled(s) \/ pc[s] = "none"
      BY <2>3 DEF CloseAlone, ClientInv, Settled, Ends, Early, Finishing
    <3>2. s \notin disk \/ s \in Keep
      BY <2>3 DEF NothingLeft, RecordSettles, RecordInv
    <3>3. CASE pc[s] = "none"
      <4>1. pc' = pc /\ disk' = disk
        BY <2>3 DEF CloseAlone, guardVars, diskVars
      <4>2. QED
        BY <3>2, <3>3, <4>1
    <3>4. QED
      BY <1>1, <3>1, <3>2, <3>3
  <2>4. ASSUME call'[s] = "released", call[s] # "released"
        PROVE  \/ SeeExit(s) /\ call[s] = "leaving"
               \/ CloseAlone(s) /\ (NothingLeft(s) \/ (started[s] /\ RecordSettles(s)))
    <3>1. Client(s)
      BY <2>4, ClientsApart DEF SameClient, TypeOK
    <3>2. ~(Start(s) \/ SpawnFails(s) \/ TimeOut(s) \/ InputBreaks(s))
      BY <2>4 DEF Start, SpawnFails, TimeOut, InputBreaks, Becomes, TypeOK, ClientOK
    <3>3. ~(Receive(s) \/ Close(s))
      BY <2>4 DEF Receive, Close, Becomes, TypeOK, ClientOK
    <3>4. SeeExit(s) => call[s] = "leaving"
      BY <2>4 DEF SeeExit, TypeOK, ClientOK
    <3>5. CloseAlone(s) => NothingLeft(s) \/ (started[s] /\ RecordSettles(s))
      BY <2>4 DEF CloseAlone, Becomes, TypeOK, ClientOK
    <3>6. QED
      BY <3>1, <3>2, <3>3, <3>4, <3>5 DEF Client
  <2>5. QED
    BY <2>1, <2>2, <2>3, <2>4
<1>13. QED
  BY <1>4, <1>7, <1>9, <1>10, <1>11, <1>12

-----------------------------------------------------------------------------
(* What nobody does to a directory in use *)

(* A host does not come back, and a client that asked for the end does not go back to *)
(* holding the directory                                                             *)
LEMMA UntouchedBefore ==
  ASSUME TypeOK, [Next]_vars, NEW s \in Scopes, Untouched(s)'
  PROVE  /\ Untouched(s)
         /\ call'[s] = "held" => call[s] = "held" \/ (Receive(s) /\ Head(outbox[s]) = "ready")
         /\ ended'[s] = ended[s]
         /\ ~Close(s)
<1> USE DEF TypeOK, ClientOK
<1>1. alive' \subseteq alive
  <2>1. ASSUME NEW r \in Scopes, Client(r) \/ Guardian(r) \/ GuardianKilled(r) PROVE alive' = alive
    BY <2>1 DEF Client, Start, SpawnFails, Receive, TimeOut, InputBreaks, SeeExit, CloseAlone, Close,
       Guardian, Register, Visit, Reconciled, WriteRecord, MakeDirectory, Identify, Announce,
       Command, InputEnds, Begin, Look, RemoveDirectory, Store, Note, Retry, Answer,
       GuardianKilled, Idly
  <2>2. QED
    BY <2>1 DEF Next, HostDies, vars
<1>2. HasHost(s)
  BY <1>1 DEF Untouched, HasHost
<1>3. call'[s] \in {"new", "starting", "held"}
  BY DEF Untouched
<1>4. CASE SameClient(s) /\ ~Client(s)
  <2>1. ~Close(s)
    BY <1>4 DEF Client
  <2>2. call'[s] = call[s] /\ ended'[s] = ended[s]
    BY <1>4 DEF SameClient
  <2>3. QED
    BY <1>2, <1>3, <2>1, <2>2 DEF Untouched
<1>5. CASE Start(s) \/ SpawnFails(s) \/ TimeOut(s) \/ InputBreaks(s)
  <2>1. /\ call[s] \in {"new", "starting", "held"}
        /\ call'[s] = "held" => call[s] = "held"
        /\ ended'[s] = ended[s]
    BY <1>3, <1>5 DEF Start, SpawnFails, TimeOut, InputBreaks, Becomes
  <2>2. ~Close(s)
    BY <1>3 DEF Close, Becomes
  <2>3. QED
    BY <1>2, <2>1, <2>2 DEF Untouched
<1>6. CASE SeeExit(s) \/ CloseAlone(s) \/ Close(s)
  <2>1. call'[s] = call[s] /\ ended'[s] = ended[s]
    BY <1>3, <1>6 DEF SeeExit, CloseAlone, Close, Becomes
  <2>2. ~Close(s)
    BY <1>3 DEF Close, Becomes
  <2>3. QED
    BY <1>2, <1>3, <2>1, <2>2 DEF Untouched
<1>7. CASE Receive(s)
  <2>1. /\ call[s] \in {"new", "starting", "held"}
        /\ call'[s] = "held" => call[s] = "held" \/ Head(outbox[s]) = "ready"
        /\ ended'[s] = ended[s]
    BY <1>3, <1>7 DEF Receive, Becomes
  <2>2. ~Close(s)
    BY <1>3 DEF Close, Becomes
  <2>3. QED
    BY <1>2, <1>7, <2>1, <2>2 DEF Untouched
<1>8. QED
  BY <1>4, <1>5, <1>6, <1>7, ClientsApart DEF Client

(* Who fills and who empties the input *)
LEMMA InputSteps ==
  ASSUME PipesOK, [Next]_vars, NEW s \in Scopes
  PROVE  \/ inbox'[s] = inbox[s]
         \/ InputBreaks(s) \/ Command(s)
         \/ Close(s)
<1>1. ASSUME UNCHANGED inbox PROVE inbox'[s] = inbox[s]
  BY <1>1
<1>2. ASSUME NEW r \in Scopes, r # s, InputBreaks(r) \/ Command(r) \/ Close(r)
      PROVE  inbox'[s] = inbox[s]
  BY <1>2 DEF InputBreaks, Command, Close, PipesOK
<1>3. ASSUME NEW r \in Scopes,
             \/ Start(r) \/ SpawnFails(r) \/ Receive(r) \/ TimeOut(r) \/ SeeExit(r)
             \/ CloseAlone(r) \/ GuardianKilled(r)
             \/ Register(r) \/ (\E q \in Scopes : Visit(r, q)) \/ Reconciled(r) \/ WriteRecord(r)
             \/ MakeDirectory(r) \/ Identify(r) \/ Announce(r) \/ InputEnds(r) \/ Begin(r)
             \/ Look(r) \/ RemoveDirectory(r) \/ Store(r) \/ Note(r) \/ Retry(r) \/ Answer(r)
      PROVE  inbox'[s] = inbox[s]
  BY <1>1, <1>3 DEF Start, SpawnFails, Receive, TimeOut, SeeExit, CloseAlone, GuardianKilled,
     Register, Visit, Reconciled, WriteRecord, MakeDirectory, Identify, Announce, InputEnds, Begin,
     Look, RemoveDirectory, Store, Note, Retry, Answer, Idly, pipeVars
<1>4. ASSUME NEW h \in Hosts, HostDies(h) PROVE inbox'[s] = inbox[s]
  BY <1>1, <1>4 DEF HostDies, pipeVars
<1>5. CASE UNCHANGED vars
  BY <1>1, <1>5 DEF vars, pipeVars
<1>6. QED
  BY <1>2, <1>3, <1>4, <1>5 DEF Next, Client, Guardian

(* Without a command, and with the host there, no guardian works on the end of the *)
(* directory: not its own, and none that reconciles the journal                    *)
LEMMA HeldInductive ==
  ASSUME TypeOK, TypeOK', RegisterInv, MemoryInv, RecordInv, ClientInv, HeldInv, [Next]_vars
  PROVE  HeldInv'
<1> SUFFICES ASSUME NEW s \in Scopes, Untouched(s)'
    PROVE /\ ~ended'[s] /\ inbox'[s] = <<>>
          /\ pc'[s] \notin {"receipt", "farewell", "retry"}
          /\ \A g \in Scopes : pc'[g] \in Finishing => subject'[g] # s
          /\ journal'[s] # None => ~journal'[s].host_closed
          /\ pc'[s] \in {"identify", "announce", "serve"} => s \in disk'
          /\ Among("ready", outbox'[s]) => s \in disk'
          /\ call'[s] = "held" => s \in disk'
  BY DEF HeldInv
<1>1. /\ Untouched(s)
      /\ call'[s] = "held" => call[s] = "held" \/ (Receive(s) /\ Head(outbox[s]) = "ready")
      /\ ended'[s] = ended[s]
      /\ ~Close(s)
  BY UntouchedBefore
<1>2. /\ ~ended[s] /\ inbox[s] = <<>>
      /\ pc[s] \notin {"receipt", "farewell", "retry"}
      /\ \A g \in Scopes : pc[g] \in Finishing => subject[g] # s
      /\ journal[s] # None => ~journal[s].host_closed
      /\ pc[s] \in {"identify", "announce", "serve"} => s \in disk
      /\ Among("ready", outbox[s]) => s \in disk
      /\ call[s] = "held" => s \in disk
  BY <1>1 DEF HeldInv
<1>3. HasHost(s)
  BY <1>1 DEF Untouched
<1>4. ~Command(s) /\ ~InputEnds(s) /\ ~Retry(s) /\ ~Answer(s) /\ ~InputBreaks(s)
  BY <1>2, <1>3 DEF Command, InputEnds, Retry, Answer, InputBreaks
<1>5. ~ended'[s] /\ inbox'[s] = <<>>
  BY <1>1, <1>2, <1>4, InputSteps DEF TypeOK
<1>6. ASSUME NEW g \in Scopes, pc'[g] \in Finishing PROVE subject'[g] # s
  <2> USE DEF TypeOK, GuardsOK, Finishing, Goes
  <2>1. CASE Same(g)
    BY <1>2, <1>6, <2>1 DEF Same
  <2>2. CASE GuardianKilled(g) \/ Start(g) \/ Register(g) \/ Reconciled(g) \/ WriteRecord(g)
             \/ MakeDirectory(g) \/ Identify(g)
    BY <1>6, <2>2 DEF GuardianKilled, Start, Register, Reconciled, WriteRecord, MakeDirectory,
       Identify
  <2>3. ASSUME NEW r \in Scopes, Visit(g, r) PROVE subject'[g] # s
    <3>1. Abandoned(journal[r]) /\ subject'[g] = r
      BY <1>6, <2>3 DEF Visit
    <3>2. journal[r] # None
      BY <2>3 DEF Visit, RegisterInv
    <3>3. QED
      BY <1>2, <3>1, <3>2 DEF Abandoned
  <2>4. CASE Announce(g) \/ Answer(g)
    BY <1>6, <2>4 DEF Announce, Answer, Says
  <2>5. CASE Command(g) \/ InputEnds(g) \/ Retry(g)
    <3>1. subject[g] = g /\ subject'[g] = subject[g]
      BY <2>5 DEF Command, InputEnds, Retry, RegisterInv, Own
    <3>2. QED
      BY <1>4, <2>5, <3>1
  <2>6. CASE Begin(g) \/ Look(g) \/ RemoveDirectory(g) \/ Store(g) \/ Note(g)
    BY <1>2, <2>6 DEF Begin, Look, RemoveDirectory, Store, Note
  <2> HIDE DEF TypeOK, GuardsOK, Finishing, Goes
  <2>7. QED
    BY <2>1, <2>2, <2>3, <2>4, <2>5, <2>6, GuardsApart DEF Guardian, TypeOK
<1>7. s \in disk => s \in disk'
  BY <1>2, DiskSteps DEF RemoveDirectory, Finishing
<1>8. /\ pc'[s] \notin {"receipt", "farewell", "retry"}
      /\ pc'[s] \in {"identify", "announce", "serve"} => s \in disk'
  <2> USE DEF TypeOK, GuardsOK, Finishing, Goes
  <2>1. CASE Same(s)
    BY <1>2, <1>7, <2>1 DEF Same
  <2>2. CASE GuardianKilled(s) \/ Start(s) \/ Register(s) \/ (\E r \in Scopes : Visit(s, r))
             \/ Reconciled(s) \/ WriteRecord(s)
    BY <2>2 DEF GuardianKilled, Start, Register, Visit, Reconciled, WriteRecord
  <2>3. CASE MakeDirectory(s)
    BY <2>3 DEF MakeDirectory
  <2>4. CASE Identify(s) \/ Announce(s)
    BY <1>2, <1>7, <2>4 DEF Identify, Announce, Says
  <2>5. CASE Begin(s) \/ Look(s) \/ RemoveDirectory(s)
    BY <2>5 DEF Begin, Look, RemoveDirectory
  <2>6. CASE Store(s) \/ Note(s)
    BY <1>2, <2>6 DEF Store, Note, Succeeded, NotSucceeded
  <2> HIDE DEF TypeOK, GuardsOK, Finishing, Goes
  <2>7. QED
    BY <1>4, <2>1, <2>2, <2>3, <2>4, <2>5, <2>6, GuardsApart DEF Guardian, TypeOK
<1>9. journal'[s] # None => ~journal'[s].host_closed
  <2>1. CASE WriteRecord(s) \/ Identify(s)
    <3>1. mem'[s] \in {Fresh, WithIdentity(Fresh)}
      BY <2>1 DEF WriteRecord, Identify, RegisterInv, TypeOK, GuardsOK
    <3>2. journal'[s] = journal[s] \/ journal'[s] = mem'[s] \/ \E g \in Scopes : Works(g) /\ subject[g] = s
      BY RecordSteps DEF TypeOK
    <3>3. ~\E g \in Scopes : Works(g) /\ subject[g] = s
      BY <1>2 DEF Works, Begin, Store, Note, Finishing
    <3>4. QED
      BY <1>2, <3>1, <3>2, <3>3 DEF Fresh, WithIdentity
  <2>2. CASE journal'[s] = journal[s]
    BY <1>2, <2>2
  <2>3. ~\E g \in Scopes : Works(g) /\ subject[g] = s
    BY <1>2 DEF Works, Begin, Store, Note, Finishing
  <2>4. QED
    BY <2>1, <2>2, <2>3, RecordSteps DEF TypeOK
<1>10. Among("ready", outbox'[s]) => s \in disk'
  <2>0. outbox[s] \in Seq({"ready", "pending", "closed", "retained"})
    BY DEF TypeOK, PipesOK
  <2>1. CASE Announce(s)
    BY <1>2, <1>7, <2>1 DEF Announce
  <2>2. CASE outbox[s] # <<>> /\ outbox'[s] = Tail(outbox[s])
    BY <1>2, <1>7, <2>0, <2>2, AmongTail
  <2>3. CASE outbox'[s] = outbox[s]
    BY <1>2, <1>7, <2>3
  <2>4. QED
    BY <1>4, <2>1, <2>2, <2>3, ReceiptSteps DEF TypeOK
<1>11. call'[s] = "held" => s \in disk'
  <2>1. CASE Receive(s) /\ Head(outbox[s]) = "ready"
    <3>1. outbox[s] # <<>> /\ outbox[s] \in Seq({"ready", "pending", "closed", "retained"})
      BY <2>1 DEF Receive, TypeOK, PipesOK
    <3>2. Among("ready", outbox[s])
      BY <2>1, <3>1, AmongTail
    <3>3. QED
      BY <1>2, <1>7, <3>2
  <2>2. QED
    BY <1>1, <1>2, <1>7, <2>1
<1>12. QED
  BY <1>5, <1>6, <1>8, <1>9, <1>10, <1>11

-----------------------------------------------------------------------------
(* The inductive invariant *)
IInv == TypeOK /\ RegisterInv /\ MemoryInv /\ RecordInv /\ ClientInv /\ HeldInv

(* No guardian, no directory, no record: the start *)
LEMMA InitHolds == Init => IInv
<1> SUFFICES ASSUME Init PROVE IInv
  OBVIOUS
<1> USE ScopesAssumption DEF Init
<1>1. ClientOK
  BY DEF ClientOK, Calls
<1>2. PipesOK
  <2>1. <<>> \in Seq({"close"}) /\ <<>> \in Seq({"ready", "pending", "closed", "retained"})
    OBVIOUS
  <2>2. QED
    BY <2>1 DEF PipesOK
<1>3. GuardsOK
  <2>1. Fresh \in Records
    BY DEF Fresh, Records, Evidence
  <2>2. QED
    BY <2>1 DEF GuardsOK, Steps
<1>4. DiskOK
  BY DEF DiskOK
<1>5. RegisterInv
  BY DEF RegisterInv, Settled, Early, Own
<1>6. MemoryInv
  BY DEF MemoryInv, Serving, Finishing
<1>7. RecordInv
  BY DEF RecordInv
<1>8. ClientInv
  BY DEF ClientInv, Among
<1>9. HeldInv
  BY DEF HeldInv, Among, Finishing
<1>10. QED
  BY <1>1, <1>2, <1>3, <1>4, <1>5, <1>6, <1>7, <1>8, <1>9 DEF IInv, TypeOK

(* Whatever hosts, clients and guardians do in whatever order, and whichever of them  *)
(* die: each part of the invariant needs the others, so they are proved together.     *)
THEOREM Invariants == Spec => []IInv
<1>1. IInv /\ [Next]_vars => IInv'
  <2> SUFFICES ASSUME IInv, [Next]_vars PROVE IInv'
    OBVIOUS
  <2>1. TypeOK'
    BY TypeInductive DEF IInv
  <2>2. QED
    BY <2>1, RegisterInductive, MemoryInductive, RecordInductive, ClientInductive, HeldInductive
       DEF IInv
<1>2. QED
  BY <1>1, InitHolds, PTL DEF Spec

(* Every record on disk is one that the reader of the journal accepts (the record of    *)
(* a scope is written by its own guardian and by every guardian that reconciles it)     *)
THEOREM TypeInvariant == Spec => []TypeOK
<1>1. IInv => TypeOK
  BY DEF IInv
<1>2. QED
  BY <1>1, Invariants, PTL

(* A directory that start returned is there until its host dies or close is called;     *)
(* one that close gave up is gone or was to stay; and every directory on disk has a      *)
(* record by which the deletion of its session finds it                                *)
THEOREM GuardianIsSafe == Spec => []GuardianSafe
<1>1. IInv => GuardianSafe
  <2> SUFFICES ASSUME IInv PROVE GuardianSafe
    OBVIOUS
  <2>1. HeldPresent
    BY DEF IInv, HeldInv, Untouched, HeldPresent
  <2>2. ReleasedGone
    BY DEF IInv, ClientInv, ReleasedGone
  <2>3. DirectoryJournalled
    <3>1. SUFFICES ASSUME NEW s \in disk
          PROVE  /\ journal[s] # None
                 /\ journal[s].state = "pending" \/ (s \in Keep /\ journal[s].state = "retained")
      BY DEF DirectoryJournalled
    <3>2. s \in Scopes /\ journal[s] # None
      BY DEF IInv, TypeOK, DiskOK, RegisterInv
    <3>3. journal[s].state \in {"pending", "closed", "retained"}
      BY <3>2 DEF IInv, TypeOK, DiskOK, Records
    <3>4. journal[s].state # "closed"
      BY <3>2 DEF IInv, RecordInv, Parses
    <3>5. journal[s].state = "retained" => s \in Keep
      BY <3>2 DEF IInv, RecordInv
    <3>6. QED
      BY <3>2, <3>3, <3>4, <3>5
  <2>4. QED
    BY <2>1, <2>2, <2>3 DEF GuardianSafe
<1>2. QED
  BY <1>1, Invariants, PTL

=============================================================================
