---------------------------- MODULE ScratchGuardian ----------------------------
(***************************************************************************)
(* Scratch directories under guard                                         *)
(* (packages/harness/src/lib/storage/guardian-client.ts in the host,       *)
(* scratch-guardian-child.ts in a detached process of its own).  For each  *)
(* directory the host starts a guardian, which makes the directory, keeps  *)
(* a record of it in the session's journal, and removes it when the host   *)
(* says so or when the host is gone, which it learns from the end of its   *)
(* input. A guardian first finishes what earlier guardians of the journal  *)
(* left behind.                                                            *)
(*                                                                         *)
(* The host's client and the guardian exchange lines over two pipes; the   *)
(* client's requests time out and are repeated.  Guardians of one journal  *)
(* share only its files.  Hosts and guardians may be killed at any step,   *)
(* and writing a record or removing a directory may fail.                  *)
(***************************************************************************)
EXTENDS Integers, Sequences, FiniteSets

CONSTANTS
  Scopes,     \* directories asked for, each with its client, guardian and record
  Hosts,      \* host processes
  HostOf,     \* the host of each scope
  Keep,       \* scopes asked for with "retain", whose directory is to stay
  MaxCalls,   \* bound on calls of close that reach the guardian of each scope
  MaxFaults,  \* bound on failing disk operations
  None        \* absence of a record

ASSUME ScopesAssumption ==
  /\ HostOf \in [Scopes -> Hosts]
  /\ Keep \subseteq Scopes
  /\ MaxCalls \in [Scopes -> Nat]
  /\ MaxFaults \in Nat

Evidence == {"none", "controller_close", "host_exit"}

(* ScratchRecord: what is told apart of it *)
Records == [state : {"pending", "closed", "retained"}, host_closed : BOOLEAN,
            evidence : Evidence, identity : BOOLEAN, scope_removed : BOOLEAN]

ASSUME NoneAssumption == None \notin Records

VARIABLES
  (* host *)
  alive,      \* hosts that have not died
  call,       \* where the client of each scope is
  started,    \* the guardian's process was created
  granted,    \* a "ready" receipt has arrived
  failure,    \* the client's failure is set
  exited,     \* the client has seen its guardian exit
  ended,      \* the client has ended the guardian's input
  calls,      \* calls of close that reached the guardian
  (* pipes *)
  inbox,      \* commands on their way to the guardian
  outbox,     \* receipts on their way to the client
  (* guardian *)
  pc,         \* the next step of each guardian
  todo,       \* journal entries it has yet to reconcile
  subject,    \* the scope whose record it works on
  mem,        \* that record, in its memory
  (* disk *)
  journal,    \* the record of each scope, or None
  disk,       \* scopes whose directory exists
  faults      \* disk operations that failed

clientVars == <<call, started, granted, failure, exited, ended, calls>>
pipeVars == <<inbox, outbox>>
guardVars == <<pc, todo, subject, mem>>
diskVars == <<journal, disk, faults>>
vars == <<alive, clientVars, pipeVars, guardVars, diskVars>>

Calls == {"new", "starting", "held", "idle", "closing", "leaving", "released"}

(* How a guardian ends: it did its work, could not register, lost its output,
   was killed, or gave up after retrying for DEATH_TIMEOUT_MS *)
Ends == {"done", "failed", "hungup", "killed", "gaveup"}
Finishing == {"begin", "look", "rmdir", "store", "note"}
Steps == {"none", "boot", "reconcile", "write", "mkdir", "identify", "announce", "serve",
          "receipt", "farewell", "retry"} \cup Finishing \cup Ends

Fresh == [state |-> "pending", host_closed |-> FALSE, evidence |-> "none",
          identity |-> FALSE, scope_removed |-> FALSE]

Init ==
  /\ alive = Hosts
  /\ call = [s \in Scopes |-> "new"]
  /\ started = [s \in Scopes |-> FALSE]
  /\ granted = [s \in Scopes |-> FALSE]
  /\ failure = [s \in Scopes |-> FALSE]
  /\ exited = [s \in Scopes |-> FALSE]
  /\ ended = [s \in Scopes |-> FALSE]
  /\ calls = [s \in Scopes |-> 0]
  /\ inbox = [s \in Scopes |-> <<>>]
  /\ outbox = [s \in Scopes |-> <<>>]
  /\ pc = [s \in Scopes |-> "none"]
  /\ todo = [s \in Scopes |-> {}]
  /\ subject = [s \in Scopes |-> s]
  /\ mem = [s \in Scopes |-> Fresh]
  /\ journal = [s \in Scopes |-> None]
  /\ disk = {}
  /\ faults = 0

HasHost(s) == HostOf[s] \in alive

Goes(s, step) == pc' = [pc EXCEPT ![s] = step]
Becomes(s, phase) == call' = [call EXCEPT ![s] = phase]

-----------------------------------------------------------------------------
(* The client *)

(* launch: the guardian is spawned and its registration written *)
Start(s) ==
  /\ HasHost(s) /\ call[s] = "new"
  /\ Becomes(s, "starting")
  /\ started' = [started EXCEPT ![s] = TRUE]
  /\ Goes(s, "boot")
  /\ UNCHANGED <<alive, granted, failure, exited, ended, calls, pipeVars, todo, subject,
                 mem, diskVars>>

SpawnFails(s) ==
  /\ HasHost(s) /\ call[s] = "new"
  /\ Becomes(s, "idle")
  /\ failure' = [failure EXCEPT ![s] = TRUE]
  /\ UNCHANGED <<alive, started, granted, exited, ended, calls, pipeVars, guardVars,
                 diskVars>>

(* receive: a receipt settles the request that waits for one of its kind; an answer
   nobody waits for any more is dropped *)
Receive(s) ==
  /\ HasHost(s) /\ outbox[s] # <<>>
  /\ outbox' = [outbox EXCEPT ![s] = Tail(@)]
  /\ LET state == Head(outbox[s])
     IN  \/ /\ state = "ready"
            /\ granted' = [granted EXCEPT ![s] = TRUE]
            /\ call' = IF call[s] = "starting" THEN [call EXCEPT ![s] = "held"] ELSE call
            /\ UNCHANGED ended
         \/ /\ state = "pending"
            /\ call' = IF call[s] = "closing" THEN [call EXCEPT ![s] = "idle"] ELSE call
            /\ UNCHANGED <<granted, ended>>
         \/ /\ state \in {"closed", "retained"}
            /\ IF call[s] = "closing"
               THEN /\ Becomes(s, "leaving")
                    /\ ended' = [ended EXCEPT ![s] = TRUE]
               ELSE UNCHANGED <<call, ended>>
            /\ UNCHANGED granted
  /\ UNCHANGED <<alive, started, failure, exited, calls, inbox, guardVars, diskVars>>

(* REQUEST_TIMEOUT_MS for the grant, for a receipt, or for the guardian's exit *)
TimeOut(s) ==
  /\ HasHost(s) /\ call[s] \in {"starting", "closing", "leaving"}
  /\ Becomes(s, "idle")
  /\ UNCHANGED <<alive, started, granted, failure, exited, ended, calls, pipeVars,
                 guardVars, diskVars>>

(* A command written to a guardian that is gone *)
InputBreaks(s) ==
  /\ HasHost(s) /\ pc[s] \in Ends /\ inbox[s] # <<>>
  /\ inbox' = [inbox EXCEPT ![s] = <<>>]
  /\ failure' = [failure EXCEPT ![s] = TRUE]
  /\ call' = IF call[s] \in {"starting", "closing"} THEN [call EXCEPT ![s] = "idle"] ELSE call
  /\ UNCHANGED <<alive, started, granted, exited, ended, calls, outbox, guardVars, diskVars>>

(* The "close" event of the guardian's process, after all its output *)
SeeExit(s) ==
  /\ HasHost(s) /\ pc[s] \in Ends /\ ~exited[s] /\ outbox[s] = <<>>
  /\ exited' = [exited EXCEPT ![s] = TRUE]
  /\ failure' = [failure EXCEPT ![s] = TRUE]
  /\ call' = CASE call[s] \in {"starting", "closing"} -> [call EXCEPT ![s] = "idle"]
               [] call[s] = "leaving" -> [call EXCEPT ![s] = "released"]
               [] OTHER -> call
  /\ UNCHANGED <<alive, started, granted, ended, calls, pipeVars, guardVars, diskVars>>

(* What release concludes from the disk, without a guardian to ask *)
NothingLeft(s) == s \notin disk /\ journal[s] = None

(* Mutant of RecordSettles: any record of an exited guardian is good enough *)
RecordSettlesAny(s) == journal[s] # None

RecordSettles(s) ==
  /\ journal[s] # None
  /\ journal[s].state \in {"closed", "retained"}
  /\ journal[s].state = "closed" => s \notin disk

(* release, when there is no guardian or it has exited *)
CloseAlone(s) ==
  /\ HasHost(s) /\ call[s] \in {"new", "held", "idle"}
  /\ ~started[s] \/ exited[s]
  /\ Becomes(s, IF NothingLeft(s) \/ (started[s] /\ RecordSettles(s))
                THEN "released" ELSE "idle")
  /\ UNCHANGED <<alive, started, granted, failure, exited, ended, calls, pipeVars,
                 guardVars, diskVars>>

(* release, with a guardian: the command is written even if the wait was refused *)
Close(s) ==
  /\ HasHost(s) /\ call[s] \in {"held", "idle"}
  /\ started[s] /\ ~exited[s]
  /\ calls[s] < MaxCalls[s]
  /\ calls' = [calls EXCEPT ![s] = @ + 1]
  /\ \/ /\ ~ended[s]
        /\ Becomes(s, IF failure[s] THEN "idle" ELSE "closing")
        /\ inbox' = [inbox EXCEPT ![s] = Append(@, "close")]
        /\ UNCHANGED failure
     \/ /\ ended[s]       \* a write after the end of the input
        /\ Becomes(s, "idle")
        /\ failure' = [failure EXCEPT ![s] = TRUE]
        /\ UNCHANGED inbox
  /\ UNCHANGED <<alive, started, granted, exited, ended, outbox, guardVars, diskVars>>

HostDies(h) ==
  /\ h \in alive
  /\ alive' = alive \ {h}
  /\ UNCHANGED <<clientVars, pipeVars, guardVars, diskVars>>

-----------------------------------------------------------------------------
(* Records on disk.  A write is over, or fails before the new record is in place, or *)
(* fails after that, when its directory is synchronized.                            *)

Written(s, r) == journal' = [journal EXCEPT ![s] = r] /\ UNCHANGED <<disk, faults>>

WriteFault(s, r) ==
  /\ faults < MaxFaults
  /\ faults' = faults + 1
  /\ \/ UNCHANGED journal
     \/ journal' = [journal EXCEPT ![s] = r]
  /\ UNCHANGED disk

Fault ==
  /\ faults < MaxFaults
  /\ faults' = faults + 1
  /\ UNCHANGED <<journal, disk>>

Idly(s) == UNCHANGED <<alive, clientVars, pipeVars>>

-----------------------------------------------------------------------------
(* The guardian: registration *)

(* parse_registration: the host must still be there *)
Register(s) ==
  /\ pc[s] = "boot"
  /\ \/ HasHost(s) /\ Goes(s, "reconcile")
     \/ Goes(s, "failed")     \* the host died, or REGISTRATION_TIMEOUT_MS passed
  /\ todo' = [todo EXCEPT ![s] = {r \in Scopes : journal[r] # None}]
  /\ UNCHANGED <<subject, mem, diskVars>> /\ Idly(s)

(* reconcile: records that an earlier guardian left pending after its host was gone *)
Abandoned(r) ==
  /\ r.state = "pending"
  /\ r.host_closed
  /\ r.evidence # "none"
  /\ r.identity

Visit(s, r) ==
  /\ pc[s] = "reconcile" /\ r \in todo[s]
  /\ todo' = [todo EXCEPT ![s] = @ \ {r}]
  /\ IF Abandoned(journal[r])
     THEN /\ subject' = [subject EXCEPT ![s] = r]
          /\ mem' = [mem EXCEPT ![s] = journal[r]]
          /\ Goes(s, "begin")
     ELSE UNCHANGED <<subject, mem, pc>>
  /\ UNCHANGED diskVars /\ Idly(s)

Reconciled(s) ==
  /\ pc[s] = "reconcile" /\ todo[s] = {}
  /\ subject' = [subject EXCEPT ![s] = s]
  /\ mem' = [mem EXCEPT ![s] = Fresh]
  /\ Goes(s, "write")
  /\ UNCHANGED <<todo, diskVars>> /\ Idly(s)

WriteRecord(s) ==
  /\ pc[s] = "write"
  /\ \/ Written(s, mem[s]) /\ Goes(s, "mkdir")
     \/ WriteFault(s, mem[s]) /\ Goes(s, "failed")
  /\ UNCHANGED <<todo, subject, mem>> /\ Idly(s)

MakeDirectory(s) ==
  /\ pc[s] = "mkdir"
  /\ \/ disk' = disk \cup {s} /\ UNCHANGED <<journal, faults>> /\ Goes(s, "identify")
     \/ Fault /\ Goes(s, "failed")
  /\ UNCHANGED <<todo, subject, mem>> /\ Idly(s)

WithIdentity(r) == [state |-> r.state, host_closed |-> r.host_closed,
                    evidence |-> r.evidence, identity |-> TRUE,
                    scope_removed |-> r.scope_removed]

Identify(s) ==
  /\ pc[s] = "identify"
  /\ mem' = [mem EXCEPT ![s] = WithIdentity(@)]
  /\ \/ Written(s, WithIdentity(mem[s])) /\ Goes(s, "announce")
     \/ WriteFault(s, WithIdentity(mem[s])) /\ Goes(s, "failed")
  /\ UNCHANGED <<todo, subject>> /\ Idly(s)

(* A line of output.  Without a reader the process exits, whatever it was to do next *)
Says(s, state, next) ==
  \/ /\ HasHost(s)
     /\ outbox' = [outbox EXCEPT ![s] = Append(@, state)]
     /\ Goes(s, next)
  \/ /\ ~HasHost(s)
     /\ UNCHANGED outbox
     /\ Goes(s, "hungup")

Announce(s) ==
  /\ pc[s] = "announce"
  /\ Says(s, "ready", "serve")
  /\ UNCHANGED <<alive, clientVars, inbox, todo, subject, mem, diskVars>>

-----------------------------------------------------------------------------
(* The guardian: service *)

Closing(r) == [state |-> r.state, host_closed |-> r.host_closed,
               evidence |-> "controller_close", identity |-> r.identity,
               scope_removed |-> r.scope_removed]

(* Mutant of HostGone: the evidence without the fact *)
HostGoneUnsaid(r) == [state |-> r.state, host_closed |-> r.host_closed,
                      evidence |-> "host_exit", identity |-> r.identity,
                      scope_removed |-> r.scope_removed]

HostGone(r) == [state |-> r.state, host_closed |-> TRUE, evidence |-> "host_exit",
                identity |-> r.identity, scope_removed |-> r.scope_removed]

Command(s) ==
  /\ pc[s] = "serve" /\ inbox[s] # <<>>
  /\ inbox' = [inbox EXCEPT ![s] = Tail(@)]
  /\ mem' = [mem EXCEPT ![s] = Closing(@)]
  /\ Goes(s, "begin")
  /\ UNCHANGED <<alive, clientVars, outbox, todo, subject, diskVars>>

(* Mutant of InputEnds: the guardian leaves with its host *)
InputEndsTheGuardian(s) ==
  /\ pc[s] = "serve" /\ inbox[s] = <<>>
  /\ ended[s] \/ ~HasHost(s)
  /\ Goes(s, "done")
  /\ UNCHANGED <<todo, subject, mem, diskVars>> /\ Idly(s)

(* The input is at its end: host_exited *)
InputEnds(s) ==
  /\ pc[s] = "serve" /\ inbox[s] = <<>>
  /\ ended[s] \/ ~HasHost(s)
  /\ mem' = [mem EXCEPT ![s] = HostGone(@)]
  /\ Goes(s, "begin")
  /\ UNCHANGED <<todo, subject, diskVars>> /\ Idly(s)

-----------------------------------------------------------------------------
(* finish_record, on the guardian's own record or on one it reconciles *)

InState(r, state, removed) == [state |-> state, host_closed |-> r.host_closed,
                               evidence |-> r.evidence, identity |-> r.identity,
                               scope_removed |-> removed]

Pending(r) == InState(r, "pending", r.scope_removed)
Closed(r) == InState(r, "closed", TRUE)

Begin(s) ==
  /\ pc[s] = "begin"
  /\ \/ /\ Written(subject[s], Pending(mem[s]))
        /\ \/ /\ subject[s] \in Keep
              /\ mem' = [mem EXCEPT ![s] = InState(@, "retained", @.scope_removed)]
              /\ Goes(s, "store")
           \/ /\ subject[s] \notin Keep /\ mem[s].scope_removed
              /\ mem' = [mem EXCEPT ![s] = Closed(@)]
              /\ Goes(s, "store")
           \/ /\ subject[s] \notin Keep /\ ~mem[s].scope_removed
              /\ mem' = [mem EXCEPT ![s] = Pending(@)]
              /\ Goes(s, "look")
     \/ /\ WriteFault(subject[s], Pending(mem[s]))
        /\ mem' = [mem EXCEPT ![s] = Pending(@)]
        /\ Goes(s, "note")
  /\ UNCHANGED <<todo, subject>> /\ Idly(s)

(* remove_scratch_scope: a directory that is missing is removed; one that goes missing
   under its hands is an error *)
Look(s) ==
  /\ pc[s] = "look"
  /\ \/ /\ subject[s] \notin disk
        /\ mem' = [mem EXCEPT ![s] = Closed(@)]
        /\ Goes(s, "store")
     \/ /\ subject[s] \in disk
        /\ Goes(s, "rmdir")
        /\ UNCHANGED mem
  /\ UNCHANGED <<todo, subject, diskVars>> /\ Idly(s)

RemoveDirectory(s) ==
  /\ pc[s] = "rmdir"
  /\ \/ /\ subject[s] \in disk
        /\ disk' = disk \ {subject[s]}
        /\ mem' = [mem EXCEPT ![s] = Closed(@)]
        /\ Goes(s, "store")
        /\ UNCHANGED <<journal, faults>>
     \/ /\ subject[s] \notin disk
        /\ Goes(s, "note")
        /\ UNCHANGED <<mem, diskVars>>
     \/ /\ faults < MaxFaults
        /\ faults' = faults + 1
        /\ disk' \in {disk, disk \ {subject[s]}}   \* or its parent is not synchronized
        /\ Goes(s, "note")
        /\ UNCHANGED <<mem, journal>>
  /\ UNCHANGED <<todo, subject>> /\ Idly(s)

(* After finish_record: on with the journal, an answer, the end, or another try *)
Succeeded(s) ==
  CASE subject[s] # s -> "reconcile"
    [] subject[s] = s /\ mem[s].evidence = "host_exit" -> "done"
    [] OTHER -> "farewell"

NotSucceeded(s) ==
  CASE subject[s] # s -> "reconcile"
    [] subject[s] = s /\ mem[s].evidence = "host_exit" -> "retry"
    [] OTHER -> "receipt"

Store(s) ==
  /\ pc[s] = "store"
  /\ \/ Written(subject[s], mem[s]) /\ Goes(s, Succeeded(s))
     \/ WriteFault(subject[s], mem[s]) /\ Goes(s, "note")
  /\ UNCHANGED <<todo, subject, mem>> /\ Idly(s)

(* The error is recorded if it can be *)
Note(s) ==
  /\ pc[s] = "note"
  /\ Written(subject[s], mem[s]) \/ WriteFault(subject[s], mem[s])
  /\ Goes(s, NotSucceeded(s))
  /\ UNCHANGED <<todo, subject, mem>> /\ Idly(s)

Retry(s) ==
  /\ pc[s] = "retry"
  /\ Goes(s, "begin") \/ Goes(s, "gaveup")
  /\ UNCHANGED <<todo, subject, mem, diskVars>> /\ Idly(s)

Answer(s) ==
  /\ \/ pc[s] = "receipt" /\ Says(s, mem[s].state, "serve")
     \/ pc[s] = "farewell" /\ Says(s, mem[s].state, "done")
  /\ UNCHANGED <<alive, clientVars, inbox, todo, subject, mem, diskVars>>

GuardianKilled(s) ==
  /\ pc[s] \notin Ends \cup {"none"}
  /\ Goes(s, "killed")
  /\ UNCHANGED <<todo, subject, mem, diskVars>> /\ Idly(s)

-----------------------------------------------------------------------------
Client(s) ==
  \/ Start(s) \/ SpawnFails(s) \/ Receive(s) \/ TimeOut(s) \/ InputBreaks(s) \/ SeeExit(s)
  \/ CloseAlone(s) \/ Close(s)

Guardian(s) ==
  \/ Register(s)
  \/ \E r \in Scopes : Visit(s, r)
  \/ Reconciled(s) \/ WriteRecord(s) \/ MakeDirectory(s) \/ Identify(s) \/ Announce(s)
  \/ Command(s) \/ InputEnds(s)
  \/ Begin(s) \/ Look(s) \/ RemoveDirectory(s) \/ Store(s) \/ Note(s) \/ Retry(s)
  \/ Answer(s)

Next ==
  \/ \E s \in Scopes : Client(s) \/ Guardian(s) \/ GuardianKilled(s)
  \/ \E h \in Hosts : HostDies(h)

(* A process that is not killed goes on *)
Spec == Init /\ [][Next]_vars /\ \A s \in Scopes : WF_vars(Guardian(s))

-----------------------------------------------------------------------------
(* Properties *)

(* A record that parse_scratch_record accepts *)
Parses(r) ==
  /\ r.evidence = "host_exit" => r.host_closed
  /\ r.state # "pending" => r.evidence # "none"
  /\ r.state = "closed" => r.scope_removed

ClientOK ==
  /\ alive \subseteq Hosts
  /\ call \in [Scopes -> Calls]
  /\ started \in [Scopes -> BOOLEAN]
  /\ granted \in [Scopes -> BOOLEAN]
  /\ failure \in [Scopes -> BOOLEAN]
  /\ exited \in [Scopes -> BOOLEAN]
  /\ ended \in [Scopes -> BOOLEAN]
  /\ calls \in [Scopes -> Nat] /\ \A s \in Scopes : calls[s] <= MaxCalls[s]

PipesOK ==
  /\ inbox \in [Scopes -> Seq({"close"})]
  /\ outbox \in [Scopes -> Seq({"ready", "pending", "closed", "retained"})]

GuardsOK ==
  /\ pc \in [Scopes -> Steps]
  /\ todo \in [Scopes -> SUBSET Scopes]
  /\ subject \in [Scopes -> Scopes]
  /\ mem \in [Scopes -> Records]

DiskOK ==
  /\ journal \in [Scopes -> Records \cup {None}]
  /\ \A s \in Scopes : journal[s] # None => Parses(journal[s])
  /\ disk \subseteq Scopes
  /\ faults \in 0 .. MaxFaults

(* Types; and every record on disk parses, whichever guardians write it in turns *)
TypeOK == ClientOK /\ PipesOK /\ GuardsOK /\ DiskOK

(* start has returned a directory and close was not called: the directory is there, as
   long as the host lives, whichever guardian was killed and whatever another guardian
   of the journal reconciles *)
HeldPresent ==
  \A s \in Scopes : call[s] = "held" /\ HasHost(s) => s \in disk

(* close has succeeded: the directory is gone, or was to stay.  No late or repeated
   receipt, no record of a guardian that died, can say otherwise.  (The record itself may
   still be pending: a receipt that says "closed" or "retained" with an error, because
   the record could not be written, is as good as one without.) *)
ReleasedGone ==
  \A s \in Scopes : call[s] = "released" => s \notin disk \/ s \in Keep

(* A directory on disk is in the journal, as pending unless it was to stay: the
   session's deletion, which looks in the journal, does not miss one *)
DirectoryJournalled ==
  \A s \in disk :
    /\ journal[s] # None
    /\ journal[s].state = "pending" \/ (s \in Keep /\ journal[s].state = "retained")

(* The three of them: what a host sees of its directory, and what a later deletion of the
   session sees *)
GuardianSafe == HeldPresent /\ ReleasedGone /\ DirectoryJournalled

(* A host that dies while it holds a directory has it removed, unless the guardian is
   killed too or retries in vain for DEATH_TIMEOUT_MS *)
HeldIsSwept ==
  \A s \in Scopes \ Keep :
    (call[s] = "held" /\ ~HasHost(s)) ~> (s \notin disk \/ pc[s] \in {"killed", "gaveup"})

=============================================================================
