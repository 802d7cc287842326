------------------------------ MODULE CostTree ------------------------------
(***************************************************************************)
(* What a tree of agents has cost (cost-tree/index.ts, cost-tree/socket.ts,*)
(* lib/cost-ledger.ts, lib/cost-accounting.ts).  A process keeps a ledger  *)
(* of what its subagents cost, saved in its session, and reports it with   *)
(* what it spent itself to the process above it.  Reports are repeated     *)
(* until they are acknowledged, may come late or twice, and are merged     *)
(* account by account, the larger number winning.                          *)
(*                                                                         *)
(* Here one process after another opens the sessions, above them is one    *)
(* reader, and below them one subagent.  Each answer of a model costs one. *)
(***************************************************************************)
EXTENDS Integers, Sequences, FiniteSets, FiniteSetsExt

CONSTANTS
  Sessions,      \* ids of sessions
  Runs,          \* run ids (CPI_COST_RUN_ID) that processes are started with
  Sub,           \* the run id of the subagent, not one of Runs
  Old,           \* one of Sessions, there before accounting, with one answer
  MaxAnswers,    \* bound on answers of the sessions
  MaxUsed,       \* bound on answers of the subagent; 0: there is none
  MaxForks,      \* bound on copies of sessions
  MaxStarts,     \* bound on session_start events
  MaxFaults,     \* bound on timeouts, failed writes and crashes
  None           \* no run, no session, nothing sent

VARIABLES
  (* sessions, on disk *)
  log,        \* of each the answers and owner entries, in order
  costs,      \* of each the accounts of its cost entries, merged
  (* the process *)
  phase,      \* "down", "up", "leaving", "flushed" (all three with a session) or
              \* "between" two sessions
  at, runId,  \* its session and its run
  reason,     \* of the session_shutdown: "reload" or "other"
  ledgers,    \* the ledgers made so far: [session, accounts, append]
  ledger,     \* the global one
  lastSent, pending,  \* the report acknowledged last, and the one that is not yet
  (* the subagent *)
  sub,        \* "none", "running" or "over"
  captured,   \* the ledger that its observation captured, and the cost socket it reports to
  open,       \* whether that socket is
  used, subSent, subPending, subMail,  \* what it used, and its reports
  (* above *)
  up, mail,   \* the accounts there, and the reports on their way
  (* for the properties *)
  by,         \* the run and the session that each answer was made in, in order
  sessionOf,  \* the session of each run
  starts, forks, faults

diskVars == <<log, costs>>
processVars == <<phase, at, runId, reason, ledgers, ledger>>
sendVars == <<lastSent, pending>>
subVars == <<sub, captured, open, used, subSent, subPending, subMail>>
upVars == <<up, mail>>
countVars == <<by, sessionOf, starts, forks, faults>>
vars == <<diskVars, processVars, sendVars, subVars, upVars, countVars>>

-----------------------------------------------------------------------------
(* Accounts: functions from account ids to what was used; a unit is one of an account *)

NoAccounts == [i \in {} |-> 0]
RunId(r) == <<"run", r>>
SessionId(s) == <<"session", s>>
AnswerId(m) == <<"message", m>>
Account(i, n) == [j \in {i} |-> n]
Used(a, i) == IF i \in DOMAIN a THEN a[i] ELSE 0
Units(a) == UNION {{i} \X (1 .. a[i]) : i \in DOMAIN a}
Total(a) == Cardinality(Units(a))

(* What is reported is added to what there is *)
MergeAdds(a, b) ==
  [i \in DOMAIN a \cup DOMAIN b |-> Used(a, i) + Used(b, i)]

(* mergeAccounts: of two numbers the larger one *)
Merge(a, b) ==
  [i \in DOMAIN a \cup DOMAIN b |-> Max({Used(a, i), Used(b, i)})]

Owner(i, s) == [type |-> "owner", id |-> i, session |-> s]
Answer(m) == [type |-> "message", id |-> AnswerId(m)]
OwnId(s, r) == IF r = None THEN SessionId(s) ELSE RunId(r)

(* ownAccounts: an answer is charged to the run that owned the session then, or to itself.
   The answers of other sessions and, in a run, of other owners or none are left out *)
Owners(s) == {k \in DOMAIN log[s] : log[s][k].type = "owner"}
Ours(s, r) ==
  {k \in Owners(s) : log[s][k].session = s /\ (r # None => log[s][k].id = RunId(r))}
Own(s, r) ==
  LET before(k) == {j \in Owners(s) : j < k}
      counted == {k \in DOMAIN log[s] \ Owners(s) :
                    IF before(k) = {} THEN r = None ELSE Max(before(k)) \in Ours(s, r)}
      charged == [k \in counted |->
                    IF before(k) # {} /\ log[s][Max(before(k))].id[1] = "run"
                    THEN log[s][Max(before(k))].id ELSE log[s][k].id]
  IN [i \in {log[s][k].id : k \in Ours(s, r)} \cup {charged[k] : k \in counted}
            \cup {OwnId(s, r)} |-> Cardinality({k \in counted : charged[k] = i})]

(* report *)
Report == Merge(ledgers[ledger].accounts, Own(at, runId))

-----------------------------------------------------------------------------
Init ==
  /\ log = [s \in Sessions |-> IF s = Old THEN <<Answer(1)>> ELSE <<>>]
  /\ costs = [s \in Sessions |-> NoAccounts]
  /\ phase = "down" /\ at = None /\ runId = None /\ reason = "other"
  /\ ledgers = <<>> /\ ledger = 0
  /\ lastSent = None /\ pending = None
  /\ sub = "none" /\ captured = 0 /\ open = FALSE
  /\ used = 0 /\ subSent = 0 /\ subPending = 0 /\ subMail = {}
  /\ up = NoAccounts /\ mail = {}
  /\ by = <<[run |-> None, session |-> Old]>> /\ sessionOf = [r \in Runs |-> None]
  /\ starts = 0 /\ forks = 0 /\ faults = 0

Fault == faults < MaxFaults /\ faults' = faults + 1

-----------------------------------------------------------------------------
(* Sessions *)

(* The owner entry of a session_start, unless the last one names the same owner *)
Owned(s, r) ==
  IF Owners(s) # {} /\ log[s][Max(Owners(s))].id = OwnId(s, r) THEN log
  ELSE [log EXCEPT ![s] = Append(@, Owner(OwnId(s, r), s))]

(* bindCostLedger: the ledger there is goes on only in its own session *)
Bind(s) ==
  LET before == [k \in DOMAIN ledgers |-> IF k = ledger THEN [ledgers[k] EXCEPT !.append = FALSE]
                                          ELSE ledgers[k]]
      bound == [session |-> s, accounts |-> costs[s], append |-> TRUE]
  IN IF ledger # 0 /\ ledgers[ledger].session = s
     THEN ledgers' = [before EXCEPT ![ledger] = bound] /\ ledger' = ledger
     ELSE ledgers' = Append(before, bound) /\ ledger' = Len(ledgers) + 1

(* session_start, in a new process or after a session_shutdown; a run keeps its session *)
SessionStart(s, r) ==
  /\ starts < MaxStarts /\ starts' = starts + 1
  /\ \/ phase = "down"
     \/ phase = "between" /\ r = runId /\ (r = None \/ s = at)
  /\ phase = "between" /\ reason = "reload" => s = at
  /\ r # None => sessionOf[r] \in {None, s}
  /\ phase' = "up" /\ at' = s /\ runId' = r
  /\ Bind(s)
  /\ log' = Owned(s, r)
  /\ lastSent' = None
  /\ sessionOf' = IF r = None THEN sessionOf ELSE [sessionOf EXCEPT ![r] = s]
  /\ UNCHANGED <<costs, reason, pending, subVars, upVars, by, forks, faults>>

(* An assistant's message *)
Answers ==
  /\ phase = "up" /\ Len(by) < MaxAnswers
  /\ log' = [log EXCEPT ![at] = Append(@, Answer(Len(by) + 1))]
  /\ by' = Append(by, [run |-> runId, session |-> at])
  /\ UNCHANGED <<costs, processVars, sendVars, subVars, upVars, sessionOf, starts, forks,
                 faults>>

(* A fork, or the copy a probe works in: a session begins with another's first entries, the
   cost entries among them *)
Fork(s, t) ==
  /\ forks < MaxForks /\ forks' = forks + 1
  /\ log[t] = <<>> /\ log[s] # <<>>
  /\ \E n \in 1 .. Len(log[s]) : log' = [log EXCEPT ![t] = SubSeq(log[s], 1, n)]
  /\ costs' \in {costs, [costs EXCEPT ![t] = costs[s]]}
  /\ UNCHANGED <<processVars, sendVars, subVars, upVars, by, sessionOf, starts, faults>>

-----------------------------------------------------------------------------
(* Reports to the process above *)

(* A report counts as sent once it is on its way *)
FlushHopes ==
  /\ pending = None /\ Report # lastSent
  /\ pending' = Report /\ mail' = mail \cup {Report} /\ lastSent' = Report

(* flush *)
Flush ==
  /\ pending = None /\ Report # lastSent
  /\ pending' = Report /\ mail' = mail \cup {Report} /\ UNCHANGED lastSent

(* Every second, and at the end of a prompt *)
Tick ==
  /\ phase = "up" /\ Flush
  /\ UNCHANGED <<diskVars, processVars, subVars, up, countVars>>

(* It arrives, and is acknowledged if the sender still waits *)
Deliver(report) ==
  /\ report \in mail
  /\ mail' = mail \ {report}
  /\ up' = Merge(up, report)
  /\ IF pending = report THEN lastSent' = report /\ pending' = None
     ELSE UNCHANGED <<lastSent, pending>>
  /\ UNCHANGED <<diskVars, processVars, subVars, countVars>>

(* sendCostReport has waited a second; what it sent is lost, or comes late *)
TimesOut ==
  /\ pending # None /\ Fault
  /\ pending' = None /\ mail' \in {mail, mail \ {pending}}
  /\ UNCHANGED <<diskVars, processVars, lastSent, subVars, up, by, sessionOf, starts, forks>>

(* session_shutdown: what is under way is awaited, a last report is sent *)
Shutdown(why) ==
  /\ phase = "up"
  /\ phase' = "leaving" /\ reason' = why
  /\ UNCHANGED <<diskVars, at, runId, ledgers, ledger, sendVars, subVars, upVars,
                 countVars>>

LastFlush ==
  /\ phase = "leaving" /\ pending = None
  /\ phase' = "flushed"
  /\ \/ Flush
     \/ Report = lastSent /\ UNCHANGED <<sendVars, mail>>
  /\ UNCHANGED <<diskVars, at, runId, reason, ledgers, ledger, subVars, up, countVars>>

(* and awaited; the socket is closed, except for a reload, and the ledger let go *)
Unbind ==
  /\ phase = "flushed" /\ pending = None
  /\ phase' = "between"
  /\ open' = (open /\ reason = "reload")
  /\ ledgers' = [ledgers EXCEPT ![ledger].append = FALSE]
  /\ UNCHANGED <<diskVars, at, runId, reason, ledger, sendVars, sub, captured, used, subSent,
                 subPending, subMail, upVars, countVars>>

(* The process ends, or dies; its subagent with it *)
Down ==
  /\ phase' = "down" /\ at' = None /\ runId' = None /\ reason' = "other"
  /\ ledgers' = <<>> /\ ledger' = 0 /\ open' = FALSE
  /\ lastSent' = None /\ pending' = None
  /\ sub' = IF sub = "running" THEN "over" ELSE sub
  /\ captured' = 0 /\ subPending' = 0 /\ subMail' = {}
  /\ UNCHANGED <<diskVars, used, subSent, upVars, by, sessionOf, starts, forks>>

Exit == phase = "between" /\ reason = "other" /\ Down /\ UNCHANGED faults
Crash == phase # "down" /\ Down /\ Fault

-----------------------------------------------------------------------------
(* The subagent: it reports over the socket, and its worker's events tell of the same *)

(* The observation captures the ledger, and the worker the socket *)
Spawn ==
  /\ phase = "up" /\ sub = "none" /\ MaxUsed > 0
  /\ sub' = "running" /\ captured' = ledger /\ open' = TRUE
  /\ UNCHANGED <<diskVars, processVars, sendVars, used, subSent, subPending, subMail, upVars,
                 countVars>>

Uses ==
  /\ sub = "running" /\ used < MaxUsed
  /\ used' = used + 1
  /\ UNCHANGED <<diskVars, processVars, sendVars, sub, captured, open, subSent, subPending, subMail,
                 upVars, countVars>>

(* record, by the ledger that was captured *)
CanRecord == ledgers[captured].append
Record(n) ==
  LET next == Merge(ledgers[captured].accounts, Account(RunId(Sub), n)) IN
  IF next = ledgers[captured].accounts THEN UNCHANGED <<ledgers, costs>>
  ELSE /\ ledgers' = [ledgers EXCEPT ![captured].accounts = next]
       /\ costs' = [costs EXCEPT ![at] = Merge(@, Account(RunId(Sub), next[RunId(Sub)]))]

(* A usage event of the worker, of now or of before *)
Observe(n) ==
  /\ sub = "running" /\ n \in 0 .. used /\ CanRecord
  /\ Record(n)
  /\ UNCHANGED <<log, phase, at, runId, reason, ledger, sendVars, subVars, upVars,
                 countVars>>

SubFlush ==
  /\ sub = "running" /\ subPending = 0 /\ used # subSent
  /\ subPending' = used /\ subMail' = subMail \cup {used}
  /\ UNCHANGED <<diskVars, processVars, sendVars, sub, captured, open, used, subSent, upVars,
                 countVars>>

(* Its report arrives: recorded and acknowledged *)
Receive(n) ==
  /\ n \in subMail /\ open /\ CanRecord
  /\ Record(n)
  /\ subMail' = subMail \ {n}
  /\ IF subPending = n THEN subSent' = n /\ subPending' = 0
     ELSE UNCHANGED <<subSent, subPending>>
  /\ UNCHANGED <<log, phase, at, runId, reason, ledger, sendVars, sub, captured, open, used,
                 upVars, countVars>>

(* or refused: the socket is closed or its ledger let go, or the entry cannot be written *)
Refuse(n) ==
  /\ n \in subMail
  /\ IF open /\ CanRecord THEN Fault ELSE UNCHANGED faults
  /\ subMail' = subMail \ {n}
  /\ subPending' = IF subPending = n THEN 0 ELSE subPending
  /\ UNCHANGED <<diskVars, processVars, sendVars, sub, captured, open, used, subSent, upVars, by,
                 sessionOf, starts, forks>>

SubTimesOut ==
  /\ subPending # 0 /\ Fault
  /\ subPending' = 0 /\ subMail' \in {subMail, subMail \ {subPending}}
  /\ UNCHANGED <<diskVars, processVars, sendVars, sub, captured, open, used, subSent, upVars, by,
                 sessionOf, starts, forks>>

-----------------------------------------------------------------------------
Next ==
  \/ \E s \in Sessions, r \in Runs \cup {None} : SessionStart(s, r)
  \/ \E s, t \in Sessions : Fork(s, t)
  \/ \E why \in {"reload", "other"} : Shutdown(why)
  \/ Answers \/ Tick \/ TimesOut \/ LastFlush \/ Unbind \/ Exit \/ Crash
  \/ \E report \in mail : Deliver(report)
  \/ Spawn \/ Uses \/ SubFlush \/ SubTimesOut
  \/ \E n \in 0 .. MaxUsed : Observe(n) \/ Receive(n) \/ Refuse(n)

(* The interval of a second, and a process above that reads what it is sent *)
Arrives == \E report \in mail : Deliver(report)
Fairness == WF_vars(Tick) /\ WF_vars(Arrives)
Spec == Init /\ [][Next]_vars /\ Fairness

-----------------------------------------------------------------------------
(* Types.  Only the global ledger writes *)
Ids == {RunId(r) : r \in Runs \cup {Sub}} \cup {SessionId(s) : s \in Sessions}
         \cup {AnswerId(m) : m \in 1 .. MaxAnswers}
TypeOK ==
  /\ phase \in {"down", "up", "leaving", "flushed", "between"}
  /\ at \in Sessions \cup {None} /\ runId \in Runs \cup {None}
  /\ ledger \in 0 .. Len(ledgers) /\ captured \in 0 .. Len(ledgers)
  /\ \A k \in DOMAIN ledgers : ledgers[k].append => k = ledger
  /\ (ledger # 0 /\ ledgers[ledger].append) = (phase \in {"up", "leaving", "flushed"})
  /\ \A s \in Sessions : DOMAIN costs[s] \subseteq Ids
  /\ DOMAIN up \subseteq Ids /\ \A i \in DOMAIN up : up[i] \in Nat
  /\ subSent \in 0 .. used /\ subPending \in 0 .. used

(* The ledger is what the session would be opened with: a restart neither forgets what was
   counted nor counts what was not *)
LedgerIsSaved ==
  phase \in {"up", "leaving", "flushed"} =>
    ledgers[ledger].session = at /\ ledgers[ledger].accounts = costs[at]

(* What a subagent was told is counted is saved in the session it ran for, and stays there *)
AcknowledgedIsSaved ==
  subSent > 0 => \E s \in Sessions : Used(costs[s], RunId(Sub)) >= subSent

(* However often and late reports come, and whatever sessions are forked, resumed and
   reloaded, the process above counts nothing that was not spent, and nothing twice *)
CountedOnce == Total(up) <= Len(by) + used

(* A run counts the answers that were made in it, in each process it had, and none that its
   session had before, or got in another run.  An agent without a run counts what was spent
   in its session, and what had no owner there *)
CountsItsOwn ==
  LET mine == IF runId # None THEN {m \in DOMAIN by : by[m].run = runId}
              ELSE {m \in DOMAIN by : \/ by[m].session = at
                                      \/ m = 1 /\ log[at][1] = Answer(1)}
  IN phase = "up" => Total(Own(at, runId)) = Cardinality(mine)

AllArrived == Merge(up, Report) = up

(* As long as a session goes on and the process above answers, time and again everything that
   is counted here is counted there *)
CostsArrive == phase = "up" ~> phase # "up" \/ AllArrived

=============================================================================
