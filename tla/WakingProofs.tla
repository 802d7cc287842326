---------------------------- MODULE WakingProofs ----------------------------
(***************************************************************************)
(* Proofs about what wakes an idle agent: BackgroundShells, for any set of *)
(* shells and any number of crashes, quits and reloads, and Alarms, for    *)
(* any names, times and numbers of operations.                             *)
(***************************************************************************)
EXTENDS SessionProofs

-----------------------------------------------------------------------------
(* Background shells                                                         *)

Final == {"ended", "lost"}

(* A shell in one of these states has no record yet *)
Unrecorded == {"none", "launched"}

ShellTyped ==
  /\ process \in [BgShells -> {"none", "launched", "running", "exited", "gone"}]
  /\ shellPhase \in {"off", "surfacing", "resuming", "ready", "reloading"}
  /\ via \in {"start", "reload"}
  /\ todo \subseteq BgShells /\ unwritten \subseteq BgShells
  /\ file \in [BgShells -> Bg!Records] /\ cache \in [BgShells -> Bg!Records]
  /\ fore \subseteq BgShells /\ bg \subseteq BgShells /\ silenced \subseteq bg
  /\ steer \in [BgShells -> Nat] /\ before \in [BgShells -> 0 .. 1] /\ told \in [BgShells -> Nat]
  /\ interrupted \subseteq BgShells /\ returned \subseteq BgShells
  /\ leaves \in [crashes : Nat, leaves : Nat, reloads : Nat]

(* What is in memory is in the session file, except what waits for the end of a reload:
   the ends of shells that were running when it began *)
RecordInv ==
  /\ shellPhase # "off" => \A s \in BgShells \ unwritten : cache[s] = file[s]
  /\ shellPhase = "off" => \A s \in BgShells : cache[s] = file[s] \/ cache[s] = Bg!NoRecord
  /\ unwritten # {} => shellPhase = "reloading"
  /\ \A s \in unwritten : file[s].status = "running" /\ cache[s].status \in Final
  /\ \A s \in BgShells : process[s] \in Unrecorded => file[s] = Bg!NoRecord

(* What is followed, or will be, has run and was not given up *)
EntryInv ==
  /\ fore # {} => shellPhase = "ready"
  /\ bg # {} => shellPhase \notin {"off", "surfacing"}
  /\ todo # {} => shellPhase \in {"surfacing", "resuming"}
  /\ fore \cap bg = {}
  /\ \A s \in fore : cache[s].status = "running" /\ ~cache[s].suppressed
  /\ \A s \in bg \cup todo : cache[s].status \in Final \cup {"running"}
  /\ \A s \in silenced : cache[s].suppressed
  /\ shellPhase = "surfacing" => \A s \in todo : cache[s].status = "running"

Reason(s, record) ==
  record.acked => \/ told[s] > 0 \/ s \in interrupted \cup returned
                  \/ record.suppressed \/ record.status = "detached"

(* Notices are about ends that are recorded *)
NoticeInv ==
  /\ \A s \in BgShells : told[s] > 0 \/ before[s] > 0 => file[s].status \in Final
  /\ \A s \in BgShells : steer[s] > 0 => /\ shellPhase \notin {"off", "surfacing"}
                                         /\ cache[s].status \in Final
  /\ \A s \in returned : /\ told[s] = 0 /\ steer[s] = 0 /\ before[s] = 0
                         /\ file[s].status \in Final /\ file[s].acked
                         /\ s \notin fore \cup bg \cup todo
  /\ \A s \in BgShells : Reason(s, file[s]) /\ Reason(s, cache[s])

(* Before any reload *)
QuietInv ==
  leaves.reloads = 0 =>
    /\ shellPhase # "reloading" /\ via = "start" /\ bg \cap todo = {}
    /\ \A s \in bg \cup todo : cache[s].status = "running"
    /\ \A s \in BgShells : told[s] + steer[s] + before[s] <= 1
    /\ \A s \in bg : cache[s].suppressed => s \in silenced
    /\ \A s \in BgShells : file[s].status = "ended" /\ file[s].suppressed => file[s].acked

(* A start leaves nothing that nobody will tell of *)
PromiseInv ==
  shellPhase \in {"resuming", "ready"} /\ via = "start" =>
    \A s \in Bg!Unread : told[s] + steer[s] + before[s] > 0

ShellInv == ShellTyped /\ RecordInv /\ EntryInv /\ NoticeInv /\ QuietInv /\ PromiseInv

-----------------------------------------------------------------------------
(* Records and counters *)

LEMMA Counts ==
  ASSUME ShellTyped, NEW s \in BgShells
  PROVE  told[s] \in Nat /\ steer[s] \in Nat /\ before[s] \in 0 .. 1
BY DEF ShellTyped

LEMMA SetStatus ==
  ASSUME NEW r \in Bg!Records, NEW st \in Bg!Statuses, NEW ack \in BOOLEAN
  PROVE  /\ [r EXCEPT !.status = st, !.acked = @ \/ ack] \in Bg!Records
         /\ [r EXCEPT !.status = st, !.acked = @ \/ ack].status = st
         /\ [r EXCEPT !.status = st, !.acked = @ \/ ack].acked <=> (r.acked \/ ack)
         /\ [r EXCEPT !.status = st, !.acked = @ \/ ack].suppressed <=> r.suppressed
<1> DEFINE n == [r EXCEPT !.status = st, !.acked = @ \/ ack]
<1>1. n.status = st
  BY DEF Bg!Records
<1>2. n.acked <=> (r.acked \/ ack)
  BY DEF Bg!Records
<1>3. n.suppressed <=> r.suppressed
  BY DEF Bg!Records
<1>4. n.acked \in BOOLEAN
  BY DEF Bg!Records
<1>5. n.suppressed \in BOOLEAN
  BY DEF Bg!Records
<1>6. n \in Bg!Records
  BY <1>1, <1>4, <1>5 DEF Bg!Records
<1>7. QED
  BY <1>1, <1>2, <1>3, <1>6

LEMMA SetEnded ==
  ASSUME NEW r \in Bg!Records, NEW ack \in BOOLEAN
  PROVE  /\ [r EXCEPT !.status = "ended", !.acked = ack] \in Bg!Records
         /\ [r EXCEPT !.status = "ended", !.acked = ack].status = "ended"
         /\ [r EXCEPT !.status = "ended", !.acked = ack].acked <=> ack
         /\ [r EXCEPT !.status = "ended", !.acked = ack].suppressed <=> r.suppressed
<1> DEFINE n == [r EXCEPT !.status = "ended", !.acked = ack]
<1>1. n.status = "ended" /\ "ended" \in Bg!Statuses
  BY DEF Bg!Records, Bg!Statuses
<1>2. n.acked <=> ack
  BY DEF Bg!Records
<1>3. n.suppressed <=> r.suppressed
  BY DEF Bg!Records
<1>4. n.acked \in BOOLEAN
  BY DEF Bg!Records
<1>5. n.suppressed \in BOOLEAN
  BY DEF Bg!Records
<1>6. n \in Bg!Records
  BY <1>1, <1>4, <1>5 DEF Bg!Records
<1>7. QED
  BY <1>1, <1>2, <1>3, <1>6

LEMMA SetSuppressed ==
  ASSUME NEW r \in Bg!Records
  PROVE  /\ [r EXCEPT !.suppressed = TRUE] \in Bg!Records
         /\ [r EXCEPT !.suppressed = TRUE].status = r.status
         /\ [r EXCEPT !.suppressed = TRUE].acked <=> r.acked
         /\ [r EXCEPT !.suppressed = TRUE].suppressed
BY DEF Bg!Records

LEMMA SetAcked ==
  ASSUME NEW r \in Bg!Records, NEW ack \in BOOLEAN
  PROVE  /\ [r EXCEPT !.acked = @ \/ ack] \in Bg!Records
         /\ [r EXCEPT !.acked = @ \/ ack].status = r.status
         /\ [r EXCEPT !.acked = @ \/ ack].acked <=> (r.acked \/ ack)
         /\ [r EXCEPT !.acked = @ \/ ack].suppressed <=> r.suppressed
BY DEF Bg!Records

LEMMA SetShutdown ==
  ASSUME NEW r \in Bg!Records
  PROVE  /\ [r EXCEPT !.status = "shutdown"] \in Bg!Records
         /\ [r EXCEPT !.status = "shutdown"].status = "shutdown"
         /\ [r EXCEPT !.status = "shutdown"].acked <=> r.acked
         /\ [r EXCEPT !.status = "shutdown"].suppressed <=> r.suppressed
BY DEF Bg!Records, Bg!Statuses

LEMMA NoRecordIs ==
  /\ Bg!NoRecord \in Bg!Records /\ Bg!NoRecord.status = "none"
  /\ ~Bg!NoRecord.acked /\ ~Bg!NoRecord.suppressed
BY DEF Bg!NoRecord, Bg!Records, Bg!Statuses

LEMMA Spending ==
  ASSUME ShellTyped
  PROVE  /\ \A limit : Bg!Spend("reloads", limit) =>
              /\ leaves' \in [crashes : Nat, leaves : Nat, reloads : Nat]
              /\ leaves'.reloads # 0
         /\ \A limit : Bg!Spend("leaves", limit) \/ Bg!Spend("crashes", limit) =>
              /\ leaves' \in [crashes : Nat, leaves : Nat, reloads : Nat]
              /\ leaves'.reloads = leaves.reloads
BY DEF ShellTyped, Bg!Spend

(* A write changes the record in memory, and the session file unless a reload goes on *)
LEMMA Writing ==
  ASSUME ShellTyped, RecordInv, shellPhase # "off", NEW s \in BgShells, NEW r \in Bg!Records,
         Bg!Write(s, r)
  PROVE  /\ cache' \in [BgShells -> Bg!Records] /\ file' \in [BgShells -> Bg!Records]
         /\ cache'[s] = r
         /\ \A t \in BgShells \ {s} : cache'[t] = cache[t] /\ file'[t] = file[t]
         /\ unwritten' \subseteq BgShells
         /\ shellPhase = "reloading" => file' = file /\ unwritten' = unwritten \cup {s}
         /\ shellPhase # "reloading" => file'[s] = r /\ unwritten' = {} /\ unwritten = {}
BY DEF ShellTyped, RecordInv, Bg!Write

-----------------------------------------------------------------------------
LEMMA ShellInitInv ==
  Bg!Init => ShellInv
<1> SUFFICES ASSUME Bg!Init PROVE ShellInv
  OBVIOUS
<1>1. /\ file = [s \in BgShells |-> Bg!NoRecord] /\ cache = file
      /\ steer = [s \in BgShells |-> 0] /\ before = steer /\ told = steer
  BY DEF Bg!Init, Bg!Nothing
<1>2. \A s \in BgShells : file[s] = Bg!NoRecord /\ cache[s] = Bg!NoRecord /\ steer[s] = 0
                        /\ before[s] = 0 /\ told[s] = 0
  BY <1>1
<1>3. ShellTyped
  <2>1. file \in [BgShells -> Bg!Records] /\ cache \in [BgShells -> Bg!Records]
    BY <1>1, NoRecordIs
  <2>2. /\ steer \in [BgShells -> Nat] /\ before \in [BgShells -> 0 .. 1]
        /\ told \in [BgShells -> Nat]
    BY <1>1
  <2>3. leaves \in [crashes : Nat, leaves : Nat, reloads : Nat]
    BY DEF Bg!Init
  <2>4. process \in [BgShells -> {"none", "launched", "running", "exited", "gone"}]
    BY DEF Bg!Init
  <2>5. QED
    BY <2>1, <2>2, <2>3, <2>4 DEF Bg!Init, ShellTyped
<1>4. RecordInv /\ EntryInv
  BY <1>2 DEF Bg!Init, RecordInv, EntryInv
<1>5. NoticeInv
  BY <1>2, NoRecordIs DEF Bg!Init, NoticeInv, Reason
<1>6. QuietInv
  BY <1>2, NoRecordIs DEF Bg!Init, QuietInv
<1>7. PromiseInv
  BY DEF Bg!Init, PromiseInv
<1>8. QED
  BY <1>3, <1>4, <1>5, <1>6, <1>7 DEF ShellInv

(* A shell that was never recorded has left no trace *)
LEMMA Unlaunched ==
  ASSUME ShellInv, NEW s \in BgShells, process[s] \in Unrecorded
  PROVE  /\ file[s].status = "none" /\ cache[s].status \notin Final \cup {"running"}
         /\ s \notin fore \cup bg \cup todo \cup returned \cup unwritten
         /\ told[s] = 0 /\ steer[s] = 0 /\ before[s] = 0
<1>1. file[s] = Bg!NoRecord /\ file[s].status = "none"
  BY NoRecordIs DEF ShellInv, RecordInv
<1>2. s \notin unwritten
  BY <1>1 DEF ShellInv, RecordInv
<1>3. cache[s] = Bg!NoRecord
  BY <1>1, <1>2 DEF ShellInv, RecordInv
<1>4. cache[s].status \notin Final \cup {"running"}
  BY <1>3, NoRecordIs DEF Final
<1>5. s \notin fore \cup bg \cup todo \cup returned
  BY <1>1, <1>4 DEF ShellInv, EntryInv, NoticeInv, Final
<1>6. told[s] = 0 /\ steer[s] = 0 /\ before[s] = 0
  BY <1>1, <1>4, Counts DEF ShellInv, NoticeInv, Final
<1>7. QED
  BY <1>1, <1>2, <1>4, <1>5, <1>6

LEMMA DaemonShellInv ==
  ASSUME ShellInv, NEW s \in BgShells,
         Bg!ProcessExits(s) \/ Bg!DaemonDies(s) \/ Bg!StartFails(s)
  PROVE  ShellInv'
<1>1. /\ process' = [process EXCEPT ![s] = "exited"] \/ process' = [process EXCEPT ![s] = "gone"]
      /\ UNCHANGED <<shellPhase, via, todo, file, cache, unwritten, fore, bg, silenced, steer,
                     before, told, interrupted, returned, leaves>>
  BY DEF Bg!ProcessExits, Bg!DaemonDies, Bg!StartFails, Bg!startVars, Bg!recordVars, Bg!entryVars,
     Bg!noticeVars
<1>2. ShellTyped'
  BY <1>1 DEF ShellInv, ShellTyped
<1>3. \A t \in BgShells : process'[t] \in Unrecorded => process[t] \in Unrecorded
  BY <1>1 DEF ShellInv, ShellTyped, Unrecorded
<1>4. RecordInv'
  BY <1>1, <1>3 DEF ShellInv, RecordInv
<1>5. EntryInv' /\ NoticeInv' /\ QuietInv' /\ PromiseInv'
  BY <1>1 DEF ShellInv, EntryInv, NoticeInv, QuietInv, PromiseInv, Reason, Bg!Unread
<1>6. QED
  BY <1>2, <1>4, <1>5 DEF ShellInv

LEMMA LaunchShellInv ==
  ASSUME ShellInv, NEW s \in BgShells, Bg!Launch(s)
  PROVE  ShellInv'
<1>1. /\ process[s] = "none" /\ process' = [process EXCEPT ![s] = "launched"]
      /\ UNCHANGED <<shellPhase, via, todo, file, cache, unwritten, fore, bg, silenced, steer,
                     before, told, interrupted, returned, leaves>>
  BY DEF Bg!Launch, Bg!startVars, Bg!recordVars, Bg!entryVars, Bg!noticeVars
<1>2. ShellTyped' /\ RecordInv'
  BY <1>1 DEF ShellInv, ShellTyped, RecordInv, Unrecorded
<1>3. EntryInv' /\ NoticeInv' /\ QuietInv' /\ PromiseInv'
  BY <1>1 DEF ShellInv, EntryInv, NoticeInv, QuietInv, PromiseInv, Reason, Bg!Unread
<1>4. QED
  BY <1>2, <1>3 DEF ShellInv

LEMMA RecordStartShellInv ==
  ASSUME ShellInv, NEW s \in BgShells, Bg!RecordStart(s)
  PROVE  ShellInv'
<1> DEFINE new == [status |-> "running", acked |-> FALSE, suppressed |-> FALSE]
<1>1. /\ shellPhase = "ready" /\ process[s] = "launched"
      /\ process' = [process EXCEPT ![s] = "running"]
      /\ Bg!Write(s, new) /\ fore' = fore \cup {s}
      /\ UNCHANGED <<shellPhase, via, todo, bg, silenced, steer, before, told, interrupted,
                     returned, leaves>>
  BY DEF Bg!RecordStart, Bg!startVars, Bg!noticeVars
<1>2. /\ new \in Bg!Records /\ new.status = "running" /\ ~new.acked /\ ~new.suppressed
      /\ "running" \notin Final
  BY DEF Bg!Records, Bg!Statuses, Final
<1> HIDE DEF new
<1>3. /\ cache' \in [BgShells -> Bg!Records] /\ file' \in [BgShells -> Bg!Records]
      /\ cache'[s] = new /\ file'[s] = new /\ unwritten = {} /\ unwritten' = {}
      /\ \A t \in BgShells \ {s} : cache'[t] = cache[t] /\ file'[t] = file[t]
  BY <1>1, <1>2, Writing DEF ShellInv
<1>4. /\ s \notin fore \cup bg \cup todo \cup returned
      /\ told[s] = 0 /\ steer[s] = 0 /\ before[s] = 0
  BY <1>1, Unlaunched DEF Unrecorded
<1>5. ShellTyped'
  BY <1>1, <1>3 DEF ShellInv, ShellTyped
<1>6. RecordInv'
  BY <1>1, <1>3 DEF ShellInv, ShellTyped, RecordInv, Unrecorded
<1>7. EntryInv'
  BY <1>1, <1>2, <1>3, <1>4 DEF ShellInv, ShellTyped, EntryInv
<1>8. NoticeInv'
  <2>1. \A t \in BgShells : Reason(t, file[t])' /\ Reason(t, cache[t])'
    BY <1>1, <1>2, <1>3 DEF ShellInv, NoticeInv, Reason
  <2>2. QED
    BY <1>1, <1>2, <1>3, <1>4, <2>1 DEF ShellInv, ShellTyped, NoticeInv
<1>9. QuietInv'
  BY <1>1, <1>2, <1>3, <1>4 DEF ShellInv, ShellTyped, QuietInv
<1>10. PromiseInv'
  BY <1>1, <1>2, <1>3 DEF ShellInv, PromiseInv, Bg!Unread
<1>11. QED
  BY <1>5, <1>6, <1>7, <1>8, <1>9, <1>10 DEF ShellInv

LEMMA BackgroundShellInv ==
  ASSUME ShellInv, NEW s \in BgShells, Bg!Background(s)
  PROVE  ShellInv'
<1>1. /\ s \in fore /\ fore' = fore \ {s} /\ bg' = bg \cup {s}
      /\ UNCHANGED <<process, shellPhase, via, todo, file, cache, unwritten, silenced, steer,
                     before, told, interrupted, returned, leaves>>
  BY DEF Bg!Background, Bg!startVars, Bg!recordVars, Bg!noticeVars
<1>2. /\ shellPhase = "ready" /\ s \notin returned
      /\ cache[s].status = "running" /\ ~cache[s].suppressed
  BY <1>1 DEF ShellInv, EntryInv, NoticeInv
<1>3. ShellTyped' /\ RecordInv'
  BY <1>1 DEF ShellInv, ShellTyped, RecordInv
<1>4. EntryInv'
  BY <1>1, <1>2 DEF ShellInv, EntryInv
<1>5. NoticeInv' /\ PromiseInv'
  BY <1>1, <1>2 DEF ShellInv, NoticeInv, PromiseInv, Reason, Bg!Unread
<1>6. QuietInv'
  <2>1. todo = {}
    BY <1>1 DEF ShellInv, EntryInv
  <2>2. QED
    BY <1>1, <1>2, <2>1 DEF ShellInv, QuietInv
<1>7. QED
  BY <1>3, <1>4, <1>5, <1>6 DEF ShellInv

LEMMA KillShellInv ==
  ASSUME ShellInv, NEW s \in BgShells, Bg!Kill(s)
  PROVE  ShellInv'
<1> DEFINE new == [cache[s] EXCEPT !.suppressed = TRUE]
<1>1. /\ shellPhase = "ready" /\ s \in bg /\ silenced' = silenced \cup {s} /\ Bg!Write(s, new)
      /\ UNCHANGED <<process, shellPhase, via, todo, fore, bg, steer, before, told, interrupted,
                     returned, leaves>>
  BY DEF Bg!Kill, Bg!startVars, Bg!noticeVars
<1>2. cache[s] \in Bg!Records /\ cache[s] = file[s]
  BY <1>1 DEF ShellInv, ShellTyped, RecordInv
<1>3. /\ new \in Bg!Records /\ new.status = cache[s].status
      /\ (new.acked <=> cache[s].acked) /\ new.suppressed
  BY <1>2, SetSuppressed
<1> HIDE DEF new
<1>4. /\ cache' \in [BgShells -> Bg!Records] /\ file' \in [BgShells -> Bg!Records]
      /\ cache'[s] = new /\ file'[s] = new /\ unwritten = {} /\ unwritten' = {}
      /\ \A t \in BgShells \ {s} : cache'[t] = cache[t] /\ file'[t] = file[t]
  BY <1>1, <1>3, Writing DEF ShellInv
<1>5. process[s] \notin Unrecorded /\ s \notin fore
  BY <1>1, Unlaunched DEF ShellInv, EntryInv
<1>6. ShellTyped'
  BY <1>1, <1>4 DEF ShellInv, ShellTyped
<1>7. RecordInv'
  BY <1>1, <1>4, <1>5 DEF ShellInv, RecordInv
<1>8. EntryInv'
  BY <1>1, <1>3, <1>4, <1>5 DEF ShellInv, ShellTyped, EntryInv
<1>9. NoticeInv'
  <2>1. \A t \in BgShells : Reason(t, file[t])' /\ Reason(t, cache[t])'
    BY <1>1, <1>3, <1>4 DEF ShellInv, NoticeInv, Reason
  <2>2. QED
    BY <1>1, <1>2, <1>3, <1>4, <2>1 DEF ShellInv, ShellTyped, NoticeInv
<1>10. QuietInv'
  <2>1. leaves.reloads = 0 => file'[s].status # "ended"
    BY <1>1, <1>3, <1>4 DEF ShellInv, QuietInv
  <2>2. QED
    BY <1>1, <1>2, <1>3, <1>4, <2>1 DEF ShellInv, ShellTyped, QuietInv
<1>11. PromiseInv'
  BY <1>1, <1>3, <1>4 DEF ShellInv, PromiseInv, Bg!Unread
<1>12. QED
  BY <1>6, <1>7, <1>8, <1>9, <1>10, <1>11 DEF ShellInv

LEMMA DetachShellInv ==
  ASSUME ShellInv, NEW s \in BgShells, Bg!Detach(s)
  PROVE  ShellInv'
<1> DEFINE new == [cache[s] EXCEPT !.status = "detached", !.acked = @ \/ TRUE]
<1>1. /\ shellPhase = "ready" /\ s \in bg /\ bg' = bg \ {s} /\ silenced' = silenced \ {s}
      /\ IF cache[s].status = "running" THEN Bg!Write(s, new)
         ELSE UNCHANGED <<file, cache, unwritten>>
      /\ UNCHANGED <<process, shellPhase, via, todo, fore, steer, before, told, interrupted,
                     returned, leaves>>
  BY DEF Bg!Detach, Bg!RecordEnd, Bg!startVars, Bg!noticeVars, Bg!recordVars
<1>2. cache[s] \in Bg!Records /\ cache[s] = file[s]
  BY <1>1 DEF ShellInv, ShellTyped, RecordInv
<1>3. process[s] \notin Unrecorded /\ s \notin returned /\ todo = {}
  BY <1>1, Unlaunched DEF ShellInv, EntryInv, NoticeInv
<1>4. CASE cache[s].status = "running"
  <2>1. /\ new \in Bg!Records /\ new.status = "detached" /\ new.acked
        /\ (new.suppressed <=> cache[s].suppressed) /\ "detached" \notin Final
        /\ "running" \notin Final
    BY <1>2, SetStatus DEF Bg!Statuses, Final
  <2> HIDE DEF new
  <2>2. /\ cache' \in [BgShells -> Bg!Records] /\ file' \in [BgShells -> Bg!Records]
        /\ cache'[s] = new /\ file'[s] = new /\ unwritten = {} /\ unwritten' = {}
        /\ \A t \in BgShells \ {s} : cache'[t] = cache[t] /\ file'[t] = file[t]
    BY <1>1, <1>4, <2>1, Writing DEF ShellInv
  <2>3. told[s] = 0 /\ before[s] = 0 /\ steer[s] = 0
    BY <1>2, <1>4, <2>1, Counts DEF ShellInv, NoticeInv
  <2>4. ShellTyped'
    BY <1>1, <2>2 DEF ShellInv, ShellTyped
  <2>5. RecordInv'
    BY <1>1, <1>3, <2>2 DEF ShellInv, RecordInv
  <2>6. EntryInv'
    BY <1>1, <1>3, <2>2 DEF ShellInv, ShellTyped, EntryInv
  <2>7. NoticeInv'
    <3>1. \A t \in BgShells : Reason(t, file[t])' /\ Reason(t, cache[t])'
      BY <1>1, <2>1, <2>2 DEF ShellInv, NoticeInv, Reason
    <3>2. QED
      BY <1>1, <1>3, <2>2, <2>3, <3>1 DEF ShellInv, ShellTyped, NoticeInv
  <2>8. QuietInv'
    BY <1>1, <1>3, <2>1, <2>2 DEF ShellInv, ShellTyped, QuietInv
  <2>9. PromiseInv'
    BY <1>1, <2>1, <2>2 DEF ShellInv, PromiseInv, Bg!Unread
  <2>10. QED
    BY <2>4, <2>5, <2>6, <2>7, <2>8, <2>9 DEF ShellInv
<1>5. CASE cache[s].status # "running"
  <2>1. UNCHANGED <<file, cache, unwritten>>
    BY <1>1, <1>5
  <2>2. ShellTyped' /\ RecordInv'
    BY <1>1, <2>1 DEF ShellInv, ShellTyped, RecordInv
  <2>3. EntryInv' /\ NoticeInv'
    BY <1>1, <2>1 DEF ShellInv, EntryInv, NoticeInv, Reason
  <2>4. QuietInv' /\ PromiseInv'
    BY <1>1, <2>1 DEF ShellInv, QuietInv, PromiseInv, Bg!Unread
  <2>5. QED
    BY <2>2, <2>3, <2>4 DEF ShellInv
<1>6. QED
  BY <1>4, <1>5

(* The end of a shell that is followed: its record, and one notice if it ran in the
   background and nobody silenced it *)
LEMMA FinishedShellInv ==
  ASSUME ShellInv, NEW s \in BgShells, NEW status \in Final, s \in fore \cup bg,
         Bg!Finished(s, status),
         UNCHANGED <<process, shellPhase, via, todo, before, told, interrupted, leaves>>
  PROVE  ShellInv'
<1> DEFINE new == [cache[s] EXCEPT !.status = status,
                                  !.acked = @ \/ (s \in silenced \/ s \in fore)]
<1>1. /\ IF cache[s].status = "running" THEN Bg!Write(s, new)
         ELSE UNCHANGED <<file, cache, unwritten>>
      /\ IF s \in bg /\ s \notin silenced THEN Bg!Notify(s) ELSE UNCHANGED steer
      /\ returned' = IF s \in fore THEN returned \cup {s} ELSE returned
      /\ fore' = fore \ {s} /\ bg' = bg \ {s} /\ silenced' = silenced \ {s}
  BY DEF Bg!Finished, Bg!RecordEnd, Bg!recordVars
<1>2. /\ shellPhase \notin {"off", "surfacing"} /\ cache[s] \in Bg!Records
      /\ process[s] \notin Unrecorded /\ s \notin returned
      /\ (s \in fore => shellPhase = "ready" /\ todo = {} /\ s \notin bg)
  BY Unlaunched DEF ShellInv, ShellTyped, EntryInv, NoticeInv
<1>3. /\ \A t \in BgShells : steer[t] \in Nat /\ told[t] \in Nat /\ before[t] \in 0 .. 1
      /\ steer' \in [BgShells -> Nat]
      /\ \A t \in BgShells \ {s} : steer'[t] = steer[t]
      /\ steer'[s] \in {steer[s], steer[s] + 1}
      /\ s \notin bg => steer'[s] = steer[s]
      /\ s \in bg /\ s \notin silenced /\ shellPhase # "reloading" => steer'[s] = steer[s] + 1
  BY <1>1, Counts DEF Bg!Notify, ShellInv, ShellTyped
<1>4. "running" \notin Final /\ status \in Bg!Statuses /\ "detached" \notin Final
  BY DEF Final, Bg!Statuses
<1>5. CASE cache[s].status = "running"
  <2>1. /\ new \in Bg!Records /\ new.status = status
        /\ new.acked <=> (cache[s].acked \/ s \in silenced \/ s \in fore)
        /\ new.suppressed <=> cache[s].suppressed
    <3> DEFINE ack == s \in silenced \/ s \in fore
    <3>1. ack \in BOOLEAN
      OBVIOUS
    <3>0. cache[s] \in Bg!Records /\ status \in Bg!Statuses
      BY <1>2, <1>4
    <3> HIDE DEF ack
    <3>2. [cache[s] EXCEPT !.status = status, !.acked = @ \/ ack] \in Bg!Records
      BY <3>0, <3>1, SetStatus
    <3>3. /\ [cache[s] EXCEPT !.status = status, !.acked = @ \/ ack].status = status
          /\ [cache[s] EXCEPT !.status = status, !.acked = @ \/ ack].acked
               <=> (cache[s].acked \/ ack)
          /\ [cache[s] EXCEPT !.status = status, !.acked = @ \/ ack].suppressed
               <=> cache[s].suppressed
      BY <3>0, <3>1, SetStatus
    <3>4. QED
      BY <3>2, <3>3 DEF ack
  <2> HIDE DEF new
  <2>2. s \notin unwritten /\ file[s] = cache[s]
    BY <1>2, <1>4, <1>5 DEF ShellInv, RecordInv
  <2>3. /\ cache' \in [BgShells -> Bg!Records] /\ file' \in [BgShells -> Bg!Records]
        /\ cache'[s] = new
        /\ \A t \in BgShells \ {s} : cache'[t] = cache[t] /\ file'[t] = file[t]
        /\ unwritten' \subseteq BgShells
        /\ shellPhase = "reloading" => file' = file /\ unwritten' = unwritten \cup {s}
        /\ shellPhase # "reloading" => file'[s] = new /\ unwritten' = {} /\ unwritten = {}
    BY <1>1, <1>2, <1>5, <2>1, Writing DEF ShellInv
  <2>4. told[s] = 0 /\ before[s] = 0 /\ steer[s] = 0
    BY <1>4, <1>5, <2>2, Counts DEF ShellInv, NoticeInv
  <2>5. ShellTyped'
    BY <1>1, <1>3, <2>3 DEF ShellInv, ShellTyped
  <2>6. RecordInv'
    BY <1>2, <1>5, <2>1, <2>2, <2>3 DEF ShellInv, RecordInv
  <2>7. EntryInv'
    BY <1>1, <1>2, <1>4, <2>1, <2>3 DEF ShellInv, ShellTyped, EntryInv
  <2>8. NoticeInv'
    <3>1. \A t \in BgShells \ {s} : Reason(t, file[t])' /\ Reason(t, cache[t])'
      BY <1>1, <2>3 DEF ShellInv, NoticeInv, Reason
    <3>2. s \in silenced => cache[s].suppressed
      BY DEF ShellInv, EntryInv
    <3>3. Reason(s, cache[s])
      BY DEF ShellInv, NoticeInv
    <3>4. Reason(s, cache[s])'
      BY <1>1, <1>5, <2>1, <2>3, <3>2, <3>3 DEF Reason
    <3>5. Reason(s, file[s])'
      <4>1. CASE shellPhase # "reloading"
        BY <2>3, <3>4, <4>1
      <4>2. CASE shellPhase = "reloading"
        BY <1>1, <2>2, <2>3, <3>3, <4>2 DEF Reason
      <4>3. QED
        BY <4>1, <4>2
    <3>6. /\ \A t \in BgShells : told'[t] > 0 \/ before'[t] > 0 => file'[t].status \in Final
          /\ \A t \in BgShells : steer'[t] > 0 => /\ shellPhase' \notin {"off", "surfacing"}
                                                  /\ cache'[t].status \in Final
      BY <1>2, <1>3, <2>1, <2>3, <2>4 DEF ShellInv, NoticeInv
    <3>7. ASSUME NEW t \in returned'
          PROVE  /\ told'[t] = 0 /\ steer'[t] = 0 /\ before'[t] = 0
                 /\ file'[t].status \in Final /\ file'[t].acked
                 /\ t \notin fore' \cup bg' \cup todo'
      <4>1. CASE t = s
        <5>1. s \in fore
          BY <1>1, <1>2, <3>7, <4>1
        <5>2. steer'[s] = 0 /\ file'[s] = new /\ new.acked /\ todo = {}
          BY <1>2, <1>3, <2>1, <2>3, <2>4, <5>1
        <5>3. QED
          BY <1>1, <2>1, <2>4, <4>1, <5>2
      <4>2. CASE t # s
        BY <1>1, <1>3, <2>3, <3>7, <4>2 DEF ShellInv, ShellTyped, NoticeInv
      <4>3. QED
        BY <4>1, <4>2
    <3>8. QED
      BY <3>1, <3>4, <3>5, <3>6, <3>7 DEF NoticeInv
  <2>9. QuietInv'
    <3>1. ASSUME leaves.reloads = 0
          PROVE  /\ shellPhase # "reloading" /\ via = "start"
                 /\ s \in bg /\ cache[s].suppressed => s \in silenced
      BY <3>1 DEF ShellInv, QuietInv
    <3>2. ASSUME leaves.reloads = 0
          PROVE  file'[s].status = "ended" /\ file'[s].suppressed => file'[s].acked
      BY <2>1, <2>3, <3>1, <3>2
    <3>3. ASSUME leaves.reloads = 0
          PROVE  \A t \in BgShells : told'[t] + steer'[t] + before'[t] <= 1
      BY <1>3, <2>4, <3>3 DEF ShellInv, QuietInv
    <3>4. ASSUME leaves.reloads = 0, NEW t \in bg' \cup todo'
          PROVE  t \notin bg' \cap todo' /\ cache'[t].status = "running"
      <4>1. bg \cap todo = {} /\ t \in BgShells /\ cache[t].status = "running"
        BY <1>1, <3>4 DEF ShellInv, ShellTyped, QuietInv
      <4>2. t # s
        BY <1>1, <1>2, <3>4, <4>1
      <4>3. QED
        BY <1>1, <2>3, <3>4, <4>1, <4>2
    <3>5. QED
      BY <1>1, <2>3, <3>1, <3>2, <3>3, <3>4 DEF ShellInv, ShellTyped, QuietInv
  <2>10. PromiseInv'
    BY <1>2, <1>3, <2>1, <2>3 DEF ShellInv, PromiseInv, Bg!Unread
  <2>11. QED
    BY <2>5, <2>6, <2>7, <2>8, <2>9, <2>10 DEF ShellInv
<1>6. CASE cache[s].status # "running"
  <2>1. UNCHANGED <<file, cache, unwritten>>
    BY <1>1, <1>6 DEF Bg!recordVars
  <2>2. s \in bg /\ s \notin fore /\ cache[s].status \in Final /\ returned' = returned
    BY <1>1, <1>6 DEF ShellInv, EntryInv
  <2>3. ShellTyped'
    BY <1>1, <1>3, <2>1, <2>2 DEF ShellInv, ShellTyped
  <2>4. RecordInv'
    BY <1>1, <2>1 DEF ShellInv, RecordInv
  <2>5. EntryInv'
    BY <1>1, <2>1 DEF ShellInv, EntryInv
  <2>6. NoticeInv'
    <3>1. \A t \in BgShells : Reason(t, file[t])' /\ Reason(t, cache[t])'
      BY <2>1, <2>2 DEF ShellInv, NoticeInv, Reason
    <3>2. QED
      BY <1>1, <1>2, <1>3, <2>1, <2>2, <3>1 DEF ShellInv, ShellTyped, NoticeInv
  <2>7. QuietInv'
    BY <1>6, <2>2 DEF ShellInv, QuietInv
  <2>8. PromiseInv'
    BY <1>3, <2>1 DEF ShellInv, PromiseInv, Bg!Unread
  <2>9. QED
    BY <2>3, <2>4, <2>5, <2>6, <2>7, <2>8 DEF ShellInv
<1>7. QED
  BY <1>5, <1>6

LEMMA EventShellInv ==
  ASSUME ShellInv, NEW s \in BgShells, Bg!ExitEvent(s) \/ Bg!CloseEvent(s)
  PROVE  ShellInv'
<1>1. PICK status \in Final : /\ s \in fore \cup bg /\ Bg!Finished(s, status)
        /\ UNCHANGED <<process, shellPhase, via, todo, before, told, interrupted, leaves>>
  BY DEF Bg!ExitEvent, Bg!CloseEvent, Final, Bg!startVars
<1>2. QED
  BY <1>1, FinishedShellInv

-----------------------------------------------------------------------------
(* Notices reach the session file *)

LEMMA DeliverShellInv ==
  ASSUME ShellInv, NEW s \in BgShells, Bg!Deliver(s)
  PROVE  ShellInv'
<1>1. /\ shellPhase = "ready" /\ steer[s] > 0
      /\ steer' = [steer EXCEPT ![s] = @ - 1] /\ told' = [told EXCEPT ![s] = @ + 1]
      /\ UNCHANGED <<process, shellPhase, via, todo, file, cache, unwritten, fore, bg, silenced,
                     before, interrupted, returned, leaves>>
  BY DEF Bg!Deliver, Bg!startVars, Bg!recordVars, Bg!entryVars
<1>2. /\ \A t \in BgShells : steer[t] \in Nat /\ told[t] \in Nat /\ before[t] \in 0 .. 1
      /\ steer' \in [BgShells -> Nat] /\ told' \in [BgShells -> Nat]
      /\ steer'[s] = steer[s] - 1 /\ told'[s] = told[s] + 1
      /\ \A t \in BgShells \ {s} : steer'[t] = steer[t] /\ told'[t] = told[t]
  BY <1>1, Counts DEF ShellInv, ShellTyped
<1>3. s \notin returned /\ cache[s].status \in Final /\ unwritten = {}
  BY <1>1, <1>2 DEF ShellInv, NoticeInv, RecordInv
<1>4. file[s].status \in Final
  BY <1>1, <1>3 DEF ShellInv, RecordInv
<1>5. ShellTyped'
  BY <1>1, <1>2 DEF ShellInv, ShellTyped
<1>6. RecordInv' /\ EntryInv'
  BY <1>1 DEF ShellInv, RecordInv, EntryInv
<1>7. NoticeInv'
  <2>1. \A t \in BgShells : Reason(t, file[t])' /\ Reason(t, cache[t])'
    <3>1. \A t \in BgShells : told[t] > 0 => told'[t] > 0
      BY <1>2
    <3>2. QED
      BY <1>1, <3>1 DEF ShellInv, NoticeInv, Reason
  <2>2. \A t \in BgShells : told'[t] > 0 \/ before'[t] > 0 => file'[t].status \in Final
    BY <1>1, <1>2, <1>4 DEF ShellInv, NoticeInv
  <2>3. \A t \in BgShells : steer'[t] > 0 => /\ shellPhase' \notin {"off", "surfacing"}
                                             /\ cache'[t].status \in Final
    BY <1>1, <1>2, <1>3 DEF ShellInv, NoticeInv
  <2>4. \A t \in returned' : t # s /\ t \in BgShells
    BY <1>1, <1>3 DEF ShellInv, ShellTyped
  <2>5. \A t \in returned' : /\ told'[t] = 0 /\ steer'[t] = 0 /\ before'[t] = 0
                             /\ file'[t].status \in Final /\ file'[t].acked
                             /\ t \notin fore' \cup bg' \cup todo'
    BY <1>1, <1>2, <2>4 DEF ShellInv, NoticeInv
  <2>6. QED
    BY <2>1, <2>2, <2>3, <2>5 DEF NoticeInv
<1>8. QuietInv'
  <2>1. \A t \in BgShells : told'[t] + steer'[t] + before'[t] = told[t] + steer[t] + before[t]
    BY <1>1, <1>2
  <2>2. QED
    BY <1>1, <2>1 DEF ShellInv, QuietInv
<1>9. PromiseInv'
  <2>1. \A t \in BgShells : told'[t] + steer'[t] + before'[t] = told[t] + steer[t] + before[t]
    BY <1>1, <1>2
  <2>2. Bg!Unread' = Bg!Unread /\ Bg!Unread \subseteq BgShells
    BY <1>1 DEF Bg!Unread
  <2>3. QED
    BY <1>1, <2>1, <2>2 DEF ShellInv, PromiseInv
<1>10. QED
  BY <1>5, <1>6, <1>7, <1>8, <1>9 DEF ShellInv

LEMMA PromptShellInv ==
  ASSUME ShellInv, Bg!Prompt
  PROVE  ShellInv'
<1>1. /\ shellPhase = "ready" /\ before' = Bg!Nothing
      /\ told' = [s \in BgShells |-> IF told[s] > 0 THEN told[s] ELSE before[s]]
      /\ UNCHANGED <<process, shellPhase, via, todo, file, cache, unwritten, fore, bg, silenced,
                     steer, interrupted, returned, leaves>>
  BY DEF Bg!Prompt, Bg!startVars, Bg!recordVars, Bg!entryVars
<1>2. /\ \A t \in BgShells : /\ steer[t] \in Nat /\ told[t] \in Nat /\ before[t] \in 0 .. 1
                             /\ before'[t] = 0
                             /\ told[t] > 0 => told'[t] = told[t]
                             /\ told[t] = 0 => told'[t] = before[t]
      /\ told' \in [BgShells -> Nat] /\ before' \in [BgShells -> 0 .. 1]
  <2>1. \A t \in BgShells : steer[t] \in Nat /\ told[t] \in Nat /\ before[t] \in 0 .. 1
    BY Counts DEF ShellInv
  <2>2. before' = [t \in BgShells |-> 0]
    BY <1>1 DEF Bg!Nothing
  <2>3. QED
    BY <1>1, <2>1, <2>2
<1>3. ShellTyped'
  BY <1>1, <1>2 DEF ShellInv, ShellTyped
<1>4. RecordInv' /\ EntryInv'
  BY <1>1 DEF ShellInv, RecordInv, EntryInv
<1>5. \A t \in BgShells : /\ told[t] > 0 => told'[t] > 0
                          /\ told[t] = 0 /\ before[t] = 0 => told'[t] = 0
                          /\ told'[t] > 0 => told[t] > 0 \/ before[t] > 0
                          /\ told'[t] + steer'[t] + before'[t] <= told[t] + steer[t] + before[t]
                          /\ told[t] + steer[t] + before[t] > 0
                               => told'[t] + steer'[t] + before'[t] > 0
  BY <1>1, <1>2
<1>6. NoticeInv'
  <2>1. \A t \in BgShells : Reason(t, file[t])' /\ Reason(t, cache[t])'
    BY <1>1, <1>5 DEF ShellInv, NoticeInv, Reason
  <2>2. QED
    BY <1>1, <1>2, <1>5, <2>1 DEF ShellInv, ShellTyped, NoticeInv
<1>7. QuietInv'
  <2>1. ASSUME leaves.reloads = 0, NEW t \in BgShells
        PROVE  told'[t] + steer'[t] + before'[t] <= 1
    <3>1. told[t] + steer[t] + before[t] <= 1
      BY <2>1 DEF ShellInv, QuietInv
    <3>2. QED
      BY <1>1, <1>2, <3>1
  <2>2. QED
    BY <1>1, <2>1 DEF ShellInv, QuietInv
<1>8. PromiseInv'
  <2>1. Bg!Unread' = Bg!Unread /\ Bg!Unread \subseteq BgShells
    BY <1>1 DEF Bg!Unread
  <2>2. QED
    BY <1>1, <1>5, <2>1 DEF ShellInv, PromiseInv
<1>9. QED
  BY <1>3, <1>4, <1>6, <1>7, <1>8 DEF ShellInv

LEMMA AcknowledgeShellInv ==
  ASSUME ShellInv, Bg!Acknowledge
  PROVE  ShellInv'
<1> DEFINE due == {s \in BgShells : /\ cache[s].status \notin {"none", "running"}
                                    /\ ~cache[s].acked /\ told[s] > 0}
<1>1. /\ shellPhase = "ready"
      /\ cache' = [s \in BgShells |-> [cache[s] EXCEPT !.acked = @ \/ s \in due]]
      /\ file' = [s \in BgShells |-> IF s \in due THEN cache'[s] ELSE file[s]]
      /\ UNCHANGED <<process, shellPhase, via, todo, unwritten, fore, bg, silenced, steer, before,
                     told, interrupted, returned, leaves>>
  BY DEF Bg!Acknowledge, Bg!startVars, Bg!entryVars, Bg!noticeVars
<1>2. unwritten = {} /\ \A t \in BgShells : cache[t] = file[t] /\ cache[t] \in Bg!Records
  BY <1>1 DEF ShellInv, ShellTyped, RecordInv
<1>3. \A t \in due : told[t] > 0
  OBVIOUS
<1> HIDE DEF due
<1>4. ASSUME NEW t \in BgShells
      PROVE  /\ cache'[t] \in Bg!Records /\ cache'[t].status = cache[t].status
             /\ cache'[t].acked <=> (cache[t].acked \/ t \in due)
             /\ cache'[t].suppressed <=> cache[t].suppressed
  <2> DEFINE ack == t \in due
  <2>1. cache'[t] = [cache[t] EXCEPT !.acked = @ \/ ack]
    BY <1>1
  <2>2. ack \in BOOLEAN
    OBVIOUS
  <2> HIDE DEF ack
  <2>3. [cache[t] EXCEPT !.acked = @ \/ ack] \in Bg!Records
    BY <1>2, <2>2, SetAcked
  <2>4. /\ [cache[t] EXCEPT !.acked = @ \/ ack].status = cache[t].status
        /\ [cache[t] EXCEPT !.acked = @ \/ ack].acked <=> (cache[t].acked \/ ack)
        /\ [cache[t] EXCEPT !.acked = @ \/ ack].suppressed <=> cache[t].suppressed
    BY <1>2, <2>2, SetAcked
  <2>5. QED
    BY <2>1, <2>3, <2>4 DEF ack
<1>5. \A t \in BgShells : t \notin due => cache'[t] = cache[t]
  <2>1. ASSUME NEW t \in BgShells, t \notin due
        PROVE  cache'[t] = cache[t]
    <3>1. cache'[t] = [cache[t] EXCEPT !.acked = @ \/ FALSE]
      BY <1>1, <2>1
    <3>2. cache[t] \in [status : Bg!Statuses, acked : BOOLEAN, suppressed : BOOLEAN]
      BY <1>2 DEF Bg!Records
    <3>3. QED
      BY <3>1, <3>2
  <2>2. QED
    BY <2>1
<1>6. /\ \A t \in BgShells : file'[t] = cache'[t]
      /\ cache' \in [BgShells -> Bg!Records] /\ file' \in [BgShells -> Bg!Records]
  <2>1. \A t \in BgShells : file'[t] = cache'[t]
    BY <1>1, <1>2, <1>5
  <2>2. QED
    BY <1>1, <1>4, <2>1
<1>7. ShellTyped'
  BY <1>1, <1>6 DEF ShellInv, ShellTyped
<1>8. RecordInv'
  <2>1. ASSUME NEW t \in BgShells, process'[t] \in Unrecorded
        PROVE  file'[t] = Bg!NoRecord
    <3>1. t \notin due
      <4>1. told[t] = 0
        BY <1>1, <2>1, Unlaunched
      <4>2. QED
        BY <1>3, <4>1
    <3>2. QED
      BY <1>1, <2>1, <3>1 DEF ShellInv, RecordInv
  <2>2. QED
    BY <1>1, <1>2, <1>6, <2>1 DEF ShellInv, ShellTyped, RecordInv
<1>9. EntryInv'
  BY <1>1, <1>4 DEF ShellInv, ShellTyped, EntryInv
<1>10. NoticeInv'
  <2>1. ASSUME NEW t \in BgShells
        PROVE  Reason(t, file[t])' /\ Reason(t, cache[t])'
    <3>1. Reason(t, cache[t])
      BY DEF ShellInv, NoticeInv
    <3>2. Reason(t, cache[t])'
      BY <1>1, <1>3, <1>4, <3>1 DEF Reason
    <3>3. QED
      BY <1>6, <3>2
  <2>2. \A t \in BgShells : file'[t].status = file[t].status /\ (file[t].acked => file'[t].acked)
    BY <1>2, <1>4, <1>6
  <2>3. QED
    BY <1>1, <1>4, <2>1, <2>2 DEF ShellInv, ShellTyped, NoticeInv
<1>11. QuietInv'
  <2>1. ASSUME leaves.reloads = 0, NEW t \in BgShells, file'[t].status = "ended",
               file'[t].suppressed
        PROVE  file'[t].acked
    <3>1. file[t].status = "ended" /\ file[t].suppressed
      BY <1>2, <1>4, <1>6, <2>1
    <3>2. file[t].acked
      BY <2>1, <3>1 DEF ShellInv, QuietInv
    <3>3. QED
      BY <1>2, <1>4, <1>6, <3>2
  <2>2. QED
    BY <1>1, <1>4, <2>1 DEF ShellInv, ShellTyped, QuietInv
<1>12. PromiseInv'
  <2>1. \A t \in Bg!Unread' : t \in Bg!Unread
    BY <1>4 DEF Bg!Unread
  <2>2. QED
    BY <1>1, <2>1 DEF ShellInv, PromiseInv
<1>13. QED
  BY <1>7, <1>8, <1>9, <1>10, <1>11, <1>12 DEF ShellInv

-----------------------------------------------------------------------------
(* session_start *)

LEMMA Acknowledging ==
  ASSUME NEW s \in BgShells, NEW r \in Bg!Records
  PROVE  /\ Bg!Acknowledged(s, r) \in Bg!Records
         /\ Bg!Acknowledged(s, r).status = r.status
         /\ Bg!Acknowledged(s, r).acked <=> \/ r.acked \/ r.status = "shutdown"
                                            \/ r.status \notin {"none", "running"} /\ told[s] > 0
         /\ Bg!Acknowledged(s, r).suppressed <=> r.suppressed
         /\ r = Bg!NoRecord => Bg!Acknowledged(s, r) = Bg!NoRecord
<1> DEFINE a == Bg!Acknowledged(s, r)
<1>1. /\ a.status = r.status
      /\ a.acked <=> \/ r.acked \/ r.status = "shutdown"
                     \/ r.status \notin {"none", "running"} /\ told[s] > 0
      /\ a.suppressed <=> r.suppressed
  BY DEF Bg!Acknowledged, Bg!Records
<1>2. a \in Bg!Records
  BY DEF Bg!Acknowledged, Bg!Records
<1>3. r = Bg!NoRecord => a = Bg!NoRecord
  <2>1. SUFFICES ASSUME r = Bg!NoRecord PROVE a = Bg!NoRecord
    OBVIOUS
  <2>2. a = [Bg!NoRecord EXCEPT !.acked = FALSE]
    BY <2>1 DEF Bg!Acknowledged, Bg!NoRecord
  <2>3. QED
    BY <2>2 DEF Bg!NoRecord
<1>4. QED
  BY <1>1, <1>2, <1>3

LEMMA StartShellInv ==
  ASSUME ShellInv, Bg!Start
  PROVE  ShellInv'
<1> DEFINE pick(s) == IF s \in unwritten \/ file[s] = Bg!NoRecord THEN cache[s] ELSE file[s]
<1>1. /\ shellPhase \in {"off", "reloading"}
      /\ via' = (IF shellPhase = "off" THEN "start" ELSE "reload")
      /\ cache' = [s \in BgShells |-> Bg!Acknowledged(s, pick(s))]
      /\ file' = cache' /\ unwritten' = {}
      /\ interrupted' = interrupted \cup {s \in BgShells : cache'[s].status = "shutdown"}
      /\ shellPhase' = (IF shellPhase = "off" THEN "surfacing" ELSE "resuming")
      /\ UNCHANGED <<process, fore, bg, silenced, steer, before, told, returned, leaves>>
  BY DEF Bg!Start, Bg!entryVars
<1>2. todo' \subseteq Bg!Running(cache')
  BY DEF Bg!Start, Bg!Waiting
<1>3. ASSUME NEW s \in BgShells
      PROVE  /\ s \in unwritten => pick(s) = cache[s]
             /\ s \notin unwritten => pick(s) = file[s]
             /\ shellPhase = "reloading" => pick(s) = cache[s]
             /\ pick(s) \in Bg!Records
  BY <1>1 DEF ShellInv, ShellTyped, RecordInv
<1> HIDE DEF pick
<1>4. ASSUME NEW s \in BgShells
      PROVE  /\ cache'[s] \in Bg!Records /\ cache'[s].status = pick(s).status
             /\ cache'[s].acked <=> \/ pick(s).acked \/ pick(s).status = "shutdown"
                                    \/ pick(s).status \notin {"none", "running"} /\ told[s] > 0
             /\ cache'[s].suppressed <=> pick(s).suppressed
             /\ pick(s) = Bg!NoRecord => cache'[s] = Bg!NoRecord
             /\ file'[s] = cache'[s]
  <2>1. cache'[s] = Bg!Acknowledged(s, pick(s)) /\ file'[s] = cache'[s] /\ pick(s) \in Bg!Records
    BY <1>1, <1>3
  <2>2. QED
    BY <2>1, Acknowledging
<1>5. \A s \in todo' : s \in BgShells /\ cache'[s].status = "running"
  BY <1>2 DEF Bg!Running
<1>6. fore = {} /\ ("running" \notin Final) /\ (shellPhase = "off" => bg = {} /\ unwritten = {})
  BY <1>1 DEF ShellInv, EntryInv, RecordInv, Final
<1>7. ShellTyped'
  <2>1. cache' \in [BgShells -> Bg!Records] /\ file' \in [BgShells -> Bg!Records]
    BY <1>1, <1>4
  <2>2. todo' \subseteq BgShells /\ interrupted' \subseteq BgShells
    BY <1>1, <1>5 DEF ShellInv, ShellTyped
  <2>3. QED
    BY <1>1, <2>1, <2>2 DEF ShellInv, ShellTyped
<1>8. RecordInv'
  <2>1. ASSUME NEW s \in BgShells, process'[s] \in Unrecorded
        PROVE  file'[s] = Bg!NoRecord
    <3>1. s \notin unwritten
      BY <1>1, <2>1, Unlaunched
    <3>2. file[s] = Bg!NoRecord
      BY <1>1, <2>1 DEF ShellInv, RecordInv
    <3>3. QED
      BY <1>3, <1>4, <3>1, <3>2
  <2>2. QED
    BY <1>1, <2>1 DEF RecordInv
<1>9. EntryInv'
  <2>1. \A s \in bg : s \in BgShells /\ cache'[s].status = cache[s].status
                      /\ (cache'[s].suppressed <=> cache[s].suppressed)
    BY <1>1, <1>3, <1>4, <1>6 DEF ShellInv, ShellTyped
  <2>2. \A s \in bg' \cup todo' : cache'[s].status \in Final \cup {"running"}
    BY <1>1, <1>5, <2>1 DEF ShellInv, EntryInv
  <2>3. \A s \in silenced' : cache'[s].suppressed
    BY <1>1, <2>1 DEF ShellInv, ShellTyped, EntryInv
  <2>4. QED
    BY <1>1, <1>5, <1>6, <2>2, <2>3 DEF EntryInv
<1>10. NoticeInv'
  <2>1. ASSUME NEW s \in BgShells, file[s].status \in Final
        PROVE  /\ s \notin unwritten /\ cache'[s].status = file[s].status
               /\ file[s].acked => cache'[s].acked
    <3>1. s \notin unwritten
      BY <1>6, <2>1 DEF ShellInv, RecordInv
    <3>2. QED
      BY <1>3, <1>4, <3>1
  <2>2. ASSUME NEW s \in BgShells
        PROVE  Reason(s, file[s])' /\ Reason(s, cache[s])'
    <3>1. Reason(s, pick(s))
      BY <1>3 DEF ShellInv, NoticeInv
    <3>2. pick(s).status = "shutdown" => s \in interrupted'
      BY <1>1, <1>4
    <3>3. Reason(s, cache[s])'
      BY <1>1, <1>4, <3>1, <3>2 DEF Reason
    <3>4. QED
      BY <1>4, <3>3
  <2>3. \A s \in BgShells : told'[s] > 0 \/ before'[s] > 0 => file'[s].status \in Final
    BY <1>1, <1>4, <2>1 DEF ShellInv, NoticeInv
  <2>4. ASSUME NEW s \in BgShells, steer'[s] > 0
        PROVE  shellPhase' \notin {"off", "surfacing"} /\ cache'[s].status \in Final
    <3>1. shellPhase = "reloading" /\ cache[s].status \in Final
      BY <1>1, <2>4 DEF ShellInv, NoticeInv
    <3>2. QED
      BY <1>1, <1>3, <1>4, <3>1
  <2>5. ASSUME NEW s \in returned'
        PROVE  /\ told'[s] = 0 /\ steer'[s] = 0 /\ before'[s] = 0
               /\ file'[s].status \in Final /\ file'[s].acked
               /\ s \notin fore' \cup bg' \cup todo'
    <3>1. /\ s \in BgShells /\ told[s] = 0 /\ steer[s] = 0 /\ before[s] = 0
          /\ file[s].status \in Final /\ file[s].acked /\ s \notin fore \cup bg
      BY <1>1, <2>5 DEF ShellInv, ShellTyped, NoticeInv
    <3>2. cache'[s].status \in Final /\ cache'[s].acked
      BY <2>1, <3>1
    <3>3. s \notin todo'
      BY <1>5, <1>6, <3>2
    <3>4. QED
      BY <1>1, <1>4, <3>1, <3>2, <3>3
  <2>6. QED
    BY <2>2, <2>3, <2>4, <2>5 DEF NoticeInv
<1>11. QuietInv'
  <2>1. SUFFICES ASSUME leaves'.reloads = 0
        PROVE  /\ shellPhase' # "reloading" /\ via' = "start" /\ bg' \cap todo' = {}
               /\ \A s \in bg' \cup todo' : cache'[s].status = "running"
               /\ \A s \in BgShells : told'[s] + steer'[s] + before'[s] <= 1
               /\ \A s \in bg' : cache'[s].suppressed => s \in silenced'
               /\ \A s \in BgShells : file'[s].status = "ended" /\ file'[s].suppressed
                                      => file'[s].acked
    BY DEF QuietInv
  <2>2. shellPhase = "off" /\ bg = {} /\ unwritten = {}
    BY <1>1, <1>6, <2>1 DEF ShellInv, QuietInv
  <2>3. \A s \in BgShells : file'[s].status = "ended" /\ file'[s].suppressed => file'[s].acked
    BY <1>1, <1>3, <1>4, <2>1, <2>2 DEF ShellInv, QuietInv
  <2>4. \A s \in BgShells : told'[s] + steer'[s] + before'[s] <= 1
    BY <1>1, <2>1 DEF ShellInv, QuietInv
  <2>5. QED
    BY <1>1, <1>5, <2>2, <2>3, <2>4
<1>12. PromiseInv'
  BY <1>1 DEF PromiseInv
<1>13. QED
  BY <1>7, <1>8, <1>9, <1>10, <1>11, <1>12 DEF ShellInv

LEMMA SurfaceShellInv ==
  ASSUME ShellInv, NEW s \in BgShells, Bg!Surface(s)
  PROVE  ShellInv'
<1> DEFINE new == [cache[s] EXCEPT !.status = "ended", !.acked = cache[s].suppressed]
<1>1. /\ shellPhase = "surfacing" /\ s \in todo /\ todo' = todo \ {s}
      /\ \/ process[s] = "exited" /\ Bg!Write(s, new)
         \/ UNCHANGED <<file, cache, unwritten>>
      /\ UNCHANGED <<process, shellPhase, via, fore, bg, silenced, steer, before, told,
                     interrupted, returned, leaves>>
  BY DEF Bg!Surface, Bg!recordVars, Bg!entryVars, Bg!noticeVars
<1>2. /\ cache[s] \in Bg!Records /\ cache[s] = file[s] /\ cache[s].status = "running"
      /\ unwritten = {} /\ fore = {} /\ bg = {} /\ silenced = {}
      /\ cache[s].suppressed \in BOOLEAN
  BY <1>1 DEF ShellInv, ShellTyped, RecordInv, EntryInv, Bg!Records
<1>3. /\ new \in Bg!Records /\ new.status = "ended"
      /\ (new.acked <=> cache[s].suppressed) /\ (new.suppressed <=> cache[s].suppressed)
  BY <1>2, SetEnded
<1>4. "ended" \in Final /\ "running" \notin Final
  BY DEF Final
<1> HIDE DEF new
<1>5. told[s] = 0 /\ before[s] = 0 /\ \A t \in BgShells : steer[t] = 0
  BY <1>1, <1>2, <1>4, Counts DEF ShellInv, NoticeInv
<1>6. CASE process[s] = "exited" /\ Bg!Write(s, new)
  <2>1. /\ cache' \in [BgShells -> Bg!Records] /\ file' \in [BgShells -> Bg!Records]
        /\ cache'[s] = new /\ file'[s] = new /\ unwritten' = {}
        /\ \A t \in BgShells \ {s} : cache'[t] = cache[t] /\ file'[t] = file[t]
    BY <1>1, <1>3, <1>6, Writing DEF ShellInv
  <2>2. ShellTyped'
    BY <1>1, <2>1 DEF ShellInv, ShellTyped
  <2>3. RecordInv'
    BY <1>1, <1>2, <1>6, <2>1 DEF ShellInv, RecordInv, Unrecorded
  <2>4. EntryInv'
    BY <1>1, <1>2, <2>1 DEF ShellInv, ShellTyped, EntryInv
  <2>5. NoticeInv'
    <3>1. \A t \in BgShells : Reason(t, file[t])' /\ Reason(t, cache[t])'
      BY <1>1, <1>3, <2>1 DEF ShellInv, NoticeInv, Reason
    <3>2. s \notin returned
      BY <1>1 DEF ShellInv, NoticeInv
    <3>3. QED
      BY <1>1, <1>4, <1>5, <2>1, <3>1, <3>2 DEF ShellInv, ShellTyped, NoticeInv
  <2>6. QuietInv'
    BY <1>1, <1>2, <1>3, <2>1 DEF ShellInv, ShellTyped, QuietInv
  <2>7. PromiseInv'
    BY <1>1 DEF PromiseInv
  <2>8. QED
    BY <2>2, <2>3, <2>4, <2>5, <2>6, <2>7 DEF ShellInv
<1>7. CASE UNCHANGED <<file, cache, unwritten>>
  <2>1. ShellTyped' /\ RecordInv' /\ EntryInv'
    BY <1>1, <1>2, <1>7 DEF ShellInv, ShellTyped, RecordInv, EntryInv
  <2>2. NoticeInv' /\ QuietInv' /\ PromiseInv'
    BY <1>1, <1>2, <1>7 DEF ShellInv, NoticeInv, QuietInv, PromiseInv, Reason
  <2>3. QED
    BY <2>1, <2>2 DEF ShellInv
<1>8. QED
  BY <1>1, <1>6, <1>7

LEMMA SurfaceEndsShellInv ==
  ASSUME ShellInv, Bg!SurfaceEnds
  PROVE  ShellInv'
<1>1. /\ shellPhase = "surfacing" /\ todo = {}
      /\ shellPhase' = "resuming" /\ todo' = Bg!Running(cache)
      /\ before' = [s \in BgShells |-> IF s \in Bg!Unread /\ told[s] = 0 THEN 1 ELSE before[s]]
      /\ cache' = [s \in BgShells |->
                    [cache[s] EXCEPT !.acked = @ \/ (s \in Bg!Unread /\ told[s] > 0)]]
      /\ file' = [s \in BgShells |-> IF s \in Bg!Unread THEN cache'[s] ELSE file[s]]
      /\ UNCHANGED <<process, via, unwritten, fore, bg, silenced, steer, told, interrupted,
                     returned, leaves>>
  BY DEF Bg!SurfaceEnds, Bg!entryVars
<1>2. /\ unwritten = {} /\ fore = {} /\ bg = {} /\ silenced = {}
      /\ \A t \in BgShells : cache[t] = file[t] /\ cache[t] \in Bg!Records /\ steer[t] = 0
                           /\ told[t] \in Nat /\ before[t] \in 0 .. 1
  BY <1>1, Counts DEF ShellInv, ShellTyped, RecordInv, EntryInv, NoticeInv
<1>3. ASSUME NEW t \in BgShells
      PROVE  /\ cache'[t] \in Bg!Records /\ cache'[t].status = cache[t].status
             /\ cache'[t].acked <=> (cache[t].acked \/ (t \in Bg!Unread /\ told[t] > 0))
             /\ cache'[t].suppressed <=> cache[t].suppressed
             /\ t \notin Bg!Unread => cache'[t] = cache[t]
  <2> DEFINE ack == t \in Bg!Unread /\ told[t] > 0
  <2>1. cache'[t] = [cache[t] EXCEPT !.acked = @ \/ ack]
    BY <1>1
  <2>2. ack \in BOOLEAN /\ (t \notin Bg!Unread => ~ack)
    OBVIOUS
  <2>3. t \notin Bg!Unread => cache'[t] = cache[t]
    <3>1. SUFFICES ASSUME t \notin Bg!Unread PROVE cache'[t] = cache[t]
      OBVIOUS
    <3>2. cache'[t] = [cache[t] EXCEPT !.acked = @ \/ FALSE]
      BY <2>1, <2>2, <3>1
    <3>3. cache[t] \in [status : Bg!Statuses, acked : BOOLEAN, suppressed : BOOLEAN]
      BY <1>2 DEF Bg!Records
    <3>4. QED
      BY <3>2, <3>3
  <2> HIDE DEF ack
  <2>4. [cache[t] EXCEPT !.acked = @ \/ ack] \in Bg!Records
    BY <1>2, <2>2, SetAcked
  <2>5. /\ [cache[t] EXCEPT !.acked = @ \/ ack].status = cache[t].status
        /\ [cache[t] EXCEPT !.acked = @ \/ ack].acked <=> (cache[t].acked \/ ack)
        /\ [cache[t] EXCEPT !.acked = @ \/ ack].suppressed <=> cache[t].suppressed
    BY <1>2, <2>2, SetAcked
  <2>6. QED
    BY <2>1, <2>3, <2>4, <2>5 DEF ack
<1>4. /\ \A t \in BgShells : file'[t] = cache'[t]
      /\ cache' \in [BgShells -> Bg!Records] /\ file' \in [BgShells -> Bg!Records]
  <2>1. \A t \in BgShells : file'[t] = cache'[t]
    BY <1>1, <1>2, <1>3
  <2>2. QED
    BY <1>1, <1>3, <2>1
<1>5. /\ before' \in [BgShells -> 0 .. 1]
      /\ \A t \in BgShells : /\ before'[t] = IF t \in Bg!Unread /\ told[t] = 0 THEN 1
                                            ELSE before[t]
                             /\ before'[t] \in 0 .. 1
  BY <1>1, <1>2
<1>6. /\ todo' \subseteq BgShells /\ \A t \in todo' : cache[t].status = "running"
      /\ \A t \in Bg!Unread : t \in BgShells /\ cache[t].status = "ended" /\ ~cache[t].acked
      /\ "running" \notin Final /\ "ended" \in Final
  BY <1>1 DEF Bg!Running, Bg!Unread, Final
<1>7. ShellTyped'
  BY <1>1, <1>4, <1>5, <1>6 DEF ShellInv, ShellTyped
<1>8. RecordInv'
  <2>1. ASSUME NEW t \in BgShells, process'[t] \in Unrecorded
        PROVE  file'[t] = Bg!NoRecord
    <3>1. process[t] \in Unrecorded
      BY <1>1, <2>1
    <3>2. file[t].status = "none" /\ file[t] = Bg!NoRecord
      BY <3>1, Unlaunched DEF ShellInv, RecordInv
    <3>3. t \notin Bg!Unread
      BY <1>2, <1>6, <3>2
    <3>4. QED
      BY <1>1, <3>2, <3>3
  <2>2. QED
    BY <1>1, <1>2, <1>4, <2>1 DEF RecordInv
<1>9. EntryInv'
  BY <1>1, <1>2, <1>3, <1>6 DEF EntryInv
<1>10. NoticeInv'
  <2>1. ASSUME NEW t \in BgShells
        PROVE  Reason(t, file[t])' /\ Reason(t, cache[t])'
    <3>1. Reason(t, cache[t])
      BY DEF ShellInv, NoticeInv
    <3>2. Reason(t, cache[t])'
      BY <1>1, <1>3, <3>1 DEF Reason
    <3>3. QED
      BY <1>4, <3>2
  <2>2. \A t \in BgShells : file'[t].status = file[t].status
                          /\ (file[t].acked => file'[t].acked)
    BY <1>2, <1>3, <1>4
  <2>3. ASSUME NEW t \in BgShells, told'[t] > 0 \/ before'[t] > 0
        PROVE  file'[t].status \in Final
    <3>1. CASE t \in Bg!Unread
      BY <1>2, <1>6, <2>2, <3>1
    <3>2. CASE t \notin Bg!Unread
      <4>1. told[t] > 0 \/ before[t] > 0
        BY <1>1, <1>5, <2>3, <3>2
      <4>2. file[t].status \in Final
        BY <4>1 DEF ShellInv, NoticeInv
      <4>3. QED
        BY <2>2, <4>2
    <3>3. QED
      BY <3>1, <3>2
  <2>4. \A t \in BgShells : steer'[t] = 0
    BY <1>1, <1>2
  <2>5. ASSUME NEW t \in returned'
        PROVE  /\ told'[t] = 0 /\ steer'[t] = 0 /\ before'[t] = 0
               /\ file'[t].status \in Final /\ file'[t].acked
               /\ t \notin fore' \cup bg' \cup todo'
    <3>1. /\ t \in BgShells /\ told[t] = 0 /\ steer[t] = 0 /\ before[t] = 0
          /\ file[t].status \in Final /\ file[t].acked
      BY <1>1, <2>5 DEF ShellInv, ShellTyped, NoticeInv
    <3>2. t \notin Bg!Unread /\ t \notin todo'
      BY <1>2, <1>6, <3>1
    <3>3. QED
      BY <1>1, <1>2, <1>5, <2>2, <3>1, <3>2
  <2>6. QED
    BY <2>1, <2>3, <2>4, <2>5 DEF NoticeInv
<1>11. QuietInv'
  <2>1. ASSUME leaves.reloads = 0, NEW t \in BgShells
        PROVE  /\ told'[t] + steer'[t] + before'[t] <= 1
               /\ file'[t].status = "ended" /\ file'[t].suppressed => file'[t].acked
    <3>1. /\ told[t] + steer[t] + before[t] <= 1
          /\ file[t].status = "ended" /\ file[t].suppressed => file[t].acked
      BY <2>1 DEF ShellInv, QuietInv
    <3>2. told'[t] + steer'[t] + before'[t] <= 1
      BY <1>1, <1>2, <1>5, <3>1
    <3>3. QED
      BY <1>2, <1>3, <1>4, <3>1, <3>2
  <2>2. ASSUME leaves.reloads = 0
        PROVE  shellPhase' # "reloading" /\ via' = "start"
    BY <1>1, <2>2 DEF ShellInv, QuietInv
  <2>3. QED
    BY <1>1, <1>2, <1>3, <1>6, <2>1, <2>2 DEF QuietInv
<1>12. PromiseInv'
  <2>1. ASSUME NEW t \in Bg!Unread'
        PROVE  told'[t] + steer'[t] + before'[t] > 0
    <3>1. t \in BgShells /\ cache'[t].status = "ended" /\ ~cache'[t].acked
      BY DEF Bg!Unread
    <3>2. t \in Bg!Unread /\ ~(told[t] > 0)
      BY <1>3, <3>1 DEF Bg!Unread
    <3>3. before'[t] = 1 /\ told[t] = 0
      BY <1>2, <1>5, <3>1, <3>2
    <3>4. QED
      BY <1>1, <1>2, <3>1, <3>3
  <2>2. QED
    BY <2>1 DEF PromiseInv
<1>13. QED
  BY <1>7, <1>8, <1>9, <1>10, <1>11, <1>12 DEF ShellInv

LEMMA ResumeShellInv ==
  ASSUME ShellInv, NEW s \in BgShells, Bg!Resume(s)
  PROVE  ShellInv'
<1>1. /\ shellPhase = "resuming" /\ s \in todo
      /\ \/ /\ s \notin bg /\ process[s] # "gone" /\ bg' = bg \cup {s}
            /\ silenced' = IF cache[s].suppressed THEN silenced \cup {s} ELSE silenced
         \/ UNCHANGED <<bg, silenced>>
      /\ UNCHANGED <<process, shellPhase, via, file, cache, unwritten, fore, steer, before, told,
                     interrupted, returned, leaves>>
  BY DEF Bg!Resume, Bg!recordVars, Bg!noticeVars
<1>2. todo' \subseteq todo \ {s}
  BY DEF Bg!Resume, Bg!Waiting
<1>3. bg' \subseteq bg \cup {s} /\ silenced' \subseteq bg'
      /\ \A t \in silenced' : t \in silenced \/ (t = s /\ cache[s].suppressed)
  BY <1>1 DEF ShellInv, ShellTyped
<1>4. /\ fore = {} /\ s \notin returned
      /\ cache[s].status \in Final \cup {"running"}
  BY <1>1 DEF ShellInv, EntryInv, NoticeInv
<1>5. ShellTyped'
  BY <1>1, <1>2, <1>3 DEF ShellInv, ShellTyped
<1>6. RecordInv' /\ PromiseInv'
  BY <1>1 DEF ShellInv, RecordInv, PromiseInv, Bg!Unread
<1>7. EntryInv'
  BY <1>1, <1>2, <1>3, <1>4 DEF ShellInv, EntryInv
<1>8. NoticeInv'
  <2>1. \A t \in BgShells : Reason(t, file[t])' /\ Reason(t, cache[t])'
    BY <1>1 DEF ShellInv, NoticeInv, Reason
  <2>2. QED
    BY <1>1, <1>2, <1>3, <1>4, <2>1 DEF ShellInv, NoticeInv
<1>9. QuietInv'
  <2>1. \A t \in bg' : t \in bg \/ (t = s /\ (cache[s].suppressed => s \in silenced'))
    BY <1>1
  <2>2. \A t \in silenced : t \in silenced'
    BY <1>1
  <2>3. QED
    BY <1>1, <1>2, <1>3, <2>1, <2>2 DEF ShellInv, QuietInv
<1>10. QED
  BY <1>5, <1>6, <1>7, <1>8, <1>9 DEF ShellInv

LEMMA ResumeEndsShellInv ==
  ASSUME ShellInv, Bg!ResumeEnds
  PROVE  ShellInv'
<1>1. /\ shellPhase = "resuming" /\ todo = {} /\ shellPhase' = "ready"
      /\ UNCHANGED <<process, via, todo, file, cache, unwritten, fore, bg, silenced, steer,
                     before, told, interrupted, returned, leaves>>
  BY DEF Bg!ResumeEnds, Bg!recordVars, Bg!entryVars, Bg!noticeVars
<1>2. ShellTyped' /\ RecordInv' /\ EntryInv'
  BY <1>1 DEF ShellInv, ShellTyped, RecordInv, EntryInv
<1>3. NoticeInv' /\ QuietInv' /\ PromiseInv'
  BY <1>1 DEF ShellInv, NoticeInv, QuietInv, PromiseInv, Reason, Bg!Unread
<1>4. QED
  BY <1>2, <1>3 DEF ShellInv

-----------------------------------------------------------------------------
(* session_shutdown, and death *)

LEMMA ReloadShellInv ==
  ASSUME ShellInv, Bg!Reload
  PROVE  ShellInv'
<1>1. /\ shellPhase = "ready" /\ fore = {} /\ shellPhase' = "reloading"
      /\ UNCHANGED <<process, via, todo, file, cache, unwritten, fore, bg, silenced, steer,
                     before, told, interrupted, returned>>
  BY DEF Bg!Reload, Bg!NoTool, Bg!recordVars, Bg!entryVars, Bg!noticeVars
<1>2. leaves' \in [crashes : Nat, leaves : Nat, reloads : Nat] /\ leaves'.reloads # 0
  BY Spending DEF ShellInv, Bg!Reload
<1>3. todo = {}
  BY <1>1 DEF ShellInv, EntryInv
<1>4. ShellTyped' /\ RecordInv' /\ EntryInv'
  BY <1>1, <1>2, <1>3 DEF ShellInv, ShellTyped, RecordInv, EntryInv
<1>5. NoticeInv' /\ QuietInv' /\ PromiseInv'
  BY <1>1, <1>2 DEF ShellInv, NoticeInv, QuietInv, PromiseInv, Reason
<1>6. QED
  BY <1>4, <1>5 DEF ShellInv

LEMMA LeaveShellInv ==
  ASSUME ShellInv, Bg!Leave
  PROVE  ShellInv'
<1>1. /\ shellPhase = "ready" /\ fore = {} /\ shellPhase' = "off"
      /\ file' = [s \in BgShells |-> IF s \in bg /\ cache[s].status = "running"
                                   THEN [cache[s] EXCEPT !.status = "shutdown"] ELSE file[s]]
      /\ \/ cache' = file' /\ UNCHANGED before
         \/ cache' = [s \in BgShells |-> Bg!NoRecord] /\ before' = Bg!Nothing
      /\ bg' = {} /\ silenced' = {} /\ steer' = Bg!Nothing
      /\ UNCHANGED <<process, via, todo, unwritten, fore, told, interrupted, returned>>
  BY DEF Bg!Leave, Bg!NoTool
<1>2. /\ leaves' \in [crashes : Nat, leaves : Nat, reloads : Nat]
      /\ leaves'.reloads = leaves.reloads
  BY Spending DEF ShellInv, Bg!Leave
<1>3. /\ todo = {} /\ unwritten = {} /\ "running" \notin Final /\ "shutdown" \notin Final
      /\ "shutdown" # "running"
      /\ \A t \in BgShells : /\ cache[t] = file[t] /\ cache[t] \in Bg!Records
                             /\ told[t] \in Nat /\ before[t] \in 0 .. 1 /\ steer[t] \in Nat
  BY <1>1, Counts DEF ShellInv, ShellTyped, RecordInv, EntryInv, Final
<1>4. ASSUME NEW t \in BgShells
      PROVE  /\ file'[t] \in Bg!Records
             /\ file[t].status # "running" => file'[t] = file[t]
             /\ file'[t].acked <=> file[t].acked
             /\ file'[t].suppressed <=> file[t].suppressed
             /\ file'[t].status \in {file[t].status, "shutdown"}
             /\ t \notin bg => file'[t] = file[t]
  <2>1. CASE t \in bg /\ cache[t].status = "running"
    <3>1. file'[t] = [cache[t] EXCEPT !.status = "shutdown"]
      BY <1>1, <2>1
    <3>2. [cache[t] EXCEPT !.status = "shutdown"] \in Bg!Records
      BY <1>3, SetShutdown
    <3>3. /\ [cache[t] EXCEPT !.status = "shutdown"].status = "shutdown"
          /\ [cache[t] EXCEPT !.status = "shutdown"].acked <=> cache[t].acked
          /\ [cache[t] EXCEPT !.status = "shutdown"].suppressed <=> cache[t].suppressed
      BY <1>3, SetShutdown
    <3>4. QED
      BY <1>3, <2>1, <3>1, <3>2, <3>3
  <2>2. CASE ~(t \in bg /\ cache[t].status = "running")
    BY <1>1, <1>3, <2>2
  <2>3. QED
    BY <2>1, <2>2
<1>5. /\ file' \in [BgShells -> Bg!Records] /\ cache' \in [BgShells -> Bg!Records]
      /\ \A t \in BgShells : cache'[t] = file'[t] \/ cache'[t] = Bg!NoRecord
  <2>1. file' \in [BgShells -> Bg!Records]
    BY <1>1, <1>4
  <2>2. QED
    BY <1>1, <2>1, NoRecordIs
<1>6. /\ \A t \in BgShells : steer'[t] = 0 /\ before'[t] \in {0, before[t]}
      /\ steer' \in [BgShells -> Nat] /\ before' \in [BgShells -> 0 .. 1]
  BY <1>1 DEF Bg!Nothing, ShellInv, ShellTyped
<1>7. ShellTyped'
  BY <1>1, <1>2, <1>5, <1>6 DEF ShellInv, ShellTyped
<1>8. RecordInv'
  <2>1. ASSUME NEW t \in BgShells, process'[t] \in Unrecorded
        PROVE  file'[t] = Bg!NoRecord
    <3>1. file[t] = Bg!NoRecord /\ t \notin bg
      BY <1>1, <2>1, Unlaunched DEF ShellInv, RecordInv
    <3>2. QED
      BY <1>4, <3>1
  <2>2. QED
    BY <1>1, <1>3, <1>5, <2>1 DEF RecordInv
<1>9. EntryInv' /\ PromiseInv'
  BY <1>1, <1>3 DEF EntryInv, PromiseInv
<1>10. NoticeInv'
  <2>1. ASSUME NEW t \in BgShells
        PROVE  Reason(t, file[t])' /\ Reason(t, cache[t])'
    <3>1. Reason(t, file[t])
      BY DEF ShellInv, NoticeInv
    <3>2. CASE file[t].status = "detached"
      BY <1>1, <1>4, <1>5, <3>1, <3>2, NoRecordIs DEF Reason
    <3>3. CASE file[t].status # "detached"
      BY <1>1, <1>4, <1>5, <3>1, <3>3, NoRecordIs DEF Reason
    <3>4. QED
      BY <3>2, <3>3
  <2>2. \A t \in BgShells : file[t].status \in Final => file'[t] = file[t]
    BY <1>3, <1>4
  <2>3. \A t \in BgShells : told'[t] > 0 \/ before'[t] > 0 => file'[t].status \in Final
    BY <1>1, <1>3, <1>6, <2>2 DEF ShellInv, NoticeInv
  <2>4. ASSUME NEW t \in returned'
        PROVE  /\ told'[t] = 0 /\ steer'[t] = 0 /\ before'[t] = 0
               /\ file'[t].status \in Final /\ file'[t].acked
               /\ t \notin fore' \cup bg' \cup todo'
    <3>1. /\ t \in BgShells /\ told[t] = 0 /\ before[t] = 0
          /\ file[t].status \in Final /\ file[t].acked
      BY <1>1, <2>4 DEF ShellInv, ShellTyped, NoticeInv
    <3>2. QED
      BY <1>1, <1>3, <1>6, <2>2, <3>1
  <2>5. QED
    BY <1>6, <2>1, <2>3, <2>4 DEF NoticeInv
<1>11. QuietInv'
  <2>1. ASSUME leaves.reloads = 0, NEW t \in BgShells
        PROVE  /\ told'[t] + steer'[t] + before'[t] <= 1
               /\ file'[t].status = "ended" /\ file'[t].suppressed => file'[t].acked
    <3>1. /\ told[t] + steer[t] + before[t] <= 1
          /\ file[t].status = "ended" /\ file[t].suppressed => file[t].acked
      BY <2>1 DEF ShellInv, QuietInv
    <3>2. told'[t] + steer'[t] + before'[t] <= 1
      BY <1>1, <1>3, <1>6, <3>1
    <3>3. QED
      BY <1>4, <3>1, <3>2
  <2>2. ASSUME leaves.reloads = 0
        PROVE  via' = "start"
    BY <1>1, <2>2 DEF ShellInv, QuietInv
  <2>3. QED
    BY <1>1, <1>2, <1>3, <2>1, <2>2 DEF QuietInv
<1>12. QED
  BY <1>7, <1>8, <1>9, <1>10, <1>11 DEF ShellInv

LEMMA CrashShellInv ==
  ASSUME ShellInv, Bg!Crash
  PROVE  ShellInv'
<1>1. /\ shellPhase' = "off" /\ todo' = {} /\ unwritten' = {}
      /\ cache' = [s \in BgShells |-> Bg!NoRecord]
      /\ fore' = {} /\ bg' = {} /\ silenced' = {}
      /\ steer' = Bg!Nothing /\ before' = Bg!Nothing
      /\ process' = [s \in BgShells |-> IF process[s] = "launched" THEN "running"
                                        ELSE process[s]]
      /\ UNCHANGED <<via, file, told, interrupted, returned>>
  BY DEF Bg!Crash
<1>2. /\ leaves' \in [crashes : Nat, leaves : Nat, reloads : Nat]
      /\ leaves'.reloads = leaves.reloads
  BY Spending DEF ShellInv, Bg!Crash
<1>3. /\ \A t \in BgShells : /\ cache'[t] = Bg!NoRecord /\ steer'[t] = 0 /\ before'[t] = 0
                             /\ told[t] \in Nat /\ before[t] \in 0 .. 1 /\ steer[t] \in Nat
      /\ cache' \in [BgShells -> Bg!Records]
      /\ steer' \in [BgShells -> Nat] /\ before' \in [BgShells -> 0 .. 1]
  BY <1>1, NoRecordIs, Counts DEF Bg!Nothing, ShellInv
<1>4. ShellTyped'
  BY <1>1, <1>2, <1>3 DEF ShellInv, ShellTyped
<1>5. RecordInv'
  <2>1. \A t \in BgShells : process'[t] \in Unrecorded => process[t] \in Unrecorded
    BY <1>1 DEF Unrecorded
  <2>2. QED
    BY <1>1, <1>3, <2>1 DEF ShellInv, RecordInv
<1>6. EntryInv' /\ PromiseInv'
  BY <1>1 DEF EntryInv, PromiseInv
<1>7. NoticeInv'
  <2>1. \A t \in BgShells : Reason(t, file[t])' /\ Reason(t, cache[t])'
    BY <1>1, <1>3, NoRecordIs DEF ShellInv, NoticeInv, Reason
  <2>2. QED
    BY <1>1, <1>3, <2>1 DEF ShellInv, ShellTyped, NoticeInv
<1>8. QuietInv'
  <2>1. ASSUME leaves.reloads = 0, NEW t \in BgShells
        PROVE  told'[t] + steer'[t] + before'[t] <= 1
    <3>1. told[t] + steer[t] + before[t] <= 1
      BY <2>1 DEF ShellInv, QuietInv
    <3>2. QED
      BY <1>1, <1>3, <3>1
  <2>2. QED
    BY <1>1, <1>2, <2>1 DEF ShellInv, QuietInv
<1>9. QED
  BY <1>4, <1>5, <1>6, <1>7, <1>8 DEF ShellInv

-----------------------------------------------------------------------------
(* Every step *)

LEMMA ShellNextInv ==
  ShellInv /\ [Bg!Next]_(Bg!vars) => ShellInv'
<1> SUFFICES ASSUME ShellInv, [Bg!Next]_(Bg!vars)
             PROVE  ShellInv'
  OBVIOUS
<1>1. CASE Bg!Start \/ Bg!SurfaceEnds \/ Bg!ResumeEnds
  BY <1>1, StartShellInv, SurfaceEndsShellInv, ResumeEndsShellInv
<1>2. CASE Bg!Reload \/ Bg!Leave \/ Bg!Crash
  BY <1>2, ReloadShellInv, LeaveShellInv, CrashShellInv
<1>3. CASE Bg!Prompt \/ Bg!Acknowledge
  BY <1>3, PromptShellInv, AcknowledgeShellInv
<1>4. ASSUME NEW s \in BgShells,
             \/ Bg!ProcessExits(s) \/ Bg!DaemonDies(s) \/ Bg!StartFails(s)
             \/ Bg!Launch(s) \/ Bg!RecordStart(s) \/ Bg!Background(s)
             \/ Bg!Kill(s) \/ Bg!Detach(s)
      PROVE  ShellInv'
  BY <1>4, DaemonShellInv, LaunchShellInv, RecordStartShellInv, BackgroundShellInv,
     KillShellInv, DetachShellInv
<1>5. ASSUME NEW s \in BgShells,
             Bg!ExitEvent(s) \/ Bg!CloseEvent(s) \/ Bg!Deliver(s) \/ Bg!Surface(s) \/ Bg!Resume(s)
      PROVE  ShellInv'
  BY <1>5, EventShellInv, DeliverShellInv, SurfaceShellInv, ResumeShellInv
<1>6. CASE UNCHANGED Bg!vars
  <2>1. ShellTyped' /\ RecordInv' /\ EntryInv'
    BY <1>6 DEF ShellInv, ShellTyped, RecordInv, EntryInv, Bg!vars, Bg!startVars, Bg!recordVars,
       Bg!entryVars, Bg!noticeVars
  <2>2. NoticeInv' /\ QuietInv' /\ PromiseInv'
    BY <1>6 DEF ShellInv, NoticeInv, QuietInv, PromiseInv, Reason, Bg!Unread, Bg!vars,
       Bg!startVars, Bg!recordVars, Bg!entryVars, Bg!noticeVars
  <2>3. QED
    BY <2>1, <2>2 DEF ShellInv
<1>7. QED
  BY <1>1, <1>2, <1>3, <1>4, <1>5, <1>6 DEF Bg!Next

(* The inductive invariant *)
THEOREM ShellInvariants ==
  Bg!Spec => []ShellInv
<1>1. Bg!Init => ShellInv
  BY ShellInitInv
<1>2. ShellInv /\ [Bg!Next]_(Bg!vars) => ShellInv'
  BY ShellNextInv
<1>3. QED
  BY <1>1, <1>2, PTL DEF Bg!Spec

(* Types; and what is in memory is in the session file, unless a reload goes on *)
THEOREM ShellTypes ==
  Bg!Spec => []Bg!TypeOK
<1>1. ShellInv => Bg!TypeOK
  BY DEF ShellInv, ShellTyped, RecordInv, EntryInv, Bg!TypeOK
<1>2. QED
  BY <1>1, ShellInvariants, PTL

(* acknowledgeShellNotifications, recordShellEnd and surfaceCompletedShells: a record is
   acknowledged only for a reason *)
THEOREM AcknowledgedHasReason ==
  Bg!Spec => []Bg!AcknowledgedIsTold
<1>1. ShellInv => Bg!AcknowledgedIsTold
  BY DEF ShellInv, NoticeInv, Reason, Bg!AcknowledgedIsTold
<1>2. QED
  BY <1>1, ShellInvariants, PTL

(* session_start: no completion is forgotten over crashes, quits and switches *)
THEOREM CompletionsAreTold ==
  Bg!Spec => []Bg!NothingForgotten
<1>1. ShellInv => Bg!NothingForgotten
  BY DEF ShellInv, PromiseInv, Bg!NothingForgotten
<1>2. QED
  BY <1>1, ShellInvariants, PTL

(* completeBackground, drainBeforeUser and the loops of session_start: nothing is told twice
   before the first reload *)
THEOREM TellsOnce ==
  Bg!Spec => []Bg!ToldOnce
<1>1. ASSUME ShellInv, leaves.reloads = 0, NEW s \in BgShells
      PROVE  told[s] + (IF s \in returned THEN 1 ELSE 0) <= 1
  <2>1. told[s] \in Nat /\ steer[s] \in Nat /\ before[s] \in 0 .. 1
    BY <1>1, Counts DEF ShellInv
  <2>2. told[s] + steer[s] + before[s] <= 1
    BY <1>1 DEF ShellInv, QuietInv
  <2>3. s \in returned => told[s] = 0
    BY <1>1 DEF ShellInv, NoticeInv
  <2>4. QED
    BY <2>1, <2>2, <2>3
<1>2. ShellInv => Bg!ToldOnce
  BY <1>1 DEF Bg!ToldOnce
<1>3. QED
  BY <1>2, ShellInvariants, PTL

(* detachBackground: what was detached is neither followed nor told of *)
THEOREM DetachedStaysAlone ==
  Bg!Spec => []Bg!DetachedIsLeftAlone
<1>1. ASSUME ShellInv, NEW s \in BgShells, file[s].status = "detached"
      PROVE  s \notin bg /\ told[s] + steer[s] + before[s] = 0
  <2>1. "detached" \notin Final /\ "detached" # "running"
    BY DEF Final
  <2>2. s \notin unwritten
    BY <1>1, <2>1 DEF ShellInv, RecordInv
  <2>3. told[s] = 0 /\ before[s] = 0
    BY <1>1, <2>1, Counts DEF ShellInv, NoticeInv
  <2>4. s \notin bg /\ ~(steer[s] > 0)
    BY <1>1, <2>1, <2>2 DEF ShellInv, RecordInv, EntryInv, NoticeInv
  <2>5. QED
    BY <1>1, <2>3, <2>4, Counts DEF ShellInv
<1>2. ShellInv => Bg!DetachedIsLeftAlone
  BY <1>1 DEF Bg!DetachedIsLeftAlone
<1>3. QED
  BY <1>2, ShellInvariants, PTL

(* Together: the notices of any set of shells, whatever crashes, quits, switches and reloads
   come between *)
THEOREM ShellsAreToldOf ==
  Bg!Spec => []ToldExactly
<1>1. Bg!AcknowledgedIsTold /\ Bg!NothingForgotten /\ Bg!ToldOnce /\ Bg!DetachedIsLeftAlone
      => ToldExactly
  BY DEF Bg!ToldExactly, ToldExactly
<1>2. QED
  BY <1>1, AcknowledgedHasReason, CompletionsAreTold, TellsOnce, DetachedStaysAlone, PTL

-----------------------------------------------------------------------------
(* SIGKILL silences *)

LEMMA QuietStep ==
  ASSUME ShellInv, [Bg!Next]_(Bg!vars), leaves.reloads = 0,
         NEW t \in BgShells, cache[t].suppressed
  PROVE  steer'[t] <= steer[t] /\ before'[t] <= before[t]
<1>1. steer[t] \in Nat /\ before[t] \in 0 .. 1 /\ told[t] \in Nat
  BY Counts DEF ShellInv
<1>2. \/ UNCHANGED <<steer, before>>
      \/ Bg!SurfaceEnds \/ Bg!Leave \/ Bg!Crash \/ Bg!Prompt
      \/ \E s \in BgShells : Bg!ExitEvent(s) \/ Bg!CloseEvent(s) \/ Bg!Deliver(s)
  BY DEF Bg!Next, Bg!vars, Bg!noticeVars, Bg!ProcessExits, Bg!DaemonDies, Bg!Launch,
     Bg!RecordStart, Bg!StartFails, Bg!Background, Bg!Kill, Bg!Detach, Bg!Acknowledge,
     Bg!Start, Bg!Surface, Bg!Resume, Bg!ResumeEnds, Bg!Reload
<1>3. CASE UNCHANGED <<steer, before>>
  BY <1>1, <1>3
<1>4. CASE Bg!SurfaceEnds
  <2>1. shellPhase = "surfacing" /\ UNCHANGED steer
        /\ before' = [s \in BgShells |-> IF s \in Bg!Unread /\ told[s] = 0 THEN 1 ELSE before[s]]
    BY <1>4 DEF Bg!SurfaceEnds
  <2>2. cache[t] = file[t]
    BY <2>1 DEF ShellInv, RecordInv
  <2>3. t \notin Bg!Unread
    BY <2>2 DEF ShellInv, QuietInv, Bg!Unread
  <2>4. QED
    BY <1>1, <2>1, <2>3
<1>5. CASE Bg!Leave \/ Bg!Crash
  <2>1. steer'[t] = 0 /\ (before'[t] = 0 \/ before' = before)
    BY <1>5 DEF Bg!Leave, Bg!Crash, Bg!Nothing
  <2>2. QED
    BY <1>1, <2>1
<1>6. CASE Bg!Prompt
  <2>1. steer' = steer /\ before'[t] = 0
    BY <1>6 DEF Bg!Prompt, Bg!Nothing
  <2>2. QED
    BY <1>1, <2>1
<1>7. ASSUME NEW s \in BgShells, Bg!ExitEvent(s) \/ Bg!CloseEvent(s)
      PROVE  steer'[t] <= steer[t] /\ before'[t] <= before[t]
  <2>1. before' = before
        /\ IF s \in bg /\ s \notin silenced THEN Bg!Notify(s) ELSE UNCHANGED steer
    BY <1>7 DEF Bg!ExitEvent, Bg!CloseEvent, Bg!Finished
  <2>2. t \in bg => t \in silenced
    BY DEF ShellInv, QuietInv
  <2>3. steer'[t] = steer[t]
    BY <2>1, <2>2 DEF Bg!Notify, ShellInv, ShellTyped
  <2>4. QED
    BY <1>1, <2>1, <2>3
<1>8. ASSUME NEW s \in BgShells, Bg!Deliver(s)
      PROVE  steer'[t] <= steer[t] /\ before'[t] <= before[t]
  <2>1. before' = before /\ steer' = [steer EXCEPT ![s] = @ - 1] /\ steer[s] \in Nat
    BY <1>8, Counts DEF Bg!Deliver, ShellInv
  <2>2. steer'[t] <= steer[t]
    BY <1>1, <2>1 DEF ShellInv, ShellTyped
  <2>3. QED
    BY <1>1, <2>1, <2>2
<1>9. QED
  BY <1>2, <1>3, <1>4, <1>5, <1>6, <1>7, <1>8

(* signalChild and silenceChild: nothing is said of a shell killed with SIGKILL, also when
   the harness comes back from a crash, a quit or a switch *)
THEOREM KilledIsQuiet ==
  Bg!Spec => SuppressedIsQuiet
<1> DEFINE Quiet == \A s \in BgShells : leaves.reloads = 0 /\ cache[s].suppressed =>
                      steer'[s] <= steer[s] /\ before'[s] <= before[s]
<1>1. ASSUME ShellInv, [Bg!Next]_(Bg!vars) PROVE [Quiet]_(Bg!vars)
  BY <1>1, QuietStep
<1>2. Bg!Spec => [][Quiet]_(Bg!vars)
  BY <1>1, ShellInvariants, PTL DEF Bg!Spec
<1>3. QED
  BY <1>2 DEF Bg!SuppressedIsQuiet, SuppressedIsQuiet

-----------------------------------------------------------------------------
(* Alarms                                                                    *)

Serials == 1 .. Len(made)
Objects == Serials \X Nat
Settings == [id : Ids, target : Nat]
SavedAlarms == [serial : Serials, fired : BOOLEAN]
StateEntries == [parent : Nat, refs : SUBSET Objects, saved : SUBSET SavedAlarms]

TreeTyped ==
  /\ entries \in Seq(StateEntries)
  /\ \A e \in 1 .. Len(entries) : entries[e].parent < e
  /\ leaf \in 0 .. Len(entries)
  /\ fires \subseteq [serial : Serials, entry : 1 .. Len(entries), at : Nat]

AlarmTyped ==
  /\ now \in 0 .. MaxTime /\ alarmPhase \in {"off", "arming", "on"} /\ unsaved \in BOOLEAN
  /\ made \in Seq(Settings)
  /\ alarms \subseteq Objects /\ fired \subseteq Objects
  /\ timers \subseteq [object : Objects, due : Nat]
  /\ TreeTyped

(* An entry has one alarm of a name; one that is not marked as fired was not when the entry
   was saved *)
EntriesInv ==
  \A e \in 1 .. Len(entries) :
    /\ \A o, p \in entries[e].refs : Clock!Alarm(o).id = Clock!Alarm(p).id => o = p
    /\ \A s, t \in entries[e].saved : made[s.serial].id = made[t.serial].id => s = t
    /\ \A o \in entries[e].refs \ fired :
         [serial |-> Clock!Serial(o), fired |-> FALSE] \in entries[e].saved

(* What is in memory is of the branch, all of it unless a cancellation is to be persisted;
   what is pending has a timer or is about to be armed *)
MemoryInv ==
  /\ \A o, p \in alarms : Clock!Alarm(o).id = Clock!Alarm(p).id => o = p
  /\ toArm \subseteq alarms
  /\ toArm # {} \/ unsaved => alarmPhase = "arming"
  /\ alarmPhase = "off" => alarms = {} /\ timers = {}
  /\ alarmPhase # "off" => alarms \subseteq Clock!Refs(leaf)
  /\ alarmPhase # "off" /\ ~unsaved => alarms = Clock!Refs(leaf)
  /\ alarmPhase # "off" => {t.object : t \in timers} = (alarms \ fired) \ toArm

IsBranch(f) ==
  f = [e \in 0 .. Len(entries) |-> IF e = 0 THEN {} ELSE {e} \cup f[entries[e].parent]]

(* The branches of the tree are what their recursive definition says: one function does it *)
TreeInv ==
  /\ IsBranch(Clock!Branch) /\ \A f : IsBranch(f) => f = Clock!Branch
  /\ \A e \in 0 .. Len(entries) : Clock!Branch[e] \subseteq 1 .. e

(* What fired on a branch is pending nowhere on it from there on *)
FiredInv ==
  \A n \in fires : \A e \in 1 .. Len(entries) :
    n.entry \in Clock!Branch[e] => n.serial \notin Clock!Unfired(e)

HistoryInv == TreeInv /\ Clock!FiresWhereArmed /\ FiredInv /\ Clock!OncePerBranch

AlarmInv == AlarmTyped /\ EntriesInv /\ MemoryInv /\ HistoryInv

LEMMA AlarmInit == ASSUME AlarmLimits, Clock!Init PROVE AlarmInv
<1>1. made = <<>> /\ entries = <<>> /\ Len(entries) = 0 /\ Len(made) = 0
  BY DEF Clock!Init
<1>2. AlarmTyped
  <2>1. /\ made \in Seq(Settings)
        /\ entries \in Seq(StateEntries)
    BY <1>1
  <2>2. \A e \in 1 .. Len(entries) : entries[e].parent < e
    BY <1>1
  <2>3. now \in 0 .. MaxTime /\ leaf \in 0 .. Len(entries)
    BY <1>1 DEF Clock!Init, AlarmLimits
  <2>4. QED
    BY <2>1, <2>2, <2>3 DEF Clock!Init, AlarmTyped, TreeTyped
<1>3. EntriesInv /\ MemoryInv /\ Clock!FiresWhereArmed /\ FiredInv /\ Clock!OncePerBranch
  BY <1>1 DEF Clock!Init, EntriesInv, MemoryInv, Clock!FiresWhereArmed, FiredInv,
     Clock!OncePerBranch, Clock!Refs
<1>4. TreeInv
  <2> DEFINE f == [e \in 0 .. Len(entries) |-> {}]
  <2>1. 0 .. Len(entries) = {0}
    BY <1>1
  <2>2. IsBranch(f)
    BY <2>1 DEF IsBranch
  <2>3. ASSUME NEW g, IsBranch(g) PROVE g = f
    BY <2>1, <2>3 DEF IsBranch
  <2>4. Clock!Branch = f
    BY <2>2, <2>3 DEF Clock!Branch, IsBranch
  <2>5. QED
    BY <2>1, <2>2, <2>3, <2>4 DEF TreeInv
<1>5. QED
  BY <1>2, <1>3, <1>4 DEF AlarmInv, HistoryInv

LEMMA EntriesTyped ==
  ASSUME AlarmTyped
  PROVE  /\ Len(entries) \in Nat /\ Len(made) \in Nat
         /\ \A e \in 1 .. Len(entries) :
              /\ entries[e].parent \in 0 .. e - 1 /\ entries[e].parent \in 0 .. Len(entries)
              /\ entries[e].refs \subseteq Objects
              /\ entries[e].saved \subseteq SavedAlarms
         /\ \A k \in Serials : made[k] \in Settings
<1>1. Len(entries) \in Nat /\ Len(made) \in Nat
  BY DEF AlarmTyped, TreeTyped
<1>2. ASSUME NEW e \in 1 .. Len(entries)
      PROVE  /\ entries[e].parent \in 0 .. e - 1 /\ entries[e].parent \in 0 .. Len(entries)
             /\ entries[e].refs \subseteq Objects
             /\ entries[e].saved \subseteq SavedAlarms
  <2>1. entries[e] \in StateEntries
    BY DEF AlarmTyped, TreeTyped
  <2>2. entries[e].parent \in Nat /\ entries[e].parent < e
    BY <2>1 DEF AlarmTyped, TreeTyped, StateEntries
  <2>3. QED
    BY <1>1, <2>1, <2>2 DEF StateEntries
<1>3. \A k \in Serials : made[k] \in Settings
  BY DEF AlarmTyped, TreeTyped, Serials
<1>4. QED
  BY <1>1, <1>2, <1>3

(* persistAlarms appends one entry below the leaf, which becomes the leaf *)
LEMMA PersistAppends ==
  ASSUME AlarmTyped, NEW live, NEW done, Clock!Persist(live, done)
  PROVE  LET new == Len(entries) + 1 IN
         /\ Len(entries') = new /\ leaf' = new
         /\ \A e \in 1 .. Len(entries) : entries'[e] = entries[e]
         /\ entries'[new].parent = leaf /\ entries'[new].refs = live
         /\ entries'[new].saved = 
              {[serial |-> Clock!Serial(o), fired |-> o \in done] : o \in live}
BY EntriesTyped DEF Clock!Persist, AlarmTyped, TreeTyped

(* A change of the entries that keeps their places keeps the branches *)
LEMMA SameTree ==
  ASSUME AlarmTyped, TreeInv, Len(entries') = Len(entries),
         \A e \in 1 .. Len(entries) : entries'[e].parent = entries[e].parent
  PROVE  Clock!Branch' = Clock!Branch /\ TreeInv'
<1>1. Len(entries) \in Nat
  BY EntriesTyped
<1>2. ASSUME NEW f PROVE IsBranch(f)' <=> IsBranch(f)
  <2>1. ASSUME NEW e \in 0 .. Len(entries)
        PROVE  (IF e = 0 THEN {} ELSE {e} \cup f[entries'[e].parent])
               = IF e = 0 THEN {} ELSE {e} \cup f[entries[e].parent]
    <3>1. CASE e = 0
      BY <3>1
    <3>2. CASE e \in 1 .. Len(entries)
      BY <3>2
    <3>3. QED
      BY <1>1, <3>1, <3>2
  <2>2. [e \in 0 .. Len(entries) |-> IF e = 0 THEN {} ELSE {e} \cup f[entries'[e].parent]]
        = [e \in 0 .. Len(entries) |-> IF e = 0 THEN {} ELSE {e} \cup f[entries[e].parent]]
    BY <2>1
  <2>3. QED
    BY <2>2 DEF IsBranch
<1>3. PICK b : b = Clock!Branch
  OBVIOUS
<1>4. IsBranch(b)' /\ \A f : IsBranch(f)' => f = b
  BY <1>2, <1>3 DEF TreeInv
<1>5. IsBranch(Clock!Branch)'
  BY <1>4 DEF Clock!Branch, IsBranch
<1>6. Clock!Branch' = b
  BY <1>4, <1>5
<1>7. \A e \in 0 .. Len(entries) : b[e] \subseteq 1 .. e
  BY <1>3 DEF TreeInv
<1>8. QED
  BY <1>3, <1>4, <1>6, <1>7 DEF TreeInv

(* An entry below the leaf makes one branch more, and changes none *)
LEMMA BranchGrows ==
  ASSUME AlarmTyped, TreeInv, NEW live, NEW done, Clock!Persist(live, done)
  PROVE  /\ Clock!Branch' = [e \in 0 .. Len(entries) + 1 |->
                         IF e = Len(entries) + 1 THEN {e} \cup Clock!Branch[leaf]
                         ELSE Clock!Branch[e]]
         /\ TreeInv'
<1>1. /\ Len(entries) \in Nat /\ leaf \in 0 .. Len(entries)
      /\ \A e \in 1 .. Len(entries) : entries[e].parent \in 0 .. Len(entries)
  BY EntriesTyped DEF AlarmTyped, TreeTyped
<1>2. PICK new, old : new = Len(entries) + 1 /\ old = Clock!Branch
  OBVIOUS
<1> DEFINE b == [e \in 0 .. new |-> IF e = new THEN {e} \cup old[leaf] ELSE old[e]]
<1>3. /\ Len(entries') = new
      /\ \A e \in 1 .. Len(entries) : entries'[e].parent = entries[e].parent
      /\ entries'[new].parent = leaf
  BY <1>2, PersistAppends
<1>4. /\ old = [e \in 0 .. Len(entries) |->
                  IF e = 0 THEN {} ELSE {e} \cup old[entries[e].parent]]
      /\ \A f : f = [e \in 0 .. Len(entries) |->
                       IF e = 0 THEN {} ELSE {e} \cup f[entries[e].parent]] => f = old
  BY <1>2 DEF TreeInv, IsBranch
<1>5. PICK g : g = b
  OBVIOUS
<1>6. IsBranch(g)'
  <2>1. ASSUME NEW e \in 0 .. new
        PROVE  b[e] = IF e = 0 THEN {} ELSE {e} \cup b[entries'[e].parent]
    <3>1. CASE e = 0
      BY <1>1, <1>2, <1>4, <3>1
    <3>2. CASE e \in 1 .. Len(entries)
      <4>1. entries'[e].parent = entries[e].parent /\ entries[e].parent \in 0 .. Len(entries)
        BY <1>1, <1>3, <3>2
      <4>2. b[entries[e].parent] = old[entries[e].parent] /\ b[e] = old[e]
        BY <1>1, <1>2, <3>2, <4>1
      <4>3. old[e] = {e} \cup old[entries[e].parent] /\ e # 0
        <5>1. e \in 0 .. Len(entries) /\ e # 0
          BY <1>1, <3>2
        <5>2. QED
          BY <1>4, <5>1
      <4>4. QED
        BY <4>1, <4>2, <4>3
    <3>3. CASE e = new
      BY <1>1, <1>2, <1>3, <3>3
    <3>4. QED
      BY <1>1, <1>2, <3>1, <3>2, <3>3
  <2>2. b = [e \in 0 .. new |-> IF e = 0 THEN {} ELSE {e} \cup b[entries'[e].parent]]
    BY <2>1
  <2> HIDE DEF b
  <2>3. QED
    BY <1>3, <1>5, <2>2 DEF IsBranch
<1>7. ASSUME NEW f, IsBranch(f)' PROVE f = g
  <2>1. f = [e \in 0 .. new |-> IF e = 0 THEN {} ELSE {e} \cup f[entries'[e].parent]]
    BY <1>3, <1>7 DEF IsBranch
  <2> DEFINE h == [e \in 0 .. Len(entries) |-> f[e]]
  <2>2. ASSUME NEW e \in 0 .. Len(entries)
        PROVE  h[e] = IF e = 0 THEN {} ELSE {e} \cup h[entries[e].parent]
    <3>1. CASE e = 0
      BY <1>1, <1>2, <2>1, <3>1
    <3>2. CASE e \in 1 .. Len(entries)
      <4>1. entries'[e].parent = entries[e].parent /\ entries[e].parent \in 0 .. Len(entries)
        BY <1>1, <1>3, <3>2
      <4>2. f[e] = {e} \cup f[entries'[e].parent]
        BY SMTT(20), <1>1, <1>2, <2>1, <3>2
      <4>3. h[e] = f[e] /\ h[entries[e].parent] = f[entries[e].parent] /\ e # 0
        BY <3>2, <4>1
      <4>4. QED
        BY <4>1, <4>2, <4>3
    <3>3. QED
      BY <1>1, <3>1, <3>2
  <2>3. h = [e \in 0 .. Len(entries) |-> IF e = 0 THEN {} ELSE {e} \cup h[entries[e].parent]]
    BY <2>2
  <2>4. h = old
    <3> HIDE DEF h
    <3>1. QED
      BY <1>4, <2>3
  <2>5. \A e \in 0 .. Len(entries) : f[e] = old[e]
    BY <2>4
  <2>6. f[new] = {new} \cup old[leaf]
    <3>1. new \in 0 .. new /\ new # 0
      BY <1>1, <1>2
    <3>2. f[new] = {new} \cup f[leaf]
      BY <1>3, <2>1, <3>1
    <3>3. QED
      BY <1>1, <2>5, <3>2
  <2>7. \A e \in 0 .. new : f[e] = b[e]
    <3>1. \A e \in 0 .. new : e \in 0 .. Len(entries) \/ e = new
      BY <1>1, <1>2
    <3>2. \A e \in 0 .. Len(entries) : e \in 0 .. new /\ e # new
      BY <1>1, <1>2
    <3>3. QED
      BY <1>1, <1>2, <2>5, <2>6, <3>1, <3>2
  <2>8. f = [e \in 0 .. new |-> f[e]]
    BY <2>1
  <2>9. QED
    BY <1>5, <2>7, <2>8
<1>8. IsBranch(Clock!Branch)'
  BY <1>6 DEF Clock!Branch, IsBranch
<1>9. Clock!Branch' = g
  BY <1>7, <1>8
<1>10. \A e \in 0 .. new : g[e] \subseteq 1 .. e
  BY <1>1, <1>2, <1>5 DEF TreeInv
<1>11. QED
  BY <1>2, <1>3, <1>5, <1>6, <1>7, <1>9, <1>10 DEF TreeInv

(* The alarms that persistAlarms saves as pending are pending at the leaf or new; a
   notification comes with the entry that ends the alarm's pending *)
LEMMA PersistKeeps ==
  ASSUME AlarmInv, NEW live, Clock!Persist(live, fired'),
         made' \in Seq(Settings), Serials \subseteq Serials',
         \A k \in Serials : made'[k] = made[k],
         live \subseteq Objects',
         \A o, p \in live : made'[Clock!Serial(o)].id = made'[Clock!Serial(p)].id => o = p,
         fired \subseteq fired',
         \A o \in live \ fired' :
            Clock!Serial(o) \in Clock!Unfired(leaf) \/ Clock!Serial(o) \notin Serials,
         fires \subseteq fires',
         \A n \in fires' \ fires :
           /\ n \in [serial : Serials, entry : {Len(entries) + 1}, at : {now}]
           /\ n.serial \in Clock!Unfired(leaf)
           /\ \A o \in live \ fired' : Clock!Serial(o) # n.serial
  PROVE  TreeTyped' /\ EntriesInv' /\ HistoryInv' /\ Clock!Refs(leaf)' = live
<1>0. PICK N, done, new : N = Len(entries) /\ done = fired' /\ new = fires' \ fires
  OBVIOUS
<1>0a. /\ Clock!Persist(live, done) /\ done \subseteq fired' /\ fires' = fires \cup new
       /\ \A o \in live \ done :
            Clock!Serial(o) \in Clock!Unfired(leaf) \/ Clock!Serial(o) \notin Serials
       /\ \A n \in new : /\ n \in [serial : Serials, entry : {N + 1}, at : {now}]
                          /\ n.serial \in Clock!Unfired(leaf)
                          /\ \A o \in live \ done : Clock!Serial(o) # n.serial
  BY <1>0
<1>1. /\ N \in Nat /\ N + 1 \notin 1 .. N /\ N + 1 \in 1 .. N + 1 /\ leaf \in 0 .. N
      /\ 1 .. N \subseteq 1 .. N + 1 /\ \A e \in 1 .. N + 1 : e \in 1 .. N \/ e = N + 1
      /\ now \in Nat
  BY <1>0a, <1>0, EntriesTyped DEF AlarmInv, AlarmTyped, TreeTyped
<1>2. /\ Len(entries') = N + 1 /\ leaf' = N + 1
      /\ \A e \in 1 .. N : entries'[e] = entries[e]
      /\ entries'[N + 1].parent = leaf /\ entries'[N + 1].refs = live
      /\ entries'[N + 1].saved = {[serial |-> Clock!Serial(o), fired |-> o \in done] : o \in live}
  BY <1>0a, <1>0, PersistAppends DEF AlarmInv
<1>3. /\ \A o \in Objects' : Clock!Serial(o) \in Serials'
      /\ \A o \in Objects : Clock!Serial(o) \in Serials /\ o \in Objects'
      /\ SavedAlarms \subseteq SavedAlarms'
  BY DEF Objects, Clock!Serial, SavedAlarms
<1>4. TreeTyped'
  <2>1. StateEntries \subseteq StateEntries'
    BY <1>0a, <1>3 DEF StateEntries
  <2>2. entries \in Seq(StateEntries')
    BY <1>0a, <2>1 DEF AlarmInv, AlarmTyped, TreeTyped
  <2> DEFINE record == {[serial |-> Clock!Serial(o), fired |-> o \in done] : o \in live}
  <2>3. record \in SUBSET SavedAlarms'
    <3>1. ASSUME NEW o \in live
          PROVE  [serial |-> Clock!Serial(o), fired |-> o \in done] \in SavedAlarms'
      <4>1. (o \in done) \in BOOLEAN
        OBVIOUS
      <4>2. Clock!Serial(o) \in Serials'
        BY <1>0a, <1>3
      <4>3. QED
        BY <1>0a, <4>1, <4>2 DEF SavedAlarms
    <3>2. QED
      BY <1>0a, <3>1
  <2> HIDE DEF record
  <2>4. [parent |-> leaf, refs |-> live, saved |-> record] \in StateEntries'
    BY <1>0a, <1>1, <2>3 DEF StateEntries
  <2>5. entries' \in Seq(StateEntries')
    BY <1>0a, <2>2, <2>4 DEF Clock!Persist, record
  <2>6. \A e \in 1 .. N + 1 : entries'[e].parent < e
    <3>1. \A e \in 1 .. N : entries'[e].parent < e
      BY <1>0a, <1>0, <1>2 DEF AlarmInv, AlarmTyped, TreeTyped
    <3>2. QED
      BY <1>0a, <1>1, <1>2, <3>1
  <2>7. fires' \subseteq [serial : Serials', entry : 1 .. N + 1, at : Nat]
    BY <1>0a, <1>0, <1>1 DEF AlarmInv, AlarmTyped, TreeTyped
  <2>8. leaf' \in 0 .. Len(entries') /\ Len(entries') = N + 1
    BY <1>0a, <1>1, <1>2
  <2>9. QED
    BY <1>0a, <2>5, <2>6, <2>7, <2>8 DEF TreeTyped
<1>5. EntriesInv'
  <2>1. ASSUME NEW e \in 1 .. N
        PROVE  /\ \A o, p \in entries'[e].refs : Clock!Alarm(o)'.id = Clock!Alarm(p)'.id => o = p
               /\ \A s, t \in entries'[e].saved : made'[s.serial].id = made'[t.serial].id => s = t
               /\ \A o \in entries'[e].refs \ fired' :
                    [serial |-> Clock!Serial(o), fired |-> FALSE] \in entries'[e].saved
    <3>1. /\ entries[e].refs \subseteq Objects /\ entries[e].saved \subseteq SavedAlarms
          /\ entries'[e] = entries[e]
      BY <1>0a, <1>0, <1>2, EntriesTyped DEF AlarmInv
    <3>2. /\ \A o \in entries[e].refs : Clock!Alarm(o)' = Clock!Alarm(o)
          /\ \A s \in entries[e].saved : made'[s.serial] = made[s.serial]
      BY <1>0a, <1>3, <3>1 DEF Clock!Alarm, SavedAlarms
    <3>3. QED
      BY <1>0a, <1>0, <3>1, <3>2 DEF AlarmInv, EntriesInv
  <2>2. /\ \A o, p \in live : Clock!Alarm(o)'.id = Clock!Alarm(p)'.id => o = p
        /\ \A s, t \in entries'[N + 1].saved : made'[s.serial].id = made'[t.serial].id => s = t
        /\ \A o \in live \ fired' :
             [serial |-> Clock!Serial(o), fired |-> FALSE] \in entries'[N + 1].saved
    <3>1. \A o, p \in live : Clock!Alarm(o)'.id = Clock!Alarm(p)'.id => o = p
      BY DEF Clock!Alarm
    <3>2. ASSUME NEW s \in entries'[N + 1].saved, NEW t \in entries'[N + 1].saved,
                 made'[s.serial].id = made'[t.serial].id
          PROVE  s = t
      <4>1. PICK o \in live : s = [serial |-> Clock!Serial(o), fired |-> o \in done]
        BY <1>0a, <1>2
      <4>2. PICK p \in live : t = [serial |-> Clock!Serial(p), fired |-> p \in done]
        BY <1>0a, <1>2
      <4>3. o = p
        BY <1>0a, <3>2, <4>1, <4>2
      <4>4. QED
        BY <1>0a, <4>1, <4>2, <4>3
    <3>3. ASSUME NEW o \in live \ fired'
          PROVE  [serial |-> Clock!Serial(o), fired |-> FALSE] \in entries'[N + 1].saved
      <4>1. (o \in done) = FALSE
        BY <1>0
      <4>2. [serial |-> Clock!Serial(o), fired |-> o \in done] \in entries'[N + 1].saved
        BY <1>0a, <1>2
      <4>3. QED
        BY <1>0a, <4>1, <4>2
    <3>4. QED
      BY <1>0a, <3>1, <3>2, <3>3
  <2>3. QED
    BY <1>0a, <1>1, <1>2, <2>1, <2>2 DEF EntriesInv
<1>6. Clock!Refs(leaf)' = live
  BY <1>0a, <1>1, <1>2 DEF Clock!Refs
<1>7. /\ \A e \in 0 .. N : Clock!Unfired(e)' = Clock!Unfired(e)
      /\ Clock!Unfired(N + 1)' = {Clock!Serial(o) : o \in live \ done}
  <2>1. \A e \in 0 .. N : Clock!Saved(e)' = Clock!Saved(e)
    BY <1>0a, <1>1, <1>2 DEF Clock!Saved
  <2>2. Clock!Saved(N + 1)' = {[serial |-> Clock!Serial(o), fired |-> o \in done] : o \in live}
    BY <1>0a, <1>1, <1>2 DEF Clock!Saved
  <2>3. Clock!Unfired(N + 1)' = {Clock!Serial(o) : o \in live \ done}
    <3>1. ASSUME NEW k \in Clock!Unfired(N + 1)' PROVE \E o \in live \ done : k = Clock!Serial(o)
      <4>1. PICK s \in Clock!Saved(N + 1)' : ~s.fired /\ k = s.serial
        BY <1>0a, <3>1 DEF Clock!Unfired
      <4>2. PICK o \in live : s = [serial |-> Clock!Serial(o), fired |-> o \in done]
        BY <1>0a, <2>2, <4>1
      <4>3. s.fired = (o \in done) /\ s.serial = Clock!Serial(o)
        BY <1>0a, <4>2
      <4>4. o \notin done
        BY <1>0a, <4>1, <4>3
      <4>5. QED
        BY <1>0a, <4>1, <4>3, <4>4
    <3>2. ASSUME NEW o \in live \ done PROVE Clock!Serial(o) \in Clock!Unfired(N + 1)'
      <4>1. [serial |-> Clock!Serial(o), fired |-> o \in done] \in Clock!Saved(N + 1)'
        BY <1>0a, <2>2
      <4>2. (o \in done) = FALSE
        OBVIOUS
      <4>3. [serial |-> Clock!Serial(o), fired |-> FALSE] \in Clock!Saved(N + 1)'
        BY <1>0a, <4>1, <4>2
      <4>4. QED
        BY <1>0a, <4>3 DEF Clock!Unfired
    <3>3. QED
      BY <1>0a, <3>1, <3>2
  <2>4. QED
    BY <1>0a, <2>1, <2>3 DEF Clock!Unfired
<1>8. /\ TreeInv'
      /\ \A e \in 0 .. N : Clock!Branch'[e] = Clock!Branch[e] /\ Clock!Branch[e] \subseteq 1 .. N
      /\ Clock!Branch'[N + 1] = {N + 1} \cup Clock!Branch[leaf]
  <2>1. \A e \in 0 .. N : Clock!Branch[e] \subseteq 1 .. N
    BY <1>0a, <1>0, <1>1 DEF AlarmInv, HistoryInv, TreeInv
  <2>2. QED
    BY <1>0a, <1>0, <1>1, <2>1, BranchGrows DEF AlarmInv, HistoryInv
<1>9. Clock!FiresWhereArmed'
  <2>1. ASSUME NEW n \in fires PROVE n.serial \in Clock!Unfired(entries[n.entry].parent)'
    <3>1. n.entry \in 1 .. N /\ entries'[n.entry].parent \in 0 .. N
      BY <1>0a, <1>0, <1>2, EntriesTyped DEF AlarmInv, AlarmTyped, TreeTyped
    <3>2. QED
      BY <1>0a, <1>0, <1>2, <1>7, <3>1 DEF AlarmInv, HistoryInv, Clock!FiresWhereArmed
  <2>2. ASSUME NEW n \in new PROVE n.serial \in Clock!Unfired(entries[n.entry].parent)'
    BY <1>0a, <1>0, <1>1, <1>2, <1>7
  <2>3. QED
    BY <1>0a, <2>1, <2>2 DEF Clock!FiresWhereArmed
<1>10. FiredInv'
  <2>1. ASSUME NEW n \in fires, NEW e \in 1 .. N, n.entry \in Clock!Branch'[e]
        PROVE  n.serial \notin Clock!Unfired(e)'
    BY <1>0a, <1>0, <1>1, <1>7, <1>8, <2>1 DEF AlarmInv, HistoryInv, FiredInv
  <2>2. ASSUME NEW n \in fires, n.entry \in Clock!Branch'[N + 1]
        PROVE  n.serial \notin Clock!Unfired(N + 1)'
    <3>1. n.serial \in Serials /\ n.entry \in Clock!Branch[leaf]
      BY <1>0a, <1>0, <1>1, <1>8, <2>2 DEF AlarmInv, AlarmTyped, TreeTyped
    <3>2. leaf \in 1 .. N
      BY <1>0a, <1>0, <1>1, <3>1 DEF AlarmInv, HistoryInv, TreeInv
    <3>3. n.serial \notin Clock!Unfired(leaf)
      BY <1>0a, <1>0, <3>1, <3>2 DEF AlarmInv, HistoryInv, FiredInv
    <3>4. QED
      BY <1>0a, <1>0, <1>7, <3>1, <3>3
  <2>3. ASSUME NEW n \in new, NEW e \in 1 .. N + 1, n.entry \in Clock!Branch'[e]
        PROVE  n.serial \notin Clock!Unfired(e)'
    <3>1. e = N + 1
      BY <1>0a, <1>0, <1>1, <1>8, <2>3
    <3>2. QED
      BY <1>0a, <1>0, <1>7, <3>1
  <2>4. QED
    BY <1>0a, <1>0, <1>1, <1>2, <2>1, <2>2, <2>3 DEF FiredInv
<1>11. Clock!OncePerBranch'
  <2>1. ASSUME NEW n \in fires, NEW m \in fires, n.serial = m.serial,
               n.entry \in Clock!Branch'[m.entry]
        PROVE  n = m
    BY <1>0a, <1>0, <1>1, <1>8, <2>1 DEF AlarmInv, AlarmTyped, TreeTyped, HistoryInv,
       Clock!OncePerBranch
  <2>2. ASSUME NEW n \in fires, NEW m \in new, n.serial = m.serial,
               n.entry \in Clock!Branch'[m.entry]
        PROVE  FALSE
    <3>1. n.entry \in Clock!Branch[leaf]
      BY <1>0a, <1>0, <1>1, <1>8, <2>2 DEF AlarmInv, AlarmTyped, TreeTyped
    <3>2. leaf \in 1 .. N
      BY <1>0a, <1>0, <1>1, <3>1 DEF AlarmInv, HistoryInv, TreeInv
    <3>3. QED
      BY <1>0a, <1>0, <2>2, <3>1, <3>2 DEF AlarmInv, HistoryInv, FiredInv
  <2>3. ASSUME NEW n \in new, NEW m \in fires, n.entry \in Clock!Branch'[m.entry]
        PROVE  FALSE
    <3>1. m.entry \in 0 .. N
      BY <1>0a, <1>0, <1>1 DEF AlarmInv, AlarmTyped, TreeTyped
    <3>2. n.entry = N + 1
      BY <1>0a, <1>0
    <3>3. QED
      BY <1>0a, <1>1, <1>8, <2>3, <3>1, <3>2
  <2>4. ASSUME NEW n \in new, NEW m \in new, n.serial = m.serial
        PROVE  n = m
    BY <1>0a, <2>4
  <2>5. QED
    BY <1>0a, <2>1, <2>2, <2>3, <2>4 DEF Clock!OncePerBranch
<1>12. QED
  BY <1>0a, <1>4, <1>5, <1>6, <1>8, <1>9, <1>10, <1>11 DEF HistoryInv

(* What is pending in memory is pending at the leaf *)
LEMMA PendingAtLeaf ==
  ASSUME AlarmInv, alarmPhase # "off"
  PROVE  /\ \A o \in alarms : Clock!Serial(o) \in Serials
         /\ \A o \in alarms \ fired : Clock!Serial(o) \in Clock!Unfired(leaf)
<1>1. \A o \in alarms : Clock!Serial(o) \in Serials
  BY DEF AlarmInv, AlarmTyped, Objects, Clock!Serial
<1>2. ASSUME NEW o \in alarms \ fired PROVE Clock!Serial(o) \in Clock!Unfired(leaf)
  <2>1. leaf \in 1 .. Len(entries) /\ o \in entries[leaf].refs /\ leaf # 0
    BY EntriesTyped DEF AlarmInv, MemoryInv, AlarmTyped, TreeTyped, Clock!Refs
  <2>2. [serial |-> Clock!Serial(o), fired |-> FALSE] \in Clock!Saved(leaf)
    BY <2>1 DEF AlarmInv, EntriesInv, Clock!Saved
  <2>3. QED
    BY <2>2 DEF Clock!Unfired
<1>3. QED
  BY <1>1, <1>2

(* The alarms of an entry have different names *)
LEMMA RefsTyped ==
  ASSUME AlarmInv, NEW e \in 0 .. Len(entries)
  PROVE  /\ Clock!Refs(e) \subseteq Objects
         /\ \A o, p \in Clock!Refs(e) : Clock!Alarm(o).id = Clock!Alarm(p).id => o = p
BY EntriesTyped DEF Clock!Refs, AlarmInv, EntriesInv

(* What is neither set, fired nor saved leaves the history as it is *)
LEMMA HistoryStays ==
  ASSUME AlarmInv, UNCHANGED <<made, fired, entries, fires>>
  PROVE  EntriesInv' /\ HistoryInv'
<1>1. Clock!Branch' = Clock!Branch /\ TreeInv'
  BY SameTree DEF AlarmInv, HistoryInv
<1>2. \A e : Clock!Unfired(e)' = Clock!Unfired(e)
  BY DEF Clock!Unfired, Clock!Saved
<1>3. Clock!FiresWhereArmed' /\ FiredInv' /\ Clock!OncePerBranch'
  <2>1. Clock!FiresWhereArmed'
    BY <1>2 DEF AlarmInv, HistoryInv, Clock!FiresWhereArmed
  <2>2. FiredInv'
    BY <1>1, <1>2 DEF AlarmInv, HistoryInv, FiredInv
  <2>3. Clock!OncePerBranch'
    BY <1>1 DEF AlarmInv, HistoryInv, Clock!OncePerBranch
  <2>4. QED
    BY <2>1, <2>2, <2>3
<1>4. EntriesInv'
  BY DEF AlarmInv, EntriesInv, Clock!Alarm
<1>5. QED
  BY <1>1, <1>3, <1>4 DEF HistoryInv

LEMMA FireKeeps ==
  ASSUME AlarmInv, NEW o \in alarms \ fired, Clock!FireAlarm(o), alarmPhase # "off",
         UNCHANGED <<now, alarmPhase, unsaved, made, alarms>>, toArm' = toArm \ {o}
  PROVE  AlarmInv'
<1>1. /\ \A p \in alarms : Clock!Serial(p) \in Serials /\ p \in Objects
      /\ \A p \in alarms \ fired : Clock!Serial(p) \in Clock!Unfired(leaf)
      /\ \A p \in alarms : Clock!Alarm(p).id = Clock!Alarm(o).id => p = o
  BY PendingAtLeaf DEF AlarmInv, MemoryInv, AlarmTyped
<1>2. ASSUME NEW p \in alarms, Clock!Serial(p) = Clock!Serial(o) PROVE p = o
  BY <1>1, <1>2 DEF Clock!Alarm
<1>3. now \in Nat /\ made \in Seq(Settings) /\ Serials' = Serials /\ Objects' = Objects
  BY DEF AlarmInv, AlarmTyped, Serials, Objects
<1>4. \A n \in {Clock!Notified(o)} :
        /\ n \in [serial : Serials, entry : {Len(entries) + 1}, at : {now}]
        /\ n.serial \in Clock!Unfired(leaf) /\ n.serial = Clock!Serial(o)
  BY <1>1 DEF Clock!Notified
<1>5. TreeTyped' /\ EntriesInv' /\ HistoryInv' /\ Clock!Refs(leaf)' = alarms
  <2>1. \A p, q \in alarms : made'[Clock!Serial(p)].id = made'[Clock!Serial(q)].id => p = q
    BY DEF AlarmInv, MemoryInv, Clock!Alarm
  <2>2. \A p \in alarms \ fired' :
           /\ Clock!Serial(p) # Clock!Serial(o)
           /\ Clock!Serial(p) \in Clock!Unfired(leaf)
    BY <1>1, <1>2 DEF Clock!FireAlarm
  <2>3. /\ Clock!Persist(alarms, fired')
        /\ fired \subseteq fired' /\ fires' = fires \cup {Clock!Notified(o)}
    BY DEF Clock!FireAlarm
  <2>4. /\ fires \subseteq fires'
        /\ \A n \in fires' \ fires :
             /\ n \in [serial : Serials, entry : {Len(entries) + 1}, at : {now}]
             /\ n.serial \in Clock!Unfired(leaf)
             /\ \A p \in alarms \ fired' : Clock!Serial(p) # n.serial
    BY <1>4, <2>2, <2>3
  <2>5. PICK live : live = alarms
    OBVIOUS
  <2>6. /\ made' \in Seq(Settings) /\ Serials \subseteq Serials'
        /\ \A k \in Serials : made'[k] = made[k]
        /\ live \subseteq Objects'
    BY <1>1, <1>3, <2>5
  <2>7. TreeTyped' /\ EntriesInv' /\ HistoryInv' /\ Clock!Refs(leaf)' = live
    BY <2>1, <2>2, <2>3, <2>4, <2>5, <2>6, PersistKeeps
  <2>8. QED
    BY <2>5, <2>7
<1>6. AlarmTyped'
  BY <1>1, <1>3, <1>5 DEF Clock!FireAlarm, AlarmInv, AlarmTyped, Clock!OtherTimers
<1>7. {t.object : t \in timers'} = (alarms \ fired') \ toArm'
  <2>1. {t.object : t \in timers} = (alarms \ fired) \ toArm
    BY DEF AlarmInv, MemoryInv
  <2>2. \A p \in alarms : Clock!Alarm(p).id # Clock!Alarm(o).id <=> p # o
    BY <1>1
  <2>3. /\ timers' = {t \in timers : Clock!Alarm(t.object).id # Clock!Alarm(o).id}
        /\ fired' = fired \cup {o}
    BY DEF Clock!FireAlarm, Clock!OtherTimers
  <2>4. timers' = {t \in timers : t.object # o}
    BY <2>1, <2>2, <2>3
  <2>5. QED
    BY <2>1, <2>3, <2>4
<1>8. MemoryInv'
  BY <1>5, <1>7 DEF AlarmInv, MemoryInv, Clock!Alarm
<1>9. QED
  BY <1>5, <1>6, <1>8 DEF AlarmInv

LEMMA TickKeeps == ASSUME AlarmLimits, AlarmInv, Clock!Tick PROVE AlarmInv'
<1>1. EntriesInv' /\ HistoryInv'
  BY HistoryStays DEF Clock!Tick, Clock!sessionVars
<1>2. AlarmTyped'
  <2>1. /\ now' = now + 1 /\ now < MaxTime
        /\ UNCHANGED <<alarmPhase, unsaved, made, alarms, fired, timers, entries, leaf, fires>>
    BY DEF Clock!Tick, Clock!loopVars, Clock!sessionVars
  <2>2. now' \in 0 .. MaxTime
    BY <2>1 DEF AlarmInv, AlarmTyped, AlarmLimits
  <2>3. /\ Objects' = Objects /\ Serials' = Serials
        /\ StateEntries' = StateEntries
    BY <2>1 DEF Serials, Objects, StateEntries, SavedAlarms
  <2>4. QED
    BY <2>1, <2>2, <2>3 DEF AlarmInv, AlarmTyped, TreeTyped
<1>3. MemoryInv'
  BY DEF Clock!Tick, AlarmInv, MemoryInv, Clock!Refs, Clock!Alarm, Clock!loopVars,
     Clock!sessionVars
<1>4. QED
  BY <1>1, <1>2, <1>3 DEF AlarmInv

LEMMA DueTyped ==
  ASSUME AlarmLimits, now \in Nat, NEW target \in Nat, target > now
  PROVE  Clock!Due(target) \in Nat
BY DEF Clock!Due, AlarmLimits

LEMMA SetKeeps ==
  ASSUME AlarmLimits, AlarmInv, NEW id \in Ids, NEW target \in 1 .. MaxTime,
         Clock!SetAlarm(id, target)
  PROVE  AlarmInv'
<1>0. PICK o : o = <<Len(made) + 1, 0>>
  OBVIOUS
<1> DEFINE kept == {p \in alarms : Clock!Alarm(p).id # id}
<1>1. /\ alarmPhase = "on" /\ target > now
      /\ made' = Append(made, [id |-> id, target |-> target])
      /\ timers' = Clock!OtherTimers(id) \cup {[object |-> o, due |-> Clock!Due(target)]}
      /\ Clock!Persist(alarms', fired)
      /\ UNCHANGED <<now, Clock!loopVars, fired, fires>>
  BY <1>0 DEF Clock!SetAlarm
<1>2. alarms' = kept \cup {o}
  BY <1>0, <1>1 DEF Clock!SetAlarm, AlarmInv, MemoryInv, Clock!Named
<1>3. /\ Len(made) \in Nat /\ now \in Nat /\ target \in Nat /\ Clock!Due(target) \in Nat
  BY <1>1, EntriesTyped, DueTyped DEF AlarmInv, AlarmTyped, AlarmLimits
<1>4. /\ made' \in Seq(Settings) /\ Len(made') = Len(made) + 1
      /\ \A k \in Serials : made'[k] = made[k]
      /\ made'[Len(made) + 1].id = id
  BY <1>1, <1>3 DEF AlarmInv, AlarmTyped, Settings, Serials
<1>5. /\ Serials \subseteq Serials' /\ Len(made) + 1 \in Serials' /\ Len(made) + 1 \notin Serials
  BY <1>3, <1>4 DEF Serials
<1>6. /\ Objects \subseteq Objects' /\ o \in Objects' /\ o \notin Objects
      /\ Clock!Serial(o) = Len(made) + 1
  BY <1>0, <1>3, <1>5 DEF Objects, Clock!Serial
<1>7. \A p \in kept : /\ p \in alarms /\ p \in Objects /\ Clock!Serial(p) \in Serials
                      /\ made'[Clock!Serial(p)] = made[Clock!Serial(p)]
                      /\ made[Clock!Serial(p)].id # id
  <2>1. \A p \in alarms : p \in Objects /\ Clock!Serial(p) \in Serials
    BY <1>1, PendingAtLeaf DEF AlarmInv, AlarmTyped
  <2>2. QED
    BY <1>4, <2>1 DEF Clock!Alarm
<1>8. \A p, q \in alarms' : made'[Clock!Serial(p)].id = made'[Clock!Serial(q)].id => p = q
  <2>1. \A p, q \in kept : made[Clock!Serial(p)].id = made[Clock!Serial(q)].id => p = q
    BY <1>7 DEF AlarmInv, MemoryInv, Clock!Alarm
  <2>2. QED
    BY <1>2, <1>4, <1>6, <1>7, <2>1
<1>9. \A p \in alarms' \ fired :
         Clock!Serial(p) \in Clock!Unfired(leaf) \/ Clock!Serial(p) \notin Serials
  BY <1>1, <1>2, <1>5, <1>6, PendingAtLeaf
<1>10. TreeTyped' /\ EntriesInv' /\ HistoryInv' /\ Clock!Refs(leaf)' = alarms'
  <2>1. alarms' \subseteq Objects'
    BY <1>2, <1>6, <1>7
  <2>2. PICK live : live = alarms'
    OBVIOUS
  <2>3. /\ Clock!Persist(live, fired') /\ live \subseteq Objects'
        /\ \A p, q \in live : made'[Clock!Serial(p)].id = made'[Clock!Serial(q)].id => p = q
        /\ \A p \in live \ fired' :
             Clock!Serial(p) \in Clock!Unfired(leaf) \/ Clock!Serial(p) \notin Serials
    BY <1>1, <1>8, <1>9, <2>1, <2>2
  <2>4. fires' = fires /\ fired \subseteq fired'
    BY <1>1
  <2>5. TreeTyped' /\ EntriesInv' /\ HistoryInv' /\ Clock!Refs(leaf)' = live
    BY <1>4, <1>5, <2>3, <2>4, PersistKeeps
  <2>6. QED
    BY <2>2, <2>5
<1>11. AlarmTyped'
  <2>1. timers' \subseteq [object : Objects', due : Nat]
    BY <1>1, <1>3, <1>6 DEF AlarmInv, AlarmTyped, Clock!OtherTimers
  <2>2. alarms' \subseteq Objects' /\ fired' \subseteq Objects'
    BY <1>1, <1>2, <1>6, <1>7 DEF AlarmInv, AlarmTyped
  <2>3. QED
    BY <1>1, <1>4, <1>10, <2>1, <2>2 DEF AlarmInv, AlarmTyped, Clock!loopVars
<1>12. {t.object : t \in timers'} = (alarms' \ fired') \ toArm'
  <2>1. {t.object : t \in timers} = alarms \ fired /\ toArm' = {} /\ fired' = fired
    BY <1>1 DEF AlarmInv, MemoryInv, Clock!loopVars
  <2>2. timers' = {t \in timers : Clock!Alarm(t.object).id # id}
                  \cup {[object |-> o, due |-> Clock!Due(target)]}
    BY <1>1 DEF Clock!OtherTimers
  <2>3. o \notin fired
    BY <1>6 DEF AlarmInv, AlarmTyped
  <2>4. {t.object : t \in timers'} = {p \in alarms \ fired : Clock!Alarm(p).id # id} \cup {o}
    <3>1. ASSUME NEW t \in timers'
          PROVE  t.object \in {p \in alarms \ fired : Clock!Alarm(p).id # id} \cup {o}
      BY <2>1, <2>2
    <3>2. ASSUME NEW p \in alarms \ fired, Clock!Alarm(p).id # id
          PROVE  \E t \in timers' : t.object = p
      BY <2>1, <2>2, <3>2
    <3>3. \E t \in timers' : t.object = o
      <4>1. [object |-> o, due |-> Clock!Due(target)] \in timers'
        BY <2>2
      <4>2. [object |-> o, due |-> Clock!Due(target)].object = o
        OBVIOUS
      <4>3. QED
        BY <4>1, <4>2
    <3>4. QED
      BY <3>1, <3>2, <3>3
  <2>5. QED
    BY <1>2, <2>1, <2>3, <2>4
<1>13. MemoryInv'
  BY <1>1, <1>8, <1>10, <1>12 DEF AlarmInv, MemoryInv, Clock!Alarm, Clock!loopVars
<1>14. QED
  BY <1>10, <1>11, <1>13 DEF AlarmInv

LEMMA CancelKeeps ==
  ASSUME AlarmLimits, AlarmInv, NEW names \in SUBSET Ids, Clock!Cancel(names)
  PROVE  AlarmInv'
<1>1. EntriesInv' /\ HistoryInv'
  BY HistoryStays DEF Clock!Cancel, Clock!sessionVars
<1>2. /\ alarms' \subseteq Clock!Refs(leaf) /\ alarms' \subseteq alarms
      /\ Clock!Refs(leaf)' = Clock!Refs(leaf)
  BY DEF Clock!Cancel, Clock!sessionVars, AlarmInv, MemoryInv, Clock!Refs
<1>3. AlarmTyped'
  BY <1>2 DEF Clock!Cancel, AlarmInv, AlarmTyped, TreeTyped, Clock!sessionVars, Serials, Objects,
     StateEntries, SavedAlarms
<1>4. MemoryInv'
  BY <1>2 DEF Clock!Cancel, AlarmInv, MemoryInv, Clock!Alarm
<1>5. QED
  BY <1>1, <1>3, <1>4 DEF AlarmInv

LEMMA TimerKeeps == ASSUME AlarmInv, NEW t \in timers, Clock!TimerFires(t) PROVE AlarmInv'
<1>1. t.object \in alarms \ fired /\ toArm = {}
  BY DEF Clock!TimerFires, AlarmInv, MemoryInv
<1>2. Clock!FireAlarm(t.object) /\ alarmPhase # "off"
  BY <1>1 DEF Clock!TimerFires
<1>3. UNCHANGED <<now, alarmPhase, unsaved, made, alarms>> /\ toArm' = toArm \ {t.object}
  BY <1>1 DEF Clock!TimerFires, Clock!loopVars
<1>4. QED
  BY <1>1, <1>2, <1>3, FireKeeps

LEMMA ArmKeeps == ASSUME AlarmLimits, AlarmInv, NEW o \in toArm, Clock!ArmOne(o) PROVE AlarmInv'
<1>1. /\ alarmPhase = "arming" /\ toArm' = toArm \ {o} /\ o \in alarms /\ o \in Objects
      /\ UNCHANGED <<now, alarmPhase, unsaved, made, alarms, budget>>
  BY DEF Clock!ArmOne, AlarmInv, MemoryInv, AlarmTyped
<1>2. CASE o \notin fired /\ Clock!Alarm(o).target <= now
  BY <1>1, <1>2, FireKeeps DEF Clock!ArmOne
<1>3. CASE ~(o \notin fired /\ Clock!Alarm(o).target <= now)
  <2>1. UNCHANGED <<fired, entries, leaf, fires>>
    BY <1>3 DEF Clock!ArmOne, Clock!sessionVars
  <2>2. EntriesInv' /\ HistoryInv'
    BY <1>1, <2>1, HistoryStays
  <2>3. timers' = (IF o \in fired THEN timers
                   ELSE Clock!OtherTimers(Clock!Alarm(o).id)
                        \cup {[object |-> o, due |-> Clock!Due(Clock!Alarm(o).target)]})
    BY <1>3 DEF Clock!ArmOne
  <2>4. /\ timers' \subseteq [object : Objects, due : Nat]
        /\ {t.object : t \in timers'} = (alarms \ fired) \ toArm'
    <3>1. {t.object : t \in timers} = (alarms \ fired) \ toArm
      BY <1>1 DEF AlarmInv, MemoryInv
    <3>2. CASE o \in fired
      BY <1>1, <2>3, <3>1, <3>2 DEF AlarmInv, AlarmTyped
    <3>3. CASE o \notin fired
      <4>1. Clock!Due(Clock!Alarm(o).target) \in Nat
        <5>1. Clock!Serial(o) \in Serials
          BY <1>1 DEF Objects, Clock!Serial
        <5>2. Clock!Alarm(o).target \in Nat /\ now \in Nat
          BY <5>1, EntriesTyped DEF AlarmInv, AlarmTyped, Clock!Alarm, Settings, AlarmLimits
        <5>3. Clock!Alarm(o).target > now
          BY <1>3, <3>3, <5>2
        <5>4. QED
          BY <5>2, <5>3, DueTyped
      <4> DEFINE fresh == [object |-> o, due |-> Clock!Due(Clock!Alarm(o).target)]
      <4>2. fresh \in [object : Objects, due : Nat] /\ fresh.object = o
        BY <1>1, <4>1
      <4> HIDE DEF fresh
      <4>3. timers' = {t \in timers : Clock!Alarm(t.object).id # Clock!Alarm(o).id} \cup {fresh}
        BY <2>3, <3>3 DEF Clock!OtherTimers, fresh
      <4>4. \A t \in timers : t.object \in alarms /\ t.object # o
        BY <3>1
      <4>5. timers' = timers \cup {fresh}
        BY <1>1, <4>3, <4>4 DEF AlarmInv, MemoryInv
      <4>6. QED
        BY <1>1, <3>1, <3>3, <4>2, <4>5 DEF AlarmInv, AlarmTyped
    <3>4. QED
      BY <3>2, <3>3
  <2>5. AlarmTyped'
    BY <1>1, <2>1, <2>4 DEF AlarmInv, AlarmTyped, TreeTyped, Serials, Objects,
       StateEntries, SavedAlarms
  <2>6. MemoryInv'
    BY <1>1, <2>1, <2>4 DEF AlarmInv, MemoryInv, Clock!Alarm, Clock!Refs
  <2>7. QED
    BY <2>2, <2>5, <2>6 DEF AlarmInv
<1>4. QED
  BY <1>2, <1>3

LEMMA ArmEndsKeeps == ASSUME AlarmLimits, AlarmInv, Clock!ArmEnds PROVE AlarmInv'
<1>1. /\ alarmPhase = "arming" /\ toArm = {} /\ alarmPhase' = "on" /\ unsaved' = FALSE
      /\ UNCHANGED <<now, toArm, made, alarms, fired, timers, fires, budget>>
  BY DEF Clock!ArmEnds
<1>2. TreeTyped' /\ EntriesInv' /\ HistoryInv' /\ Clock!Refs(leaf)' = alarms
  <2>1. CASE unsaved
    <3>1. PICK live : live = alarms
      OBVIOUS
    <3>2. /\ Clock!Persist(live, fired') /\ fires' = fires /\ fired \subseteq fired'
          /\ made' \in Seq(Settings) /\ Serials \subseteq Serials' /\ live \subseteq Objects'
          /\ \A k \in Serials : made'[k] = made[k]
      BY <1>1, <2>1, <3>1 DEF Clock!ArmEnds, AlarmInv, AlarmTyped, Serials, Objects
    <3>3. \A p, q \in live : made'[Clock!Serial(p)].id = made'[Clock!Serial(q)].id => p = q
      BY <1>1, <3>1 DEF AlarmInv, MemoryInv, Clock!Alarm
    <3>4. \A p \in live \ fired' :
            Clock!Serial(p) \in Clock!Unfired(leaf) \/ Clock!Serial(p) \notin Serials
      BY <1>1, <3>1, PendingAtLeaf
    <3>5. TreeTyped' /\ EntriesInv' /\ HistoryInv' /\ Clock!Refs(leaf)' = live
      BY <3>2, <3>3, <3>4, PersistKeeps
    <3>6. QED
      BY <3>1, <3>5
  <2>2. CASE ~unsaved
    <3>1. UNCHANGED <<entries, leaf>>
      BY <2>2 DEF Clock!ArmEnds, Clock!sessionVars
    <3>2. EntriesInv' /\ HistoryInv'
      BY <1>1, <3>1, HistoryStays
    <3>3. TreeTyped'
      BY <1>1, <3>1 DEF AlarmInv, AlarmTyped, TreeTyped, Serials, Objects, StateEntries,
         SavedAlarms
    <3>4. Clock!Refs(leaf)' = alarms
      BY <1>1, <2>2, <3>1 DEF AlarmInv, MemoryInv, Clock!Refs
    <3>5. QED
      BY <3>2, <3>3, <3>4
  <2>3. QED
    BY <2>1, <2>2
<1>3. AlarmTyped'
  BY <1>1, <1>2 DEF AlarmInv, AlarmTyped, Serials, Objects
<1>4. MemoryInv'
  BY <1>1, <1>2 DEF AlarmInv, MemoryInv, Clock!Alarm
<1>5. QED
  BY <1>2, <1>3, <1>4 DEF AlarmInv

LEMMA TreeKeeps ==
  ASSUME AlarmInv, NEW e \in 0 .. Len(entries), Clock!SessionTree(e)
  PROVE  AlarmInv'
<1>1. /\ alarmPhase = "on" /\ alarmPhase' = "arming" /\ leaf' = e
      /\ alarms' = Clock!Refs(e) /\ toArm' = Clock!Refs(e)
      /\ timers' = {} /\ UNCHANGED <<now, unsaved, made, fired, entries, fires>>
  BY DEF Clock!SessionTree
<1>2. EntriesInv' /\ HistoryInv'
  BY <1>1, HistoryStays
<1>3. AlarmTyped'
  BY <1>1, RefsTyped DEF AlarmInv, AlarmTyped, TreeTyped, Serials, Objects, StateEntries,
     SavedAlarms
<1>4. Clock!Refs(leaf)' = Clock!Refs(e)
  BY <1>1 DEF Clock!Refs
<1>5. MemoryInv'
  BY <1>1, <1>4, RefsTyped DEF AlarmInv, MemoryInv, Clock!Alarm
<1>6. QED
  BY <1>2, <1>3, <1>5 DEF AlarmInv

LEMMA ShutdownKeeps == ASSUME AlarmInv, Clock!Shutdown PROVE AlarmInv'
<1>1. EntriesInv' /\ HistoryInv'
  BY HistoryStays DEF Clock!Shutdown, Clock!sessionVars
<1>2. AlarmTyped'
  BY DEF Clock!Shutdown, AlarmInv, AlarmTyped, TreeTyped, Clock!sessionVars, Serials, Objects,
     StateEntries, SavedAlarms
<1>3. MemoryInv'
  BY DEF Clock!Shutdown, AlarmInv, MemoryInv
<1>4. QED
  BY <1>1, <1>2, <1>3 DEF AlarmInv

LEMMA StartKeeps == ASSUME AlarmInv, Clock!SessionStart PROVE AlarmInv'
<1>1. EntriesInv' /\ HistoryInv'
  BY HistoryStays DEF Clock!SessionStart, Clock!sessionVars
<1>2. leaf \in 0 .. Len(entries)
  BY DEF AlarmInv, AlarmTyped, TreeTyped
<1>3. AlarmTyped'
  BY <1>2, RefsTyped DEF Clock!SessionStart, AlarmInv, AlarmTyped, TreeTyped, Clock!sessionVars,
     Serials, Objects, StateEntries, SavedAlarms
<1>4. MemoryInv'
  BY <1>2, RefsTyped DEF Clock!SessionStart, AlarmInv, MemoryInv, Clock!sessionVars, Clock!Refs,
     Clock!Alarm
<1>5. QED
  BY <1>1, <1>3, <1>4 DEF AlarmInv

(* The entries are read from the file: what was saved as fired is marked, and nothing else *)
LEMMA RestartKeeps == ASSUME AlarmInv, Clock!Restart PROVE AlarmInv'
<1>0. PICK N : N = Len(entries)
  OBVIOUS
<1>1. /\ N \in Nat /\ DOMAIN entries = 1 .. N /\ leaf \in 0 .. N
      /\ \A e \in 1 .. N : /\ entries[e] \in StateEntries /\ entries[e].parent \in 0 .. N
                           /\ entries[e].parent < e /\ entries[e].saved \subseteq SavedAlarms
  <2>1. entries \in Seq(StateEntries) /\ \A e \in 1 .. N : entries[e] \in StateEntries
    BY <1>0 DEF AlarmInv, AlarmTyped, TreeTyped
  <2>2. QED
    BY <1>0, <2>1, EntriesTyped DEF AlarmInv, AlarmTyped, TreeTyped
<1>2. /\ alarmPhase' = "off" /\ alarms' = {} /\ timers' = {} /\ toArm = {} /\ ~unsaved
      /\ UNCHANGED <<now, toArm, unsaved, made, leaf, fires>>
  BY DEF Clock!Restart, AlarmInv, MemoryInv
<1>3. entries' = [e \in 1 .. N |->
                    [entries[e] EXCEPT !.refs = {<<s.serial, e>> : s \in entries[e].saved}]]
  BY <1>1 DEF Clock!Restart
<1>4. \A e \in 1 .. N : /\ entries'[e].parent = entries[e].parent
                        /\ entries'[e].saved = entries[e].saved
                        /\ entries'[e].refs = {<<s.serial, e>> : s \in entries[e].saved}
                        /\ entries'[e] \in StateEntries
  <2>1. ASSUME NEW e \in 1 .. N
        PROVE  {<<s.serial, e>> : s \in entries[e].saved} \subseteq Objects
    BY <1>1 DEF Objects, SavedAlarms
  <2>2. ASSUME NEW e \in 1 .. N
        PROVE  /\ entries'[e].parent = entries[e].parent
               /\ entries'[e].saved = entries[e].saved
               /\ entries'[e].refs = {<<s.serial, e>> : s \in entries[e].saved}
               /\ entries'[e] \in StateEntries
    <3> DEFINE refs == {<<s.serial, e>> : s \in entries[e].saved}
    <3>1. refs \subseteq Objects
      BY <2>1
    <3>2. entries'[e] = [entries[e] EXCEPT !.refs = refs]
      BY <1>3
    <3>3. entries[e] \in StateEntries
      BY <1>1
    <3> HIDE DEF refs
    <3>4. /\ entries'[e].parent = entries[e].parent /\ entries'[e].saved = entries[e].saved
          /\ entries'[e].refs = refs /\ entries'[e] \in StateEntries
      BY <3>1, <3>2, <3>3 DEF StateEntries
    <3>5. QED
      BY <3>4 DEF refs
  <2>3. QED
    BY <2>2
<1>5. Len(entries') = N /\ entries' \in Seq(StateEntries)
  <2>1. entries' \in [1 .. N -> StateEntries]
    BY <1>3, <1>4
  <2>2. QED
    BY <1>1, <2>1
<1>6. fired' = UNION {{<<s.serial, e>> : s \in {t \in entries[e].saved : t.fired}} : e \in 1 .. N}
  BY <1>1 DEF Clock!Restart
<1>7. fired' \subseteq Objects
  BY <1>1, <1>6 DEF Objects, SavedAlarms
<1>8. Clock!Branch' = Clock!Branch /\ TreeInv'
  BY <1>0, <1>4, <1>5, SameTree DEF AlarmInv, HistoryInv
<1>9. \A e \in 0 .. N : Clock!Unfired(e)' = Clock!Unfired(e)
  BY <1>4 DEF Clock!Unfired, Clock!Saved
<1>10. HistoryInv'
  <2>1. ASSUME NEW n \in fires
        PROVE  /\ n.entry \in 1 .. N /\ entries'[n.entry].parent = entries[n.entry].parent
               /\ entries[n.entry].parent \in 0 .. N
    BY <1>0, <1>1, <1>4 DEF AlarmInv, AlarmTyped, TreeTyped
  <2>2. Clock!FiresWhereArmed'
    <3>1. ASSUME NEW n \in fires PROVE n.serial \in Clock!Unfired(entries[n.entry].parent)'
      <4>1. n.serial \in Clock!Unfired(entries[n.entry].parent)
        BY DEF AlarmInv, HistoryInv, Clock!FiresWhereArmed
      <4>2. QED
        BY <1>9, <2>1, <4>1
    <3>2. QED
      BY <1>2, <3>1 DEF Clock!FiresWhereArmed
  <2>3. FiredInv'
    BY <1>0, <1>2, <1>5, <1>8, <1>9 DEF AlarmInv, HistoryInv, FiredInv
  <2>4. Clock!OncePerBranch'
    BY <1>2, <1>8 DEF AlarmInv, HistoryInv, Clock!OncePerBranch
  <2>5. QED
    BY <1>8, <2>2, <2>3, <2>4 DEF HistoryInv
<1>11. EntriesInv'
  <2>1. ASSUME NEW e \in 1 .. N
        PROVE  /\ \A o, p \in entries'[e].refs : Clock!Alarm(o)'.id = Clock!Alarm(p)'.id => o = p
               /\ \A s, t \in entries'[e].saved : made'[s.serial].id = made'[t.serial].id => s = t
               /\ \A o \in entries'[e].refs \ fired' :
                    [serial |-> Clock!Serial(o), fired |-> FALSE] \in entries'[e].saved
    <3>1. \A s, t \in entries[e].saved : made[s.serial].id = made[t.serial].id => s = t
      BY <1>0 DEF AlarmInv, EntriesInv
    <3>2. \A o, p \in entries'[e].refs : Clock!Alarm(o)'.id = Clock!Alarm(p)'.id => o = p
      BY <1>2, <1>4, <3>1 DEF Clock!Alarm, Clock!Serial
    <3>3. ASSUME NEW o \in entries'[e].refs \ fired'
          PROVE  [serial |-> Clock!Serial(o), fired |-> FALSE] \in entries[e].saved
      <4>1. PICK s \in entries[e].saved : o = <<s.serial, e>>
        BY <1>4
      <4>2. ~s.fired
        BY <1>6, <3>3, <4>1
      <4>3. s = [serial |-> s.serial, fired |-> s.fired] /\ s.fired \in BOOLEAN
        BY <1>1 DEF SavedAlarms
      <4>4. s = [serial |-> s.serial, fired |-> FALSE] /\ Clock!Serial(o) = s.serial
        BY <4>1, <4>2, <4>3 DEF Clock!Serial
      <4>5. QED
        BY <4>4
    <3>4. QED
      BY <1>2, <1>4, <3>1, <3>2, <3>3
  <2>2. QED
    BY <1>5, <2>1 DEF EntriesInv
<1>12. AlarmTyped'
  <2>1. Serials' = Serials /\ Objects' = Objects /\ StateEntries' = StateEntries
    BY <1>2 DEF Serials, Objects, StateEntries, SavedAlarms
  <2>2. TreeTyped'
    BY <1>0, <1>1, <1>2, <1>4, <1>5, <2>1 DEF AlarmInv, AlarmTyped, TreeTyped
  <2>3. QED
    BY <1>2, <1>7, <2>1, <2>2 DEF AlarmInv, AlarmTyped
<1>13. MemoryInv'
  BY <1>2 DEF AlarmInv, MemoryInv
<1>14. QED
  BY <1>10, <1>11, <1>12, <1>13 DEF AlarmInv

LEMMA AlarmStep == ASSUME AlarmLimits, AlarmInv, [Clock!Next]_(Clock!vars) PROVE AlarmInv'
<1>1. CASE UNCHANGED Clock!vars
  <2>1. EntriesInv' /\ HistoryInv'
    BY <1>1, HistoryStays DEF Clock!vars, Clock!sessionVars
  <2>2. AlarmTyped'
    BY <1>1 DEF Clock!vars, Clock!loopVars, Clock!sessionVars, AlarmInv, AlarmTyped, TreeTyped,
       Serials, Objects, StateEntries, SavedAlarms
  <2>3. MemoryInv'
    BY <1>1 DEF Clock!vars, Clock!loopVars, Clock!sessionVars, AlarmInv, MemoryInv, Clock!Refs,
       Clock!Alarm
  <2>4. QED
    BY <2>1, <2>2, <2>3 DEF AlarmInv
<1>2. CASE Clock!Next
  BY <1>2, TickKeeps, SetKeeps, CancelKeeps, TimerKeeps, ArmKeeps, ArmEndsKeeps, TreeKeeps,
     ShutdownKeeps, RestartKeeps, StartKeeps DEF Clock!Next
<1>3. QED
  BY <1>1, <1>2

(* scheduleAlarm and fireAlarm: an alarm fires where it is pending, once on a branch of the
   session's tree, and what is pending has its timer *)
THEOREM AlarmsAreSafe == Clock!Spec => []AlarmSafe
<1>1. Clock!Init => AlarmInv
  BY AlarmInit, SessionAssumption
<1>2. AlarmInv /\ [Clock!Next]_(Clock!vars) => AlarmInv'
  BY AlarmStep, SessionAssumption
<1>3. AlarmInv => AlarmSafe
  BY DEF AlarmInv, HistoryInv, MemoryInv, Clock!ArmedHasTimer, AlarmSafe
<1>4. QED
  BY <1>1, <1>2, <1>3, PTL DEF Clock!Spec

(* reconstructAlarms and rescheduleFromState: memory holds what the branch does, one alarm
   of a name *)
THEOREM AlarmTypes == Clock!Spec => []Clock!TypeOK
<1>1. Clock!Init => AlarmInv
  BY AlarmInit, SessionAssumption
<1>2. AlarmInv /\ [Clock!Next]_(Clock!vars) => AlarmInv'
  BY AlarmStep, SessionAssumption
<1>3. AlarmInv => Clock!TypeOK
  BY DEF AlarmInv, AlarmTyped, TreeTyped, MemoryInv, Clock!TypeOK
<1>4. QED
  BY <1>1, <1>2, <1>3, PTL DEF Clock!Spec

-----------------------------------------------------------------------------

(* The state between two turns: what the parts' type invariants say of it, together *)
THEOREM SessionTypes ==
  Spec /\ Stuck!Spec /\ Goal!Spec /\ Bg!Spec /\ Clock!Spec => []TypesOK
<1>1. TypeOK /\ Stuck!TypeOK /\ Goal!TypeOK /\ Bg!TypeOK /\ Clock!TypeOK => TypesOK
  BY DEF TypesOK
<1>2. QED
  BY <1>1, TypeInvariant, StuckTypes, GoalTypes, ShellTypes, AlarmTypes, PTL

=============================================================================
