--------------------------- MODULE GhostmuxSession ---------------------------
(***************************************************************************)
(* A session of a Ghostmux daemon: the output of a child, the connections  *)
(* that follow it, the file of its status, and the monitor with which the  *)
(* harness follows its log.                                                *)
(*                                                                         *)
(* The reader of the child's output and the waiter for its end have        *)
(* threads of their own; so has each connection.  Requests and the tick    *)
(* are under the server's lock; each begins with Refresh, and as the       *)
(* threads go on between the two, they are steps of their own here.        *)
(*                                                                         *)
(* A byte of output is its position.                                       *)
(***************************************************************************)
EXTENDS Integers, Sequences, FiniteSets

CONSTANTS
  Channels,    \* connections that may follow the output
  Monitors,    \* monitors of the harness, which follow the log
  MaxOutput,   \* bound: bytes the child, and what it started, may write
  MaxLog,      \* bytes the log may have
  Ring,        \* bytes of output the daemon keeps
  Chunk,       \* most bytes of one read, and of one frame of a replay
  Ready,       \* frames waiting at which a connection holds the reader up
  Backlog,     \* most frames that may wait
  Nil

VARIABLES
  app,         \* the session
  child,       \* the child, as the waiter knows it
  open,        \* some process can write to the pipe
  written,     \* bytes written to it
  taken,       \* bytes read from it
  reader,      \* where the reader is
  held,        \* bytes in the reader's buffer
  discard,     \* the reader drops what it reads
  failure,     \* a failure is recorded
  drained,     \* the output is complete, or given up
  end,         \* bytes of output, which are also in the log
  stores,      \* the buffers of kept output; the last is the one written to
  final,       \* bytes of the final status in the status file, or Nil
  stopping,    \* the daemon refuses requests
  chan,        \* each connection
  kind,        \* what it follows
  from,        \* where its output starts
  queue,       \* frames and replays it waits to write
  observer,    \* whether the session sends it output
  finish,      \* it ends when its queue is empty
  bytes,       \* output the other end has
  exits,       \* reports of the end the other end has
  mon,         \* where each monitor is
  monDone,     \* it read a final status in this poll
  monLength,   \* length of the log in this poll
  monOffset    \* bytes of the log it has reported

outputVars == <<written, taken, reader, held, discard, end, stores>>
sessionVars == <<app, child, open, failure, drained, final, stopping>>
channelVars == <<chan, kind, from, queue, observer, finish, bytes, exits>>
monVars == <<mon, monDone, monLength, monOffset>>
vars == <<sessionVars, outputVars, channelVars, monVars>>

Positions == 0..(MaxOutput - 1)
Store == [0..(Ring - 1) -> Positions \cup {Nil}]

Data(off, content) == [type |-> "data", off |-> off, content |-> content]
Replay(off, to, version) == [type |-> "replay", off |-> off, to |-> to, version |-> version]
Ack == [type |-> "subscribed"]
ExitAt(off) == [type |-> "exit", off |-> off]

TypeOK ==
  /\ app \in {"none", "runs", "removed", "lost"}
  /\ child \in {"none", "runs", "exited", "stopped"}
  /\ \A flag \in {open, discard, failure, drained, stopping} : flag \in BOOLEAN
  /\ 0 <= end /\ end + held <= taken /\ taken <= written /\ written <= MaxOutput
  /\ reader \in {"none", "reads", "holds", "done", "cancelled"}
  /\ (held > 0) = (reader = "holds")
  /\ \A v \in DOMAIN stores : stores[v] \in Store
  /\ final \in 0..MaxOutput \cup {Nil}
  /\ \A c \in Channels :
       /\ chan[c] \in {"new", "open", "closed", "gone"}
       /\ kind[c] \in {"none", "launch", "uid", "all"}
       /\ from[c] \in 0..MaxOutput
       /\ observer[c] \in {"none", "live", "completed"}
       /\ finish[c] \in BOOLEAN
       /\ exits[c] \in 0..1
       /\ Cardinality({i \in DOMAIN queue[c] : queue[c][i].type # "replay"}) <= Backlog
  /\ mon \in [Monitors -> {"idle", "probe", "absent", "failed", "length", "read", "decide",
                           "exit", "gone", "lost"}]
  /\ monDone \in [Monitors -> BOOLEAN]
  /\ \A m \in Monitors : monOffset[m] <= monLength[m] \/ mon[m] = "length"

Init ==
  /\ app = "none" /\ child = "none" /\ open = FALSE
  /\ written = 0 /\ taken = 0 /\ reader = "none" /\ held = 0 /\ discard = FALSE
  /\ failure = FALSE /\ drained = FALSE
  /\ end = 0 /\ stores = <<[i \in 0..(Ring - 1) |-> Nil]>>
  /\ final = Nil /\ stopping = FALSE
  /\ chan = [c \in Channels |-> "new"] /\ kind = [c \in Channels |-> "none"]
  /\ from = [c \in Channels |-> 0] /\ queue = [c \in Channels |-> <<>>]
  /\ observer = [c \in Channels |-> "none"]
  /\ finish = [c \in Channels |-> FALSE]
  /\ bytes = [c \in Channels |-> <<>>] /\ exits = [c \in Channels |-> 0]
  /\ mon = [m \in Monitors |-> "idle"] /\ monDone = [m \in Monitors |-> FALSE]
  /\ monLength = [m \in Monitors |-> 0] /\ monOffset = [m \in Monitors |-> 0]

-----------------------------------------------------------------------------
(* What is kept of the output. *)

Least(a, b) == IF a <= b THEN a ELSE b
First == IF end > Ring THEN end - Ring ELSE 0

\* Bytes off .. off + n - 1, as a buffer holds them.
Encode(store, off, n) == [i \in 1..n |-> store[(off + i - 1) % Ring]]

\* A buffer with the bytes from `end` on.
Overwrite(store, n) ==
  [slot \in 0..(Ring - 1) |->
     IF \E i \in 0..(n - 1) : (end + i) % Ring = slot
       THEN end + (CHOOSE i \in 0..(n - 1) : (end + i) % Ring = slot)
       ELSE store[slot]]

\* Some replay still reads the buffer that is written to.
Shared == \E c \in Channels : \E i \in DOMAIN queue[c] :
            queue[c][i].type = "replay" /\ queue[c][i].version = Len(stores)

\* Replays read what is written over them.
OverwriteInPlace(n) ==
  stores' = [stores EXCEPT ![Len(stores)] = Overwrite(@, n)]

\* Copied before it is written, if a replay reads it.
AppendOutput(n) ==
  IF Shared THEN stores' = [v \in 1..(Len(stores) + 1) |->
                   IF v <= Len(stores) THEN stores[v] ELSE Overwrite(stores[Len(stores)], n)]
            ELSE OverwriteInPlace(n)

-----------------------------------------------------------------------------
(* Connections. *)

Live(c) == chan[c] = "open" /\ kind[c] # "none"
Frames(c) == Cardinality({i \in DOMAIN queue[c] : queue[c][i].type # "replay"})
\* A frame can be queued.
Room(c) == chan[c] = "open" /\ Frames(c) < Backlog

\* A connection that does not hold up the reader.
OutputReady(c) == chan[c] # "open" \/ finish[c] \/ Frames(c) < Ready

\* The end is reported to connections that have not had it.
Told(c) == Live(c) /\ ~finish[c] /\ observer[c] # "completed"

PumpOf(c, offset) ==
  [queue |-> IF Told(c) /\ Room(c)
               THEN queue[c] \o <<ExitAt(offset)>> ELSE queue[c],
   observer |-> IF Told(c) /\ Room(c) THEN "completed" ELSE observer[c],
   finish |-> finish[c] \/ (Told(c) /\ (~Room(c) \/ kind[c] # "all")),
   chan |-> IF Told(c) /\ ~Room(c) THEN "closed" ELSE chan[c]]

\* The session has ended: the status is written, then connections are told, then it goes.
Ended ==
  /\ drained' = TRUE
  /\ final' = end
  /\ reader' = IF reader = "done" THEN "done" ELSE "cancelled"
  /\ held' = 0
  /\ open' = FALSE
  /\ app' = "removed"
  /\ queue' = [c \in Channels |-> PumpOf(c, end).queue]
  /\ observer' = [c \in Channels |-> PumpOf(c, end).observer]
  /\ finish' = [c \in Channels |-> PumpOf(c, end).finish]
  /\ chan' = [c \in Channels |-> PumpOf(c, end).chan]

-----------------------------------------------------------------------------
(* Requests. *)

\* new-session, by a connection that follows it from the start, or by another client.
Launch ==
  /\ app = "none" /\ ~stopping
  /\ app' = "runs" /\ child' = "runs" /\ open' = TRUE /\ reader' = "reads"
  /\ \E follower \in {c \in Channels : chan[c] = "new"} \cup {Nil} :
       LET Follows(c) == c = follower IN
       /\ chan' = [c \in Channels |-> IF Follows(c) THEN "open" ELSE chan[c]]
       /\ kind' = [c \in Channels |-> IF Follows(c) THEN "launch" ELSE kind[c]]
       /\ queue' = [c \in Channels |-> IF Follows(c) THEN <<Ack>> ELSE queue[c]]
       /\ observer' = [c \in Channels |->
            IF Follows(c) \/ Live(c) THEN "live" ELSE observer[c]]
  /\ UNCHANGED <<failure, drained, final, stopping, written, taken, held, discard, end,
                 stores, from, finish, bytes, exits, monVars>>

\* subscribe-output for the session: the bytes from an offset on, those kept as a replay.
Subscribe(c) ==
  /\ chan[c] = "new" /\ app = "runs" /\ ~stopping
  /\ \E off \in First..end :
       /\ chan' = [chan EXCEPT ![c] = "open"]
       /\ kind' = [kind EXCEPT ![c] = "uid"]
       /\ from' = [from EXCEPT ![c] = off]
       /\ observer' = [observer EXCEPT ![c] = "live"]
       /\ queue' = [queue EXCEPT ![c] =
            <<Ack>> \o (IF off < end THEN <<Replay(off, end, Len(stores))>> ELSE <<>>)]
  /\ UNCHANGED <<sessionVars, outputVars, finish, bytes, exits, monVars>>

\* subscribe-output for every session, from what is kept of each.
SubscribeAll(c) ==
  /\ chan[c] = "new" /\ app \in {"none", "runs"} /\ ~stopping
  /\ chan' = [chan EXCEPT ![c] = "open"]
  /\ kind' = [kind EXCEPT ![c] = "all"]
  /\ from' = [from EXCEPT ![c] = First]
  /\ observer' = [observer EXCEPT ![c] = IF app = "runs" THEN "live" ELSE "none"]
  /\ queue' = [queue EXCEPT ![c] =
       <<Ack>> \o (IF First < end THEN <<Replay(First, end, Len(stores))>> ELSE <<>>)]
  /\ UNCHANGED <<sessionVars, outputVars, finish, bytes, exits, monVars>>

KillSession ==
  /\ app = "runs" /\ ~stopping
  /\ child' = "stopped"
  /\ Ended
  /\ UNCHANGED <<failure, stopping, written, taken, discard, end, stores,
                 kind, from, bytes, exits, monVars>>

\* kill-server stops the child; the next Refresh publishes it.
KillServer ==
  /\ ~stopping /\ app # "lost"
  /\ stopping' = TRUE
  /\ IF app = "runs"
       THEN /\ child' = "stopped" /\ open' = FALSE /\ drained' = TRUE
            /\ reader' = IF reader = "done" THEN "done" ELSE "cancelled"
            /\ held' = 0
       ELSE UNCHANGED <<child, open, drained, reader, held>>
  /\ UNCHANGED <<app, failure, final, written, taken, discard, end, stores,
                 channelVars, monVars>>

-----------------------------------------------------------------------------
(* What every tick and every request does first. *)

\* A child that has ended is given a while for what it started to close the pipe.
Refresh ==
  /\ app = "runs"
  /\ failure \/ drained \/ child = "exited"
  /\ child' = IF child = "exited" /\ ~failure THEN child ELSE "stopped"
  /\ Ended
  /\ UNCHANGED <<failure, stopping, written, taken, discard, end, stores,
                 kind, from, bytes, exits, monVars>>

\* A tick of a daemon that stops has its connections end.
Closing(c) ==
  /\ stopping /\ app # "runs" /\ chan[c] = "open" /\ ~finish[c]
  /\ finish' = [finish EXCEPT ![c] = TRUE]
  /\ UNCHANGED <<sessionVars, outputVars, chan, kind, from, queue, observer, bytes, exits,
                 monVars>>

RetireClosed(c) ==
  /\ chan[c] = "closed"
  /\ chan' = [chan EXCEPT ![c] = "gone"]
  /\ observer' = [observer EXCEPT ![c] = "none"]
  /\ queue' = [queue EXCEPT ![c] = <<>>]
  /\ UNCHANGED <<sessionVars, outputVars, kind, from, finish, bytes, exits, monVars>>

\* A tick removes a connection that is closed, or whose other end has not read for long.
Retire(c) ==
  /\ chan[c] = "closed" \/ (chan[c] = "open" /\ queue[c] # <<>>)
  /\ chan' = [chan EXCEPT ![c] = "gone"]
  /\ observer' = [observer EXCEPT ![c] = "none"]
  /\ queue' = [queue EXCEPT ![c] = <<>>]
  /\ UNCHANGED <<sessionVars, outputVars, kind, from, finish, bytes, exits, monVars>>

-----------------------------------------------------------------------------
(* The child and the threads. *)

Write ==
  /\ open /\ written < MaxOutput
  /\ written' = written + 1
  /\ UNCHANGED <<sessionVars, taken, reader, held, discard, end, stores, channelVars, monVars>>

\* What the child started may go on to hold the pipe.
ChildExits ==
  /\ child = "runs"
  /\ child' = "exited"
  /\ open' \in BOOLEAN
  /\ UNCHANGED <<app, failure, drained, final, stopping, outputVars, channelVars, monVars>>

PipeCloses ==
  /\ open /\ child # "runs"
  /\ open' = FALSE
  /\ UNCHANGED <<app, child, failure, drained, final, stopping, outputVars, channelVars, monVars>>

Read ==
  /\ reader = "reads"
  /\ IF written > taken
       THEN \E n \in 1..Least(Chunk, written - taken) :
              /\ taken' = taken + n
              /\ IF discard THEN UNCHANGED <<reader, held>> ELSE reader' = "holds" /\ held' = n
       ELSE ~open /\ reader' = "done" /\ UNCHANGED <<taken, held>>
  /\ UNCHANGED <<sessionVars, written, discard, end, stores, channelVars, monVars>>

ReadFails ==
  /\ reader = "reads"
  /\ reader' = "done" /\ failure' = TRUE
  /\ UNCHANGED <<app, child, open, drained, final, stopping, written, taken, held, discard,
                 end, stores, channelVars, monVars>>

\* The wait for the child, or what is written to it, fails; it may end all the same.
WaitFails ==
  /\ child = "runs"
  /\ failure' = TRUE
  /\ UNCHANGED <<app, child, open, drained, final, stopping, outputVars, channelVars, monVars>>

\* The reader waits for connections that are behind, while the child lives.  The terminal may
\* fail on what was kept and sent.  Memory does not run out, and the log takes all or nothing.
Ingest ==
  /\ reader = "holds"
  /\ child # "runs" \/ \A c \in Channels : observer[c] = "live" => OutputReady(c)
  /\ reader' = "reads" /\ held' = 0
  /\ IF end + held > MaxLog
       THEN /\ failure' = TRUE /\ discard' = TRUE
            /\ UNCHANGED <<end, stores, queue, observer, chan>>
       ELSE LET content == [i \in 1..held |-> end + i - 1]
                Gets(c) == observer[c] = "live" /\ Room(c) /\ ~finish[c]
                Misses(c) == observer[c] = "live" /\ ~Gets(c)
            IN /\ end' = end + held
               /\ AppendOutput(held)
               /\ queue' = [c \in Channels |->
                    IF Gets(c) THEN queue[c] \o <<Data(end, content)>> ELSE queue[c]]
               /\ observer' = [c \in Channels |->
                    IF Misses(c) THEN "completed" ELSE observer[c]]
               /\ chan' = [c \in Channels |->
                    IF Misses(c) /\ ~finish[c] /\ chan[c] = "open" THEN "closed" ELSE chan[c]]
               /\ \/ UNCHANGED <<failure, discard>>
                  \/ failure' = TRUE /\ discard' = TRUE
  /\ UNCHANGED <<app, child, open, drained, final, stopping, written, taken,
                 kind, from, finish, bytes, exits, monVars>>

\* A connection writes a frame, and the other end reads it.
Deliver(c) ==
  /\ chan[c] = "open" /\ queue[c] # <<>>
  /\ LET entry == Head(queue[c])
         n == Least(Chunk, entry.to - entry.off)
     IN CASE entry.type = "replay" ->
               /\ bytes' = [bytes EXCEPT ![c] = @ \o Encode(stores[entry.version], entry.off, n)]
               /\ queue' = [queue EXCEPT ![c] =
                    IF entry.off + n = entry.to THEN Tail(@)
                    ELSE <<[entry EXCEPT !.off = @ + n]>> \o Tail(@)]
               /\ UNCHANGED exits
          [] entry.type = "data" ->
               /\ bytes' = [bytes EXCEPT ![c] = @ \o entry.content]
               /\ queue' = [queue EXCEPT ![c] = Tail(@)]
               /\ UNCHANGED exits
          [] OTHER ->
               /\ exits' = [exits EXCEPT ![c] = IF entry.type = "exit" THEN @ + 1 ELSE @]
               /\ queue' = [queue EXCEPT ![c] = Tail(@)]
               /\ UNCHANGED bytes
  /\ UNCHANGED <<sessionVars, outputVars, chan, kind, from, observer, finish, monVars>>

\* The queue of a connection that is to end is empty, or the other end is gone.
Close(c) ==
  /\ chan[c] = "open"
  /\ chan' = [chan EXCEPT ![c] = "closed"]
  /\ UNCHANGED <<sessionVars, outputVars, kind, from, queue, observer, finish, bytes, exits,
                 monVars>>

\* The daemon is killed: the status file and the log stay as they are.
Crash ==
  /\ app = "runs"
  /\ app' = "lost" /\ child' = "stopped" /\ open' = FALSE
  /\ reader' = "cancelled" /\ held' = 0
  /\ chan' = [c \in Channels |-> "gone"] /\ queue' = [c \in Channels |-> <<>>]
  /\ observer' = [c \in Channels |-> "none"]
  /\ UNCHANGED <<failure, drained, final, stopping, written, taken, discard, end, stores,
                 kind, from, finish, bytes, exits, monVars>>

-----------------------------------------------------------------------------
(* The harness's monitor: each poll reads the status, may ask the daemon,  *)
(* then looks at the length of the log and reads some of it.               *)

Goes(m, state) == mon' = [mon EXCEPT ![m] = state]

\* The status, as a poll reads it.
ReadsStatus(m) == monDone' = [monDone EXCEPT ![m] = final # Nil]

MonTarget(m) ==
  /\ mon[m] = "idle" /\ app # "none"
  /\ ReadsStatus(m)
  /\ Goes(m, "length") \/ (final = Nil /\ Goes(m, "probe"))
  /\ UNCHANGED <<sessionVars, outputVars, channelVars, monLength, monOffset>>

\* The list has the session, or has it not, or the request fails or is late.
MonProbe(m) ==
  /\ mon[m] = "probe"
  /\ \/ app = "runs" /\ ~stopping /\ Goes(m, "length")
     \/ app = "removed" /\ ~stopping /\ Goes(m, "absent")
     \/ Goes(m, "failed")
  /\ UNCHANGED <<sessionVars, outputVars, channelVars, monDone, monLength, monOffset>>

MonAgain(m) ==
  /\ mon[m] \in {"absent", "failed"}
  /\ ReadsStatus(m)
  /\ Goes(m, IF final # Nil THEN "length" ELSE IF mon[m] = "absent" THEN "gone" ELSE "lost")
  /\ UNCHANGED <<sessionVars, outputVars, channelVars, monLength, monOffset>>

MonLength(m) ==
  /\ mon[m] = "length"
  /\ monLength' = [monLength EXCEPT ![m] = end]
  /\ Goes(m, IF end > monOffset[m] THEN "read" ELSE "decide")
  /\ UNCHANGED <<sessionVars, outputVars, channelVars, monDone, monOffset>>

MonRead(m) ==
  /\ mon[m] = "read"
  /\ \E n \in 1..(monLength[m] - monOffset[m]) : monOffset' = [monOffset EXCEPT ![m] = @ + n]
  /\ Goes(m, "decide")
  /\ UNCHANGED <<sessionVars, outputVars, channelVars, monDone, monLength>>

MonDecide(m) ==
  /\ mon[m] = "decide"
  /\ Goes(m, IF monDone[m] /\ monOffset[m] >= monLength[m] THEN "exit" ELSE "idle")
  /\ UNCHANGED <<sessionVars, outputVars, channelVars, monDone, monLength, monOffset>>

Poll(m) ==
  \/ MonTarget(m) \/ MonProbe(m) \/ MonAgain(m) \/ MonLength(m) \/ MonRead(m) \/ MonDecide(m)

-----------------------------------------------------------------------------

Serve(c) ==
  \/ Subscribe(c) \/ SubscribeAll(c) \/ Closing(c) \/ Retire(c) \/ Deliver(c) \/ Close(c)

Next ==
  \/ Launch \/ KillSession \/ KillServer \/ Refresh \/ Crash
  \/ Write \/ ChildExits \/ PipeCloses \/ Read \/ Ingest
  \/ ReadFails \/ WaitFails
  \/ \E c \in Channels : Serve(c)
  \/ \E m \in Monitors : Poll(m)

\* The threads go on and the daemon ticks; nobody has to read a connection.
Fairness ==
  /\ WF_vars(Read) /\ WF_vars(Ingest) /\ WF_vars(Refresh)
  /\ \A c \in Channels : WF_vars(Retire(c))

Spec == Init /\ [][Next]_vars /\ Fairness

-----------------------------------------------------------------------------
(* Whoever follows the output gets every byte from where it started, in    *)
(* order and as it was written, whatever it overtakes in the daemon's      *)
(* buffer; and once told of the end it has all the output there is.        *)
StreamWhole ==
  \A c \in Channels :
    /\ bytes[c] = [i \in 1..Len(bytes[c]) |-> from[c] + i - 1]
    /\ exits[c] > 0 => from[c] + Len(bytes[c]) = end

(* A final status counts all of the log.  The monitor reports the end only *)
(* when it has reported all of the log; and a session the daemon no longer *)
(* lists has its final status.                                             *)
MonitorWhole ==
  /\ final # Nil => final = end
  /\ \A m \in Monitors : mon[m] # "gone" /\ (mon[m] = "exit" => monOffset[m] = end)

(* Both: nothing of the output is lost on either way out of the daemon.    *)
OutputWhole == StreamWhole /\ MonitorWhole

(* A connection that is not read does not hold up the child's output for   *)
(* ever.                                                                   *)
OutputGoesOn == reader = "holds" ~> reader # "holds"

=============================================================================
