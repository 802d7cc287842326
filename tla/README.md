# cpi: models, model checking and proofs

cpi is a coding agent: a command line, extensions and tools around a pinned fork of the
Pi host. The host runs the agent loop, keeps sessions and queues messages; it is not in
this repository. Most of cpi's own state lives in `packages/harness`: extensions that run
in the host's single process, on its event loop, beside processes and threads of their
own: the Ghostmux daemon for terminals (`packages/ghostmux`), workers for subagents,
workers for language servers, guardians for scratch directories. `tools/tuidos` is a
board of tasks that several processes share.

The modules here model the parts whose difficulty is in the order of things: what happens
between two awaits, two system calls, two transactions, two messages, or a crash and the
next start. TLC checks all of them on small instances; TLAPS proves every safety
property that a run checks, but for what the application of a patch computes, for every
value of the constants.

- [Inventory](#inventory) - the components, their state, and what makes each one hard
- [Modules](#modules) - what models what, and how definitions correspond to code
- [Runs](#runs) - what is checked, with which bounds, and what it shows
- [Fairness](#fairness)
- [Proofs](#proofs)
- [What the models found](#what-the-models-found)
- [Not modelled](#not-modelled)
- [Plan](#plan)

To run a check: `tlc -config X.cfg MCModule`. To check the proofs of a module:
`tlapm StorageOperationsProofs.tla`.

## Inventory

Paths are under `packages/harness/src/` unless they begin with another directory.

### Components with a model

| Component | Source | State it keeps | Operations |
|---|---|---|---|
| Owned storage operations | `lib/storage/operations.ts` | a process-wide registry: admission flags, one entry per operation with its parent, children, abort signal and retry, recoveries by path | `reserve_owned_operation`, `join`, `pending`, `finish`, `reserve_storage_recovery`, `finish_storage_operations` |
| Session cleanup | `lib/storage/lifecycle.ts` | none of its own between awaits | the host's cleanup hook: prepare, then finish, reconcile, release |
| Scratch directories | `lib/storage/scratch.ts`, `guardian-client.ts`, `scratch-guardian-child.ts`, `scratch-record.ts`, `scratch-tree.ts` | a client in the host, a guardian process, a journal of records on disk | start, close with retries, registration, reconciliation of what others left |
| Managed temporary directories | `lib/storage/temp-dirs.ts`, `temp-dir-records.ts`, `temp-dir-cleanup.ts` | files only: slots, records, payload directories | create, release, inventory |
| Session hold | `core.ts`, `lib/session-hold.ts`, `lib/external-events.ts` | the promise and poll of a hold, registered event sources, queued notifications, an abort listener | agent_start, agent_end, register, notify, dispose |
| Anti-stuck check | `lib/anti-stuck.ts` | when the wait began, a timer, the controller of a probe | arm, tick, probe, resume |
| Goal loop | `lib/goal.ts`, `lib/goal-probe.ts`, `goal.ts` | the goal, its budget and revision, entries in the session | set, clear, pause, resume, evaluate, continue |
| Background shells | `shell/exec.ts`, `background-lifecycle.ts`, `persistence.ts`, `completion-delivery.ts`, `orphan.ts`, `shutdown.ts` | tracked shells in memory, a record of each in the session file, notices on their way | launch, background, kill, detach, follow, surface, acknowledge |
| Alarms | `alarm.ts` | alarms in memory, timers, entries in the session's tree | set, cancel, fire, reconstruct, arm again |
| Ghostmux daemon | `packages/ghostmux/src/*.zig` | two lock files and a socket; sessions with a child, a ring of output, subscribers with queues, a log and a status file | start, serve, stop; launch, read, append, subscribe, replay, tick, kill |
| Ghostmux client and targets | `shell/ghostmux-client.ts`, `ghostmux.ts`, `ghostmux-transport.ts` | a launch record, a signal, an offset in a log | `launchMonitor`, `reapLaunch`, `poll` |
| Repeat monitors | `shell/repeat*.ts` | the loop, the child of its run, timers, one join of the clean-up, a storage operation | loop, breach, signal, stop, shutdown, retry |
| Language servers | `lib/lsp/manager.ts`, `session.ts`, `worker.mjs` | a registry of sessions, calls in flight, a worker thread and a server of each | `ensureSession`, `lint`, `stop`, `disposeAll` |
| Subagent workers | `lib/subagent-rpc*.ts`, `subagent-observation.ts` | endpoints by session, active runs with credits, sockets and storage operations | bind, launch, publish, receive, abort, terminate, retire, quit |
| Compaction and instruction files | `lib/compaction*.ts`, `lib/agents.ts`, `cwd.ts` | entries of the conversation, the files shown in this process, the directory | prepare, commit, cancel; set_cwd, show, rewind, new session |
| Cost accounting | `lib/cost-ledger.ts`, `lib/cost-accounting.ts`, `cost-tree/` | a ledger of accounts for each session opened, entries in the sessions, a socket, the report that was acknowledged last | bind and unbind, record, flush, receive, observe |
| Editor and patches | `llm-editor/*.ts` | a queue per path in each thread, a staging file, the content read; splices of a patch | write, edit, apply_patch; candidate, correction, time out; locate, splice, finish |
| Board and threads of tuidos | `tools/tuidos/src/core`, `db` | a global database, one per project, files of bytes by hash | projects, columns, cards, topics, tags, messages, attachments |

How they meet. A tool that needs a directory or a child process asks the registry for an
operation; `with_session_scratch` holds one around a guardian, a shell, a repeat monitor
and a subagent run hold one each, and nested work finds its parent through the abort
signal it was given. When a session is left, deleted or the process quits, the host calls
the cleanup hook, which stops admission, aborts and joins the operations, reconciles the
guardians' journal and releases the session's temporary directories. Shells, alarms, goal
probes, repeat monitors and external sources are hold sources: as long as one of them has
something pending, the handler of agent_end keeps a headless run open, and what they send
is a message in the agent's queue. While the agent waits, the anti-stuck check asks a
forked agent whether to go on. Shells and repeat monitors run in the Ghostmux daemon; the
harness starts it through its client command and follows status files and logs, so that
the daemon may die, or outlive the harness, without a word to either.

What is hard in each, and the properties that make it correct:

- *Storage operations.* Everything awaits: a child is admitted while its parent joins, an
  operation while the hook waits for those it selected, and finishers outlive the
  deadline of the call that started them. Correct means that a directory outlives the
  work that uses it, that nothing runs in a scope while its directories are released,
  that a deleted session stays deleted, that an exit leaves nothing behind of any session,
  and that joining does not wait for ever.
- *Temporary directories.* Several processes work on the same files without a lock and
  may die between any two calls. Correct means that no slot is used twice, no directory
  is left without a record, and no slot is lost as long as nobody dies.
- *Guardians.* Requests over a pipe time out and are repeated, answers come late, both
  sides die, disk operations fail, and a second guardian may work on the same record.
  Correct means that what the client believes (it holds a directory, it released one) is
  so, and that a dead host's directory goes away.
- *Session hold.* Messages arrive after the agent last looked at its queue and before the
  hold. Correct means that no message is stranded behind a hold, that a hold does not end
  on a message that was read, and that a hold with nothing left ends.
- *Anti-stuck, goal loop.* An answer is about the state at the time of the question.
  Correct means that a stale answer changes nothing, and that the loop is bounded.
- *Background shells.* The commands outlive the harness. Correct means that the agent is
  told of each completion, once, whatever quits, crashes and switches come between, and
  not told of what it did not want to know.
- *Alarms.* Moves in the session's tree, reloads and restarts replace the alarms under
  their timers. Correct means that an alarm fires where and when it is pending, once.
- *Ghostmux daemon.* Several servers are started at once, one stops for want of work
  while a client is about to connect, slow subscribers follow a ring that is written on.
  Correct means that sessions stay in reach, that no request is lost to an idle stop, and
  that whoever follows an output gets all of it.
- *Launches and repeat monitors.* A launch is aborted while the daemon is about to start
  the child; a signal, a timeout, a quit and a retry join one clean-up. Correct means that
  a clean-up that returned has left no child, now or later, and that whoever asks for an
  end gets an answer.
- *Language servers.* Calls share a provisioning, and a worker that was replaced still
  has messages on their way. Correct means that a server that runs is registered or was
  told to end.
- *Subagent workers.* Sockets wait for clients, clients for answers, workers for credits,
  the quit for all of them. Correct means one answer to each command, an operation exactly
  as long as a run, and a quit that ends.
- *Compaction.* A summary takes minutes, in which the conversation changes under it.
  Correct means that it replaces what it summarizes and takes no instructions away.
- *Cost accounting.* Reports are lost, come late and twice; processes end and resume,
  sessions are forked and copied with their entries. Correct means that what was
  acknowledged is saved, and that nothing is counted twice or for another.
- *Editor and patches.* An edit takes as long as a model takes, under a lock that other
  threads and programs do not know; a patch's hunks are found one by one and carried out
  together. Correct means that an error left the file alone, that calls of a thread undo
  none of each other, that whoever queues is answered, and that what is written is what
  the patch says.
- *Board and threads.* Requests are checked in one transaction and carried out in another,
  by processes that may stop between. Correct means that no card goes out of sight, that
  columns keep their order, and that an attachment has its bytes and its card.

### Components without a model

The fork probe itself, LSP discovery and installation, other notifications, paths of
storage, `wait_any`, the activity browser and footer, transcripts,
configuration and providers, shell command analysis, trees and presentation,
code mode, search, diagrams, the tool installer, onboarding, the command line and its
release scripts, Ghostmux's terminals and pictures, the interfaces of tuidos,
`packages/prose`, `packages/tree-sitter-wasm`, the benchmarks and the repository's
scripts. `PROJECT.json` lists each with its files and the reason; see also
[Not modelled](#not-modelled).

## Modules

An action is one synchronous section of the code: from one await, system call,
transaction, message or callback to the next. Other actions come between. Names follow
the source where the source has a name.

| Module | Models | Checked by | Proved in |
|---|---|---|---|
| `StorageOperations` | registry, scratch operations, plain operations, recoveries, cleanup hook | `MCStorageOperations` | `StorageOperationsProofs` |
| `DirectoryPool` | the abstract promise of the temporary directories: reservations and presence | (refined by `TempDirs`) | |
| `TempDirs` | creation and release, system call by system call | `MCTempDirs` | `FilesProofs` |
| `FileEdit` | calls that write and edit one file | `MCTempDirs` | `FilesProofs` |
| `PatchApply` | the application of a patch | `MCTempDirs` | `FilesProofs` (that splices lie apart; not what they write) |
| `ScratchGuardian` | client, guardian, pipes, journal | `MCHelpers` | `ScratchGuardianProofs` |
| `LspSessions` | calls, sessions, workers, servers | `MCHelpers` | `HelpersProofs` |
| `SubagentRpc` | endpoints, sockets, runs, quit | `MCHelpers` | `HelpersProofs` |
| `SessionHold` | agent_start/end, holds, external sources | `MCSession`, `MCSessionHold` | `SessionProofs` |
| `AntiStuck` | wait, timer, probe | `MCSession` | `SessionProofs` |
| `GoalLoop` | goal, evaluation, budget | `MCSession` | `SessionProofs` |
| `BackgroundShells` | shells, records, notices | `MCSession`, `MCBackgroundShells` | `WakingProofs` |
| `Alarms` | alarms, timers, entries | `MCSession`, `MCAlarms` | `WakingProofs` |
| `Board` | a project's columns and cards | `MCConversations` | `ConversationsProofs` |
| `CardThread` | topics, messages, attachments | `MCConversations` | `ConversationsProofs` |
| `Compaction` | the conversation, summaries, instruction files | `MCConversations`, `MCCompaction` | `ConversationsProofs` |
| `CostTree` | ledgers of sessions, owners of answers, reports | `MCConversations` | `ConversationsProofs` |
| `GhostmuxStartup` | clients and servers around two locks and a socket | `MCGhostmux` | `GhostmuxProofs` |
| `GhostmuxSession` | a session's output, its followers, its log and its end | `MCGhostmux` | `GhostmuxProofs` |
| `ShellLaunch` | one launch: harness, client, daemon, status file | `MCGhostmux` | `GhostmuxProofs` |
| `RepeatMonitor` | the loop of one monitor and those who end it | `MCGhostmux`, `MCRepeatMonitor` | `GhostmuxProofs` |
| `Files` | composes `TempDirs`, `FileEdit`, `PatchApply` | `MCTempDirs` | `FilesProofs` |
| `Helpers` | composes `ScratchGuardian`, `LspSessions`, `SubagentRpc` | `MCHelpers` | `HelpersProofs` |
| `Session` | composes `SessionHold`, `AntiStuck`, `GoalLoop`, `BackgroundShells`, `Alarms` | `MCSession` | `SessionProofs`, `WakingProofs` |
| `Conversations` | composes `Board`, `CardThread`, `Compaction`, `CostTree` | `MCConversations` | `ConversationsProofs` |
| `Ghostmux` | composes `GhostmuxStartup`, `GhostmuxSession`, `ShellLaunch`, `RepeatMonitor` | `MCGhostmux` | `GhostmuxProofs` |

The composing modules declare the variables and constants of their parts, hold the parts as
INSTANCEs, assume of the constants what the parts need, and name the properties of the whole;
runs check these and theorems state them. The MC module of each extends it with values for
the constants, bounds, fairness and liveness. The parts share no state as modelled, so there
`part` chooses the one that runs and the others stay in their initial state: such a run says
of each part what a run of its own would say. A theorem about one of them has the part's own
specification (`Edit!Spec`) as its hypothesis.

Operators called "Mutant of ...", and plain variants such as `MarkOver` beside `Mark`,
are definitions with a plausible slip in them. The specification does not use them; each
stands beside the definition it would replace, and with it in that place the property it
is for fails. They show that the property would notice.

### StorageOperations

An operation is an element of `Ops`, used once as a UUID is. `phase[o]` follows it:
"running" from admission, "joining" while `join` waits for children, "closing" while the
guardian closes, "pending" with a retry after a failure, "done". `sources[o]` and `fired`
are the abort controllers of `AbortSignal.any`; `parent`, `children` and `open`
(`accepting_children`) are the fields of the entry. `Admissible` is the chain of refusals
in `reserve_owned_operation`, in its order. `stage` is the program counter of the
cleanup hook: "prepared" after the prepare phase, "finishing" in
`finish_storage_operations`, "reconciling" while the guardians' journals are read,
"cleaning" or "listing" in the loop over the scopes. `armed` and `armedPaths` are the
finishers, which remain after the deadline (`Deadline`) of the call that made them.
Recoveries are keyed by path as in the code, so that several holders of one path share
one entry.

### TempDirs and DirectoryPool

A task is one call of `create_temp_directory` or `release_temp_directory`, `pc[t]` its
next system call: exclusive creation of a slot's file, the record, the directory, the
update of the record; or reading the record, matching the slot, removing the payload,
reading again, unlinking the record, matching again, unlinking the slot. `Fails` lets any
of them fail, `Dies` kills a process with all its tasks. The model keeps a slot's
content, so that a release that unlinks "its" slot may unlink another's. `ImplementsPool`
says that slots and payloads implement `DirectoryPool`: a directory exists only under a
reservation, and no more than the capacity are reserved.

### FileEdit

`chain[t]` is the promise chain of the path's lock in thread `t`, its head the holder, which
alone leaves it (`Tail`); `pc[c]` is what a call awaits. Of a file only the marks of the
calls in it are kept, and which file it is (`node`): a write that lost its file to a removal
fills a file nobody sees, a rename makes a new one. `Candidate`, `TimesOut` and `RunEnds`
are the model's run with its corrections; `Replaces` is the last look at the caller's signal
and the rename. `Dies` ends a thread, `Outside` is a command or an editor that knows of no
lock. `EditsSurvive` says what a call may undo: of another thread what came after it read
the file; of its own thread only what was gone when it read, and what another thread has put
back since (`PutBack`).

### PatchApply

Positions in a text become positions in a sequence of tokens, which are texts of lines and
line ends; a text is an indentation and a word. `TakeHunk` is one turn of `applyUdiffs`:
`Locate` (scope, coordinates, exact, up to indentation, without outer rows), `SpliceOf`
for each run of changed rows, conflicts with what was found before. `TypeOK` says that splices
lie within the content and that no two overlap, of one hunk (which the code does not check) or
of several (which it does). `Spliced` and `Ended`
carry the splices out. `PatchIsMeant` compares with `Meant`, which goes line by line.

### ScratchGuardian

`call[s]` is where the client is, `pc[s]` where the guardian is, `inbox` and `outbox` are
the two pipes, `journal` and `disk` what is on disk. `TimeOut` is the client's 5-second
wait, after which a late receipt answers a later request (`Receive`). The guardian
registers (record, directory, record with identity, "ready"), serves closes, and at the
end of its input records that its host is gone and removes the directory, retrying
(`Retry`) until it gives up. Before it registers it reconciles every abandoned record of
the journal (`Visit`, `Abandoned`), which another guardian may be working on at the same
time.

### SessionHold, AntiStuck, GoalLoop

`SessionHold` has the agent as an environment: it runs, reads its queue, looks at it a
last time ("drained"), ends, and is held. `Tick` is the poll of a hold, which compares
the number of pending sources with the number at the beginning; `Signalled` is
`signalHoldEvent`. `AntiStuck` has a timer that keeps the context of the session that
armed it and probes whose tick awaits their answer. `GoalLoop` keeps the goal's state in
memory and in entries of the session; an evaluation remembers the revision it asked
about. An entry that cannot be appended is given up without a word (`Persist`), so that the
goal in memory and the one in the session differ until the next entry, and a restart goes
back to the entry; `unkept` counts them.

### BackgroundShells

A shell's record is in memory (`cache`) and in the session file (`file`); during a reload
writes wait (`unwritten`). A notice is queued in the agent (`steer`), queued for the next
prompt (`before`) or in the session file (`told`). Between `Launch` and `RecordStart` the sh
tool awaits the daemon's answer; `StartFails` reaps the shell. `phase` follows session_start: it
surfaces what ended while the harness was away, then follows again what still runs.
`Crash` loses memory and queues; `Leave` is a quit or a switch to another session;
`Reload` keeps the process and its tracked shells while the extensions' hooks change.

### Alarms

An alarm object is `<<serial, entry>>`: the entry it was read from, 0 for the object made
by the tool. Entries hold references as the code's do; a restart reads the saved copies.
`FireAlarm`, `SetAlarm`, `Cancel` and `SessionTree` append or reconstruct entries, and
`scheduleAlarm`'s timers are armed one by one (`ArmOne`) in the loop after a start.

### Board and CardThread

A transaction of SQLite is one step. `requests[c]` is what a client has checked and not
yet carried out: a command reads the board, decides on a place, and a later transaction
moves the card, whatever others did meanwhile; an edit with a move is two transactions.
`project` counts the steps of the creation of a project. Columns and cards keep position
numbers, archived ones too; `Place` counts how many of those shown come before a column, which
is the order a reader sees. In `CardThread`,
`calls[c]` is the client's place between the check of a topic and its tag, or between the
creation of a blob's file, its bytes and the row that refers to it. `Stop` is a client
that dies there; `cut` remembers the files it left short.

### Compaction

`branch` is the path from the root of the session to its leaf; `seen` is the process's set
of files shown, which nothing resets. `work` is a compaction under way: what it will keep,
the entries it summarizes, the references it collected. `Prepare` begins one, `Commit`
checks that its history still stands and writes the checkpoint, `Compete` is another
compaction that ends meanwhile. Budgets of tokens and limits of bytes are reasons of
`Cancel`; which entry is kept first is the host's free choice.

### CostTree

`log[s]` are the answers and owner entries of a session, in order; `Own` charges each
answer to the run that owned the session then (`ownAccounts`). `ledgers` are the
`CostLedger` objects, of which the global one may write (`append`); an observation keeps
the one it `captured`. `pending` is the report under way and `mail` what the socket still
carries, so that `TimesOut` may leave a report to arrive late, beside the next. `Shutdown`,
`LastFlush` and `Unbind` are the awaits of session_shutdown. The subagent below has the
same on a smaller scale: it reports over the socket, and its worker's events (`Observe`)
tell of the same use.

### GhostmuxStartup

`client[c]` and `server[s]` are program counters; `startupLock` and `runLock` are held by
processes and fall with them. A client of kind "direct" is the harness, which connects
without the startup lock. `why[s]` says why a server ends: told to, timed out, killed, or
for want of work; `StartupSafe` promises only that the last one drops nobody.

### GhostmuxSession

A byte is its position, so that "in order and complete" is a statement about sequences.
The reader's thread reads (`Read`), appends under the lock (`Ingest`) and is held up by a
follower whose queue is full ("holds"); `Refresh` is the tick. `stores` are the buffers of
kept output: when a replay still needs one, the next append goes to a new one. `mon` is
the monitor in the harness, which reads status, length and bytes of the log in three steps
(`Poll`). `ReadFails`, `WaitFails` and an output the log or the terminal refuses record a
failure, with which the next tick ends the session.

### ShellLaunch

Three sides and a status file: `launchMonitor` and `reapLaunch` of the harness, the client
command, the daemon. The daemon creates the status file exclusively (`Reserve`) and so
does a clean-up (`Mark`): who comes first decides whether there is going to be a child.

### RepeatMonitor

`task` is the loop's place; `place[o]` that of the others who may end it: the timeout, a
signal, a quit, an abort of the storage operation, a retry of a clean-up. All of them join
one promise (`reap`). `launch` is the native launch, which settles on its own.

### LspSessions

`inflight[i]` is the call that provisions a server for an id, the others wait for it and
look again when woken. `post[s]` are messages and events of a worker on their way to the
host, which arrive after the host replaced or stopped the session. `draining` and
`drains` are `disposeAll`, which waits for what was being provisioned when it began.

### SubagentRpc

A command has a socket, a call of the host has none. `active` are runs whose worker has
not exited, `operations` those with a storage operation. `sent` and `held` follow the
credits with which a worker may have events under way: they come back when the socket has
taken the output. `full` are sockets whose client has yet to read. A switch retires an
endpoint without its runs; `Quit` takes the snapshot of runs and endpoints it will wait
for.

## Runs

| Run | Question | Distinct states |
|---|---|---|
| `storage_sessions` | Is a scope quiet while its directories are released, does a deleted session stay quiet, does an exit leave nothing behind? (`TypeOK`, `CleaningIsQuiet`, `DeletedStaysQuiet`, `ExitLeavesNothing`) | 1,475,840 |
| `storage_finish` | Does a directory outlive its children, is everything told to stop, does the finish end? (`ScratchOutlivesChildren`, `FinishAbortsEverything`, `FinishEnds`) | 255,976 |
| `temp_dirs` | Do slots, records and directories account for each other whatever dies, and implement the pool? Does a failed edit leave its file alone, does an edit undo another, is each answered, and does a patch do what it says? (`TypesOK`, `DirectoriesAccounted`, `LostOnlyByFailure`, `ErrorChangesNothing`, `PatchIsMeant`, `ImplementsPool`, `EditsSurvive`, `Answered`) | 284,777 |
| `session` | Between turns: holds, probes, goals, shells' notices and alarms (`TypesOK`, `HoldSafe`, `LoopsSafe`, `ToldExactly`, `AlarmSafe`, `AnswerIsAboutGoal`, `SuppressedIsQuiet`, `WaitsEnd`) | 609,454 |
| `helpers` | The processes and workers beside the host: guardians, language servers, subagents (`TypesOK`, `GuardianSafe`, `ServersSafe`, `RunsSafe`, `HelpersEnd`) | 444,322 |
| `ghostmux` | The daemon's start and end, outputs and their followers, launches, repeat monitors (`TypesOK`, `StartupSafe`, `OutputWhole`, `NothingLeftBehind`, `NobodyIsHeldUp`) | 256,786 |
| `conversations` | Boards, threads of cards, the compaction of a conversation, and what sessions cost (`TypesOK`, `BoardsSafe`, `SummaryFits`, `CostsSafe`, `BoardsKeep`, `CompactionKeeps`, `CostsArrive`) | 495,970 |
| `hold_alarm` | finds `HoldEndsOnEvent` violated | |
| `shells_wakes` | finds `CompletionWakes` violated | |
| `alarms_early` | finds `NeverEarly` violated | |
| `repeat_kill` | finds `KillEndsChild` violated | |
| `instructions` | finds `InstructionsHere` violated | |

Several named properties are conjunctions, spelled out in the module that names them:
`ToldExactly` is `AcknowledgedIsTold`, `NothingForgotten`, `ToldOnce` and
`DetachedIsLeftAlone`; `LoopsSafe` is `NoStaleAnswer` and `CheckGoesOn` of `AntiStuck` and
`EvaluatedBetweenRuns` and `WithinBudget` of `GoalLoop`; `GuardianSafe` is `HeldPresent`,
`ReleasedGone` and `DirectoryJournalled`; `RunsSafe` is `AnsweredOnce`, `OperationHeld` and
`CreditsComeBack`; `BoardsSafe` is `CardsInSight` and `MediaHasBlob`, `BoardsKeep` is
`ColumnsKeepOrder` and `MediaOfItsCard`; `CostsSafe` is `LedgerIsSaved`,
`AcknowledgedIsSaved`, `CountedOnce` and `CountsItsOwn`; `WaitsEnd` is `IdleHoldEnds`,
`LoopEnds` and `AlarmFires`, `HelpersEnd` is `HeldIsSwept` and `QuitEnds`, `NobodyIsHeldUp`
is `OutputGoesOn` and `ShutdownEnds`; `TypesOK` carries, besides types, relations that each
part's type invariant states: records that parse, one count for a message and its token, one
call of a thread at a time past the queue for a file, splices of a patch that do not
overlap.

### Bounds, and why they are enough

- *storage*: 2 sessions with 1 operation, 2 recovery paths under a limit of 1 and 2 calls of
  the hook; and 1 session with 2 nested operations. Nesting needs a parent and a child; a
  third operation adds depth of the same kind. Two sessions tell "this scope" from
  "another". Two calls of the hook let finishers of the first run on during the second; two
  paths under a limit of one make the overflow happen.
- *temp_dirs*: 2 processes, 3 calls at a time, 2 identities, 1 slot. One slot for two
  identities makes every creation a race for it; three calls let two releases and a creation
  meet. Files: a write or patch, an edit and, from another thread, a patch, with nothing
  that fails and, when all three read the file first, 2 changes from outside, of which one
  may remove it (a call that puts back what another read takes two); and two calls of a
  thread with 1 correction, 1 change from outside and 2 faults, so that a write may fail
  after the change it lost to. Patches: two hunks of up to 3 rows over 6 contents of up to 3
  lines, with every marking, both kinds of line end, a repeated line, an indented and a
  blank one: two hunks are what overlaps.
- *session*: the hold has 1 shell, 1 alarm, 2 producers, 1 queued notification: two
  producers under that limit make a refusal, and a source that comes when another has gone.
  The anti-stuck check has 3 sessions and 5 probes: a probe of the first session may answer
  in the third. A budget of 2 runs tells the first continuation from the last, and 3
  commands change a goal under an evaluation and change it back; 1 entry of it cannot be
  kept (`MaxUnkept`), whichever. 2 shells, 1 crash, 1 quit,
  1 reload: a notice surfaced after the quit may be lost in the crash. 2 alarms with a clock
  to 2, 1 cancellation, 1 move and 1 restart or reload come back to a branch that the
  restart left.
- *helpers*: 2 guardians are the least that can meet on a journal, 2 closes the least with
  which a late answer settles the wrong one, and 1 disk fault, wherever it comes, starts a
  retry. 3 callers of one server with 2 sessions: one provisions, one waits, one asks with
  another environment. 2 sessions with 2 endpoints, 1 command, 1 call of the host, 1 credit
  and 2 active runs: a switch retires an endpoint whose run goes on, and one credit makes
  the worker wait at once.
- *ghostmux*: 2 clients and 3 servers: one server that stops, one that waits for its lock,
  one that a client which gave up spawned besides. 4 bytes of output over a ring of 2, a log
  of 3 and chunks of 2 overrun each of them; 2 frames hold the reader up and 3 are refused.
  One connection, and in another part one monitor, because followers do not meet except in
  what they do to the reader.
- *conversations*: 2 clients, 2 columns with names of their own and 2 cards; 3 columns with
  the default names and no cards for their order; 2 clients, 2 cards, 1 topic, 1 message, 1
  attachment and 1 file for the threads; a directory below another, 4 entries and one of
  rewind, new session, restart or failure for the compaction. Costs are looked at twice: a
  run, a fork and 3 answers over 3 starts in 2 sessions, one of which was there before
  accounting; and a subagent that reports twice over 2 starts, with one timeout, failed
  write or crash. Each lets a request go stale in every way the code can make it.

The two recovery paths are interchangeable: no definition tells them apart, and the
properties of `storage_sessions` are invariants and step properties, so it uses symmetry.
`temp_dirs` permutes identities and the two calls of one process, which only the directories
know of; its one liveness property is of the parts in whose states neither occurs.

Every configuration says `CHECK_DEADLOCK FALSE`: the systems may stop, because the bounds
on crashes, calls, rounds and time are in the guards, a process may quit or die, and an
identity is used once.

## Fairness

- `StorageOperations.FairSpec`: an awaited call of an admitted operation resolves. The
  guardian's start and close are timed out by the client, and aborted work ends, since
  it gets the signal. The finishers and the hook run on, because they are continuations
  on the event loop. Nothing is assumed of work that nobody aborted, and the host's
  deadline is never assumed to come: `FinishEnds` holds without it.
- `ScratchGuardian.Spec`: a guardian that is not killed takes its next step. It is a
  process of its own. `HeldIsSwept` excepts one that was killed or gave up.
- `FileEdit.Spec`: what a call awaits of the file system comes, the timer of an edit fires
  and its run ends then. Nothing is assumed of the model.
- `SubagentRpc.Spec`: a listener that binds succeeds or fails, one that closes and has no
  connection left closes; the timer of an abort (5 s) calls terminate, and a terminated
  worker exits; a client that has its answer hangs up. Nothing is assumed of workers that
  nobody aborted or of clients that do not read. That last assumption is needed: a client
  that is stopped with its answer unread would hold up the quit.
- `SessionHold.Spec`: the poll of a hold ticks (an interval timer) and the handler that
  awaits it goes on. Nothing is assumed of shells, alarms and producers.
- `GoalLoop.Spec`: a run that started ends, a queued message is read, and a probe answers
  (it has a timeout). Nothing is assumed of the user.
- `Alarms.FairSpec`: the clock goes on, a timer that is due runs its callback, and the
  loop of session_start goes on; a session that was shut down starts again while the
  bound on starts allows.
- `GhostmuxSession`: the reader's thread goes on, the daemon ticks, and a connection's
  thread ends when it was told to. Nobody has to read from a connection, and a child does
  not have to write or end.
- `CostTree.Spec`: the interval of a second flushes, and the process above reads what it
  is sent (`CostsArrive`). Timeouts, failed writes and crashes are bounded.
- `RepeatMonitor`: the loop and those who wait go on with what was resolved, native calls
  (launch, signal, clean-up) settle, and the timeout's timer fires. The child does not
  have to end.

The combined specifications state the same conditions for each part, while it runs.
`AntiStuck`, `BackgroundShells`, `Board`, `CardThread`, `Compaction`, `GhostmuxStartup`,
`ShellLaunch`, `PatchApply` and `LspSessions` have safety properties only and assume nothing.

## Proofs

The proofs hold for any sets of sessions, operations, paths, processes, calls, shells,
clients, identities, cards, hunks, and so on. What they assume of constants is named and
stands in the module that declares them: `StorageAssumption`, `TempDirsAssumption`,
`EditAssumption`, `PatchAssumption`, `ScopesAssumption`, `NoneAssumption`,
`HelpersAssumption`, `SessionAssumption`, `ConversationsAssumption`, `ProcessAssumption` and
`OutputAssumption` say that bounds are numbers, that sets have the members the model is
about and are disjoint where they are of different things, and that the "none" values are
outside of them. One of them says something of the code: a read fits the ring (`Chunk \in 1
.. Ring`), as output.zig:28 asserts. TLC evaluates all of them on the runs' instances.

### StorageOperationsProofs

- `TypeInvariant`: `Spec => []TypeOK`, in three parts (`FlagsOK`, `EntriesOK`, `HookOK`)
  because Boolean flags and functions go to different provers. `TypeOK` also says that an
  operation has an owner exactly while it is in the registry and a retry exactly while it
  is pending; the later proofs use both.
- `ScratchOutlives`: no guardian is told to close while an operation admitted under it is
  unsettled. The property is not inductive: it needs `TreeInv`, that parent and child
  lists agree, that a settled operation has no parent any more, that children hang only
  from scratch operations that run or join, and that an operation accepts children only
  while it runs.
- `CleaningStaysQuiet`: the scope stays quiet while directories are released. The hook
  found nothing pending several awaits earlier; `ClosedInv` says what keeps it that way:
  a quit holds the registry closed, a deletion holds its owner retired, and the earlier
  check (`Quieted`) is still true. No step of an admitted operation adds an entry
  (`StepsAddNoEntry`), and in a quiet scope nothing is admitted (`QuietRefuses`).
- `FinishAborts`: a finish that aborts reaches every operation. `AbortInv`: an entry
  listens to its own controller and to its parent's, so that one admitted later under an
  aborted parent starts aborted.
- `DeletedStays`: a deleted session never has an operation or a temporary directory
  again. `GoneInv` follows the hook's loop: what was visited in "cleaning" without a
  finding has no directory left, and the owner of a deleted session stays retired.
- `ExitIsClean`: a process that exits after a quit leaves no operation, recovery, guardian or
  temporary directory of any session. `ScratchHeld`: a guardian's directory belongs to an
  admitted operation. `ExitInv`: only sessions the registry knows have temporary directories,
  what a quit has still to visit includes every one that has any, and it exits only after
  the last. `ClosedInv` keeps others from adding to it during the awaits.

### FilesProofs

*Directories.* One inductive invariant, `TypeOK /\ Claims` (theorem `Invariants`), in three
parts: `TaskInv`, who may work on an identity at once (one creator; no release past its check
beside a creator; among releases only one past the unlinking of the record); `DiskInv`,
what is on disk at each step of a task; `SlotInv`, which slots may name which identity.
From it: `TypeInvariant`, `Reserved` (a record holds the slot it names), `Tracked` (a
directory has a record), `Accounted` (both, as the run states them), and `Implements`:
each step is a step of `DirectoryPool` or a stutter. Creation of a slot's file maps to
`Reserve`, whose guard on the capacity is proved from a free slot (`FreeSlotLeavesRoom`, a
cardinality argument). `SlotsLostOnlyByFailure` needs one more step on top: a slot without
a record belongs to a call in progress, or to one that failed.

*The file.* `ErrorsChangeNothing`, `EditsAreKept` and `EditTypes`, for any number of
threads, calls, corrections, changes from outside and failures. `EditInv` has four parts:
the types; `ChainInv`, that the lock is one (a call past the queue is the head of its
thread's chain, and no call is in a chain twice); `StageInv`, what lies beside the file,
which counts against the failures; `MarkInv`, that each mark in the file or in what was read
is of a call that was or will be told it is done, and that what is in the file while a call
edits it has read (`Known`), or it came from another thread since. The proof corrected the
property: it had said that what a call undoes is always another thread's. That is false. A
call of another thread that read an edit, which was then removed with the file, puts it back
after the next call of the edit's own thread has read; the rename of that call undoes it
again. TLC showed this with two changes from outside, `PutBack` states it, and the run has
the bound at which it happens.

*The patch.* `PatchTypes`: wherever the hunks of a patch are found, their splices lie within
the content and no two overlap. The code compares only the splices of different hunks
(`Conflicts`); that those of one hunk cannot overlap rests on how a hunk is located.
`Located` says what every attempt returns: an interval of the content with a row for each
line (`MatchAtIsLocated` to `LocateIsLocated`). The line of a row grows over the rows
(`LinesGrow`), two runs of changed rows have a context row between them (`RunsApart`), and so
their splices lie in order (`SplicesInOrder`, `OneHunkApart`). `FilesTypes` joins the three.

### ScratchGuardianProofs

`GuardianIsSafe`: a directory that `start` returned is there until its host dies or it is
closed, one that `close` released is gone or was to stay, and every directory on disk has a
record. The difficulty is that several guardians work on one record: its own, and any that
finds it abandoned. `RegisterInv`: a registering guardian alone writes its record and makes
its directory. `MemoryInv`: what a guardian has read stays true enough for what it will
write, while others work on the same directory. `RecordInv`: what the records on disk may
say. `ClientInv`: what receipts in the pipe and an exit tell the client. `HeldInv`: as long
as a host lives and holds its directory nobody works on its end.

### HelpersProofs

`ServersAreSafe`, from `ServersInv`. `SessionsFit`: a session that may still unregister
itself is the registered one, none is registered while an id is provisioned, a server that
serves has its worker linked, and a message that ends a session comes from a worker whose
server has exited. So a server that runs is registered or was told to end, whatever was
replaced in between. `RunsAreSafe`, from `RunsInv`: `RunsFit` says that a worker has no more
events under way and credits held than it was given, that a command's run has a socket and a
call's run its call, and that output which waits has a client that may read it, or the run
was aborted. `HelpersTypes` adds the guardians.

### SessionProofs

- `HoldIsSafe`, from `QueueInv` (unless the run was aborted, what hasQueued counts is what
  the agent has yet to read; a hold that nobody woke has nothing to read) and `SourceInv` (a
  run that has sources listens to its abort, an aborted one has none). Types need finite sets
  of sources, whose size the limit bounds.
- `AnswersAreNotStale` and `ChecksGoOn` follow from `WaitInv` and `ProbeInv`: a timer and a
  probe are of this session or an earlier one, and a probe that is not aborted is the
  controller's, of this session, and about a wait that goes on.
- `AnswersAreAboutGoal`, `EvaluatesBetweenRuns` and `StaysWithinBudget` follow from `AskedInv`
  (a question that carries the present revision is about the present goal, and one question
  counts) and `BudgetInv` (an active goal's own count is no less than what was given of the
  budget). `Kept` says that the goal is the one of the last entry, unless some entry was not
  kept. `LoopsAreSafe` joins them as the run states them.

### WakingProofs

*Shells.* Over any number of crashes, quits and reloads `AcknowledgedHasReason`,
`CompletionsAreTold` and `DetachedStaysAlone`, and until the first reload `TellsOnce` and
the action property `KilledIsQuiet`; `ShellsAreToldOf` is all of them as the run states them.
`RecordInv` relates memory and session file (they differ only by ends that wait for a reload
to end); `EntryInv` says what is followed and in which phase; `NoticeInv`, that counters count
recorded ends, that an end which a tool's result told has no notice, and why each acknowledged
record is (`Reason`); `PromiseInv`, that from the end of surfacing on every unread end has a
notice. `QuietInv` is the part that a reload breaks (see below): what is followed runs, each
end has one notice at most, and what was killed is silenced.

*Alarms.* `AlarmsAreSafe`, for any tree of entries, moves in it, reloads and restarts.
`EntriesInv` says what the entries of a session can hold, `MemoryInv` what alarms and timers
in memory come from, `FiredInv` what was fired on which branch. The branch of an entry is a
recursive function, about which nothing can be proved by induction; `TreeInv` keeps, as part of
the invariant, the equation it satisfies at each entry, which is all that the proof needs,
since an entry is only ever added below another.

### GhostmuxProofs

- `StartupIsSafe`, for any number of clients and servers. `LockInv`: a server that runs, from
  before it looks at the socket to its end, holds the run lock, and a client command holds the
  startup lock until its response. `ServerInv`: one that listens is where the socket leads,
  and one that no longer answers was told to end, timed out, was killed, or holds the startup
  lock. `ClientInv`: what dropped a client command was a server of the first three kinds.
- `OutputIsWhole`, for any output and any ring that holds a read. `SessionInv`: the
  reader takes output only while the session runs, and the final status counts all of it.
  `RingInv`: each byte still kept stands in the newest buffer at its position modulo the ring's
  size. `ChannelsInv`: what a connection got and what is queued for it go on from each other
  without a gap up to the end. Where each entry of the queue begins and ends a witness function
  states (`Path`); an entry that reads the kept output has a buffer that is not written over, as
  the next append goes to a new one. `MonitorsInv`: a monitor that has read the final status
  looks at the whole log after it.
- `LaunchLeavesNoChild`. The status file decides whether there is going to be a child.
  `RequestInv`: a daemon that will start one, or has, holds the file, and before the request was
  served there is none; `ReapInv`: a child that lives has its file, and a clean-up returns only
  when the file says that there is none; `OwnerInv`: who was rejected was cleaned up, or had
  sent nothing.
- `MonitorLeavesNothing`. `NativeInv`: a child that lives is one the monitor knows to be its
  own, until a launch has settled there is none, and a join past the launch knows them all;
  `JoinInv`: whoever but the loop begins a join has ended the loop's runs before; `LeftInv`:
  before a run, and from the closing of the log on, no child is left. `NothingIsLeftBehind` is
  both.

### ConversationsProofs

- `BoardsAreSafe` and `BoardsKeepTheirOrder`. `RequestInv`: what a client is about to do to
  a card, there is a card for, although others came between. `CallInv`: a file that a row
  will refer to is there, and one that is short was cut or is being written. That a moved
  column comes to stand at its place, and that the others keep their order, is a counting
  argument over the places of those shown.
- `SummariesFit` and `CompactionsKeepInstructions`. `WorkInv`: as long as the history that a
  compaction began with still stands (`Kept`), which its commit checks, what it collected is
  what is summarized there, and where the first kept entry is. `ContextInv` adds the place,
  a well-formed branch, and that each summary in it fits.
- `CostsAreSafe`. `HistoryInv`: every answer is in the session it was made in, and stays
  there; `ProcessInv`: the session of the process is its own, for its last owner entry says
  so; `LedgersInv`: one ledger at most writes, that of the session, and it is saved;
  `SubagentInv`: the subagent is told only what is saved; `ReportsInv`: what is above and on
  its way was spent. Units of use are counted by bijections with intervals. Where a paper
  proof would use induction over a history, a lemma takes the least number with a property
  (`LeastNat`) and shows that there is a smaller one.

### Only model-checked

- `PatchIsMeant`. `Meant` and the code's way both fold over the hunks and over the splices, and
  what a fold computes for every input needs induction over data, which the provers cannot do.
  That the splices are apart, on which the result rests, is proved (`PatchTypes`).
- Liveness: `FinishEnds`, `HelpersEnd`, `WaitsEnd`, `Answered`, `NobodyIsHeldUp` and
  `CostsArrive` are under fairness, and ENABLED is out of the provers' reach.

The five properties that a run finds violated have no theorem, of course.

## What the models found

Five runs show behaviour that differs from what the repository says of it:

- `hold_alarm`: the first of two alarms to fire does not end a headless hold.
  `fireAlarm` (alarm.ts:129) queues its message without `signalHoldEvent`, and the poll
  sees that the source still has an alarm pending.
- `shells_wakes`: a shell that ends during a reload of the extensions calls a hook that
  belongs to nobody (background-lifecycle.ts:53), and a reload does not surface completed
  shells (shell.ts:367); its notice waits for a later start.
- `alarms_early`: an alarm more than 2^31 - 1 ms (24.8 days) away overflows `setTimeout`
  (alarm.ts:121) and fires at once, although the tool takes up to 365 days.
- `repeat_kill`: `sh_signal` sends one signal to the child of a repeat monitor
  (shell/repeat-lifecycle.ts:65): a SIGKILL after a signal the child ignores is dropped.
- `instructions`: the set of instruction files shown (lib/agents.ts) is the process's and
  nothing resets it. A new session of the process, a compaction, a rewind, or a tool whose
  directories could not be read leaves the agent without the AGENTS.md of its directory.

Seen while modelling, without a run of their own:

- A guardian exits with 0 at the first error of its output
  (scratch-guardian-child.ts:318). A host that is killed while its guardian registers, or
  after a failed close, leaves its directory behind; `HeldIsSwept` therefore speaks of
  directories the client holds. A receipt "closed" or "retained" that carries an error
  counts as success (`ReleasedGone` says so).
- After a session switch during a probe the tick of the earlier session takes over the
  timer (anti-stuck.ts:249-250) and dies with its context, so the check of the later
  session stops. `CheckGoesOn` speaks of the first session of a process only.
- After a reload, while the loop of `resumeBackgroundShells` waits for a record that
  cannot be attached, a tracked shell may end; the loop, which decided from records read
  before (background-lifecycle.ts:116), follows it again and its end is told twice.
  `ToldOnce` and `SuppressedIsQuiet` therefore speak of the time before a reload.
- A harness that dies between the launch of a shell and its record (exec.ts:101-165) leaves a
  shell that runs on and that no session knows of. `ToldExactly` speaks of recorded ones.
- A goal's entry that cannot be appended (goal.ts:88-96) leaves an earlier one: a restart
  takes up the goal, and the use of its budget, from there. `WithinBudget` counts from what
  the session says then.
- A shell recorded as lost whose notice dies with the harness is never told of again:
  `readCompletedRecords` leaves lost records out (persistence.ts:350).
- Recoveries of a path share one entry (operations.ts:62), so that the end of one holder
  gives the path free for all; operations that are pending count against the limit of 64
  (operations.ts:137), so that as many failed closes stop every tool that needs storage.
- Entries of the session hold the alarm objects themselves: an alarm that fired counts as
  fired on an earlier branch, until a restart reads what was saved.
- A new session of Ghostmux that is asked for right after kill-server may be dropped by
  the server that stops. A repeat monitor whose end is recorded just before a crash is
  never told of (shell/repeat.ts:250-261).
- `runSubagentWorker` that waits in `ensureSubagentRpc` can start a run after the quit took
  its snapshot.
- Calls that wait for a provisioning when `disposeAll` begins start a new server
  afterwards. A late message can make a stopped session "ready" again, so its status tells
  nobody that it can be used. When a language server exits, its worker thread stays, and
  nobody posts "dispose" to it. The header of `ensureSession` says it never throws, but
  `spawnSession` can.
- In an untrusted project a checkpoint restores no instruction files, though `set_cwd`
  shows them.
- A cost report that arrives between the last flush of a quit and the end of the socket is
  saved and acknowledged, but reaches the process above only when the session is resumed.
  A session of more than about 8,000 answers goes over the limit of 8,192 accounts or 1 MiB
  of a report and stops reporting. Two processes with the same inherited run id would share
  an account of which the larger number counts.
- The lock of a path (llm-editor/lock.ts:7) is a thread's own and knows one spelling of the
  path: what a shell, or a subagent in another thread, changes between an edit's read and
  its rename is overwritten (`EditsSurvive` excepts it). The rename replaces a symbolic
  link by a file. A write that fails midway leaves a part of its text.
- A patch that removes the only line of a file, with its marker of a missing line end,
  leaves one empty line; so do two hunks of which one deletes an open last line and the
  other inserts after it (`OpenEndIsGone`). Text added to an empty file gets no final line
  end; a test says so.
- Two calls that wait for one installation of a language server (lib/lsp/provision.ts:18)
  wake together and both go on; an installation that timed out goes on beside the next.
- tuidos: a blob that was cut short is never repaired, for the next upload of the same
  bytes finds a file (media.ts:46). A project whose creator died before its database was
  initialised can be neither seeded nor made again. An edit with a move carries a card back
  that another client moved between its two transactions. `tls.ts` renames key and
  certificate one after the other and `validCertificate` looks only at the certificate.

## Not modelled

Within the modelled components:

- *Storage*: contents of records, identity checks on directories, the fields of pending
  descriptions. `storage.ts` of a shell is a plain operation with a retry.
- *Temporary directories*: the listing of an inventory (its releases are modelled), the
  check that a directory was replaced by another of the same name. The file of a slot is
  written in one step.
- *Guardians*: bytes of frames and the limit on frames per chunk, a repeated grant,
  identity checks, the limits on depth and entries of a removal.
- *Session hold*: the drain when a headless process quits, the wording of notices. `mail` has
  what the harness sends; a message of the user that waits (`hasPendingMessages`,
  core.ts:177) is a reason, like an error, for `AgentEnd` not to hold.
- *Anti-stuck*: a probe that cannot be started because the fork is refused.
- *Background shells*: exit codes, output, signals other than SIGKILL, orphan notices,
  holds of artifact owners, forks of a session, failures of writes of records. The record of an end that a tool's result
  tells is one step with that result: when the result is saved is decided by the host.
  The agent's queue survives a reload and is lost on leaving.
- *Alarms*: forms of a target time.
- *Ghostmux*: terminal emulation, pictures, the wire format, the Windows variants;
  subscribers that keep a connection after the startup lock is released. In `Ingest` memory
  does not run out and the log takes all of an output or nothing: a frame that cannot be
  allocated after the output was kept (app.zig:273) is sent to nobody, and a connection is
  then told of an end it does not have the whole output of; a log that was written in part
  (output.zig:32) is longer than the final status says. `OutputWhole` holds without these two.
- *Repeat monitors*: the record that carries a monitor over a restart, and monitors of an
  older format. There is one session, so that `notifyRepeat` (repeat.ts:117), which tells
  nobody of a monitor of another session, always finds its own.
- *Files and patches*: the parsers of patches and envelopes, trailing blanks and tabs in
  matching, work limits (a cause of `Fails`), transcripts, modes and symbolic links.
- *Language servers*: documents, diagnostics, limits on both, the choice of language, root
  and server; `force`, and the branch of `stop` that waits for a provisioning.
- *Subagents*: a subagent nested under the parent operation of a retired owner, routes of
  events to the interface, models and prompts.
- *Compaction*: token budgets and byte limits (a cause of `Cancel`), the runtime state in
  a checkpoint, skills, edits of messages that show files, reminders of the directory,
  files of rules.
- *Costs*: tokens and prices (an answer costs one), the limits on accounts and bytes,
  overflow, summaries made from session files, more than one subagent.
- *tuidos*: titles, texts, completion, the order of a message's body parts, topics' texts,
  edits of messages.

Components without a model: presentation (trees, activity browser, footer, viewers),
text transformation (shell analysis, diagrams), requests to services (search,
providers, usage), downloads (LSP installation, tool installer), terminal emulation and
scripts have little state whose order matters. They are most of the repository's lines,
so that most of its lines have no model. What remains with some order of its own is in
the plan.

## Plan

Written, in this order: `StorageOperations` with its proofs, because everything that touches
disk goes through it; `DirectoryPool` and `TempDirs` with proofs and refinement;
`ScratchGuardian`; `SessionHold`, `AntiStuck`, `GoalLoop`; `BackgroundShells`; `Alarms`;
`FileEdit` and `PatchApply`; then `Board`, `CardThread`; `GhostmuxStartup`,
`GhostmuxSession`, `ShellLaunch`, `RepeatMonitor`; `LspSessions`, `SubagentRpc`;
`Compaction`; `CostTree`; the proofs of `ScratchGuardian`, `GhostmuxStartup`, `SessionHold`,
`AntiStuck`, `GoalLoop` and `BackgroundShells`, then, with the composing modules, those of
the other components, and last `FileEdit` and `PatchApply`.

Next modules, most important first:

1. The record of repeat monitors over restarts (`shell/repeat-persistence.ts`), with the
   record discipline of `BackgroundShells`.
2. The lock of an LSP installation (`lib/lsp/provision.ts`) and of the release scripts.

Next proofs:

1. An abstract specification of notices (each completion told once) that `BackgroundShells`
   implements before a reload, and one of a file under a lock that `FileEdit` implements as
   long as one thread works on it.
2. Of `PatchIsMeant` what needs no fold: that one hunk leaves the lines around it alone.
3. `ToldOnce` after a reload, for shells that end outside of the loop which follows them again.
