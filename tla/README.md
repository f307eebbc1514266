# arrow-coder in TLA+

A TLA+ model of arrow-coder, a coding agent in Rust: `crates/arrow-coder-core`
(agent loop, session log, tools, backends), `crates/arrow-coder-cli` (terminal
UI), `crates/arrow-coder-vscode` (a JSON-RPC host) and `vscode-extension` (the
extension and its webview, in TypeScript and Vue). The model is checked with TLC on
small instances; theorems about it are proved with TLAPS.

    tlc -config AgentLoop.cfg MCAgentLoop          # one run
    tlapm SavedSessions_proofs.tla                 # the proofs of one module

Paths of core files below are relative to `crates/arrow-coder-core/src`; `host.rs` is the VS
Code host's, `app.rs` the terminal UI's.

## 1. Modules

| module | models | run | proofs |
|---|---|---|---|
| `UndoStack` | nothing in the code: what an undo facility promises | abstract specification of `FileCheckpointer` | |
| `FileCheckpointer` | `FileCheckpointer` of `core/rewind.rs`, the disk, its writers | `FileCheckpointer` (`MCFileCheckpointer`) | `FileCheckpointer_proofs` |
| `SessionLog` | `session/event.rs`, the projections of `session/store.rs`: operators on sequences of events | through `AgentLoop`, `AgentSession` | |
| `AgentLoop` | a turn of `agent/agent_loop.rs` between the drivers that stop, drop and crash it | `AgentLoop`, `AgentLoopCancel`, `-CompactionInput`, `-Summary`, `-Injected` (`MCAgentLoop`) | `AgentLoop_proofs` |
| `Tui` | `tui/app.rs`: the event loop, the tasks it spawns, their channels, the agent's mutex | `Tui` | `Tui_proofs` |
| `Host` | `host.rs` with a session: read loop, prompt tasks, printers, locks, approvals | `Host` | `Host_proofs` |
| `SessionFiles` | the files of a session, and a process that may die in any write | `SavedSessions` | `SavedSessions_proofs` |
| `SessionIndex` | `session/repository.rs` and the windows that share its directories without a lock | `SavedSessions` | `SavedSessions_proofs` |
| `Transcript` | what a user is shown: the projection of the log, the view of a turn, the live timeline | through `AgentSession` | |
| `AgentSession` | a session as the host drives it: usage, limits, bootstrap, undo, compaction, reopening | `SavedSessions` | `SavedSessions_proofs` |
| `SavedSessions` | the three before this line that have state | `SavedSessions` (`MCSavedSessions`) | `SavedSessions_proofs` |
| `ToolCalls` | one call through hooks, permission, question, tool, result | `Tools` | `Tools_proofs` |
| `Shell` | `bash` and `bash_session` | `Tools` | `Tools_proofs` |
| `FileTools` | `write_file`, `edit`, `str_replace_editor`, `delete` next to a user who saves | `Tools` | `Tools_proofs` |
| `Todos` | the todo list, its snapshots in the log, sub-agents and their tasks | `Tools` | `Tools_proofs` |
| `Tools` | the four above | `Tools` (`MCTools`) | `Tools_proofs` |
| `Mcp` | `mcp/registry.rs`, `mcp/transport.rs`, with servers that are late, noisy or dead | `Services` | `Services_proofs` |
| `LlmStream` | the three backends of `llm/` and the loop that gathers a streamed reply | `Services` | `Services_proofs` |
| `Config` | the layers of `core/config.rs`, their files, and two hosts that load and save them | `Services`, `HostCreate` | `Services_proofs` |
| `Services` | the three above | `Services`, `HostCreate` (`MCServices`) | `Services_proofs` |
| `Lemmas` | nothing in the code: induction over numbers, the greatest and least element of a set, functions defined by recursion, folds | | by themselves |

`SavedSessions`, `Tools` and `Services` put components side by side that share no state: a
behaviour chooses one and follows it from all its initial states while the others stay at their first.
They are one instance for several models, not a claim about how the components interact.

Where components do interact, one of them has the other's step in it:

* `AgentLoop` and `AgentSession` EXTEND `SessionLog`, the same operators on the same events.
* `AgentLoop!BeginTurn`, `ToolWrites`, `Undo`, `RestoreFile`, `Clear` are the calls into
  `FileCheckpointer`, whose stack is there reduced to numbered writes.
* `AgentLoop!Cancel` is what `Tui!Abort` does to a turn, `AgentLoop!RequestStop` what `Host!Cancel` does.
* `AgentLoop!Restart` resumes one of the logs `SessionFiles!DieInFlush` leaves and `Load` accepts.
* `AgentSession!AsReopen` reads the log that `SessionFiles!AtRestOnDisk` finds on the disk.
* `ToolCalls` is one of the calls `AgentLoop` numbers; `Shell!Dropped`, `Mcp!Abort` and `ToolCalls!DropTurn` are
  what `Tui!Abort` does to the tool that runs.
* `Host` starts with a session; that it cannot get one at this commit is `Config!ChosenModelOpens`.

## 2. Inventory

### File checkpoints (`core/rewind.rs`)
*State*: a stack of checkpoints, each with a message index and snapshots of
files (content, or "did not exist"); the disk. *Operations*: `create_checkpoint`
when a turn begins, `snapshot_file` before a tool writes, `restore_and_pop` for
`/undo`, `restore_file` and `get_file_changes` for the pending-changes panel,
`clear`. *Called by* the agent loop only, under its lock; but bash commands, the
user's editor and a late write of a dropped task change the same disk.
*Hard*: several writes of a file in a turn with a single-file restore between
them, restores that fail halfway, writes nobody announced, indices that decide what an
undo drops. *Correct if* undoing a turn gives back the disk of its beginning
on every file the checkpointer was told of.

### Event log (`session/store.rs`, `session/event.rs`) and transcript (`session/query.rs`, `host.rs`, the chat store)
*State*: an append-only list of events, mirrored to `events.jsonl`; the timeline of a window.
*Operations*: append (and rewrite of the file), `undo_last_turn`, append of a
`Compaction`; projections into API messages, UI messages, todos, views of a turn; the fold of notifications into
the timeline. *Called by* the agent loop, the host and the session queries.
*Hard*: every projection must make sense of every log that stop, cancel, crash,
undo, compaction and older versions leave; the live timeline and the replayed one are two programs. *Correct if*
every result answers a call of its turn, a closed turn is whole, requests satisfy the pairing rule of the chat APIs,
what was once sent stays a prefix of what is sent next, and a window that watched and one that opens see the same.

### Agent loop (`agent/agent_loop.rs`, `agent/middleware.rs`, `agent/session.rs`, `compaction/mod.rs`)
*State*: the log, the checkpointer, queued injections, the current turn, the
abort receiver, statistics, session approvals. *Operations*: `run_turn`,
`run_turn_streaming`, `compact`, `undo_last_turn`, `restore_file`,
`inject_message`, `clear_messages`, `with_session_logger`. *Interacts* with the
backend (requests), the tools, and the driver's permission and stream callbacks; it
is owned by a mutex a turn holds from beginning to end. *Hard*: a turn may be
stopped at its head or in the token loop, dropped at any await, fail, or
panic; each leaves the log and the counters in its own way. *Correct if* the properties of the log hold
through all of that, undo takes back exactly the writes it forgets, stops and injections reach the turn, and the stats
of a turn are of that turn.

### VS Code host (`host.rs`, `main.rs`, `jsonrpc.rs`)
*State*: the session (behind an async mutex), the running flag, the abort
channel, maps of pending approvals and questions, the pending model.
*Operations*: a sequential loop over JSON-RPC requests; a prompt spawns a task
that locks the session for the whole turn, and a printer of its events. *Hard*: requests that lock the session in the
loop wait for a turn that may wait for an approval only the loop can
deliver; the running flag is set by the task, after the check; a timeout of
300 s races the approval; the question callback has no timeout; the channel
of a stop is replaced per prompt; the channel of events holds 1024 and drops the oldest of them for a printer that is further behind. *Correct if* a turn runs in the session its prompt was typed in, a stop stops the
turn it was for, no event is lost but by that limit, and the host answers again.

### Terminal UI (`crates/arrow-coder-cli/src/tui`)
*State*: the screen's state, `agent_running`, `current_task`,
`pending_permission`, `pending_command`; two channels; the agent's mutex.
*Operations*: drain events, take one permission request, run a slash command,
handle one event of the user; one task per turn. *Hard*: a cancel drops the task
but not what it has put into the channels; a slash command waits for the mutex
inside the loop; two end events per failed turn. *Correct if* no request is
lost, no turn is out of Ctrl+C's reach, the loop never waits for a turn that
waits for the loop, and every turn hands the input back.

### Session files (`session/logger.rs`, `manager.rs`, `repository.rs`, `header.rs`, `resume.rs`)
*State*: a directory per session with `header.json`, `events.jsonl` and the legacy
`messages.json`. *Operations*: create, append, load, migrate, list, title, rename, delete, resume, from several
processes. *Hard*: no write is atomic, `read_events_file` rejects a log with one torn line, and
`with_session_logger` then goes on with an empty store in memory; headers are read, changed and
written without a lock; a directory is removed file by file. *Correct
if* the log follows the store, no event comes twice, a torn log is left alone, a damaged header is a passing thing, and
what was deleted stays deleted.

### Tool calls and permissions (`tools/permission_checker.rs`, `permissions.rs`, `pipeline.rs`)
*State*: tools and rules approved for the session; the call in progress. *Operations*: hooks before and after,
resolve a call to allow, ask or deny; approve once, for the session, or for a pattern. *Hard*: the order of
denials, requirements and approved rules; a turn dropped while the user is asked; tools that wait without a timeout; the programmatic
run, which builds its loop without a checker, so that nothing is denied or asked there. *Correct if*, where there is a checker, a denial is never overruled, an approval never covers another tool, and every call gets its result.

### Tools (`tools/builtins/*`, `core/task.rs`)
*State*: the shell sessions of `bash_session.rs` (a static map), the files,
the todo list, the task graph; the rest is stateless. *Hard*: a command, its
background helpers, the timeout and the abort end in any order; a line of its output may be no UTF-8; a user saves the file an edit is about; sub-agents
share their parent's list, and some loops are not given it. *Correct if* no shell outlives its call, the output reported is all of it, an edit
changes exactly what it matched, no file is torn, the log has the list.

### MCP client (`mcp/*`)
*State*: child processes with their pipes, cached tool lists, two locks. *Operations*:
discover, call, refresh, clear, over stdio or HTTP. *Hard*: responses are not matched
by id, so the late answer of a request that timed out is read by the next; a lock is held across calls. *Correct if*
a caller gets the answer to its own request, and every call returns.

### LLM backends (`llm/*`)
*State*: none between requests; within one, half a line and the fragments of tool calls.
*Hard*: lines cut anywhere, inside characters too, gaps in the indices of calls, usage that comes after the end, two timeouts, errors
that are items of the stream, three wire formats. *Correct if* what is gathered is what was sent, no half call runs, a request carries
every call and result, and a reply ends.

### Configuration (`core/config.rs`, `core/config/repository.rs`)
*State*: a file of the user and one of models, a file of the project, the environment; a merged
copy in each host. *Hard*: two files per save, in place; two hosts; layers that can only add; a start that needs a choice
only a started host can take. *Correct if* what was saved is what is loaded, and a crash takes no model away.

### Not modelled
Agents, skills and prompts; search and web tools; rendering; the process controller of the extension: see section 6.

## 3. How the modules correspond to the code

`PROJECT.json` gives the lines each definition stands for. What follows is what one cannot see there:
the grain of the steps, the history kept for the properties, and what is abstracted.

### `UndoStack` and `FileCheckpointer`
`UndoStack` saves the whole disk at every `Save` and gives all of it back at
`Undo`, except files that were changed behind its back (`spoilt`) or could not be
written. `FileCheckpointer` is the code: `CreateCheckpoint`, `SnapshotFile`,
`RestoreAndPop`, `RestoreFile`, `RestoreFileFails`, `Clear` are the methods;
`ToolWrite` and `ForeignWrite` are the environment, a write after
`snapshot_tool_targets` and one without. Two history fields per checkpoint say what
the promise is about: `base`, the disk when it was opened, and `blind`, the paths the
checkpointer cannot answer for: changed unannounced, or announced while the file could
not be read (`FileSnapshot::from_disk` turns every read error into "did not
exist"), or left in an unknown state by a failed restore. `restore_and_pop` pops first, so
`RestoreAndPop(failed)` loses the checkpoint even when files fail; `restore_file`
keeps the entry of a file it could not write.

`Fresh` is what callers pass as the index of a checkpoint: a larger one each time, the way the documentation and the
tests of `rewind.rs` use them, so that an undo drops the top one; or always 0, the only index
`AgentLoop::snapshot_messages` passes, so that an undo drops all. `UndoStack` has the index as `mark`, and forgets the same saves.

### `SessionLog`
An event keeps its kind, a number (turn, end of the compacted range, the write
behind a result, the text of a message), an id and the reason of a turn's end. `DeriveMessages` is
`derive_messages` with its passes in order: drop what a compaction covers, drop
log-only events, merge adjacent assistant fragments (`Coalesced`), drop tool
messages no assistant message before them carries the call of (`Anchored`).
`UndoLastTurn`, `ToolPairSafeCut`, `RetainedEvents` and `CompactionOutcomes` are the
operations that change a log other than by appending. Texts and arguments are left out.

### `AgentLoop`
A step is what runs between two awaits of `run_turn`; `run_turn_streaming` is the same function twice over,
with a token loop in the place of one call, and takes the same steps. `pc`:

| `pc` | the turn awaits |
|---|---|
| `before` | the middleware and, if it asks, the compaction before the first request |
| `head` | nothing: the head of the loop, where the abort channel is read and injections are drained |
| `llm` | the backend, including the token stream |
| `tool`, `confirm`, `invoke` | the hooks of the first unanswered call, the user's approval, the tool |
| `stopping` | `on_turn_stopping` |

`Refuse`, `CompactFirst`, `HeadStop`, `FailRequest`, `Finish` are the ways a turn
ends by itself; `Cancel` drops the future at any await; `Restart` resumes the log,
after a crash any prefix of it, because `write_events_file` truncates the file and
writes it line by line. `Reply(n, sent)` covers a text, `n` parallel calls, a compaction because
the reply hit the length limit, and a token loop that broke off on a stop. `Undo`, `RestoreFile`, `Clear`,
`Inject`, `Compact` run between turns only: the lock on the agent, or `&mut self`, keeps them out.
Files are numbered writes; that undo gives back files is the promise `FileCheckpointer` proves, and here the
question is whether log and files are cut back together. `driver` is chosen once: the VS Code host stops
turns and injects, the terminal UI drops them, and dies.

### `Transcript` and `AgentSession`
`DeriveUi` is `derive_ui_messages`, a recursive function of the prefixes of the log with one slot for the call whose result is awaited; `TurnView` is
`get_turn_window` of `session/query.rs`, which projects a range of the log by itself; `Shown` takes one
broadcast event through `map_event_ui` of the host and `appendUiMessage` of the webview. A message keeps
its role, the number of its text or stats, and the calls whose name and result its card shows.

`AgentSession` is a session under the host, one reply costing one token: `asBase` and `asTotal` are the
totals `AgentStats` had when the turn began and has now, `asSpent` the history the stats must
report, `asOffered` whether a request offers all tools or those of the bootstrap phase, `asShown` the timeline of a
window that has watched from the start, `asApart` that an undo or a panic took from the log what was shown.
`AsBegin`, `AsRefuse`, `AsProceed`, `AsCompactFirst`, `AsStop`, `AsAsk`, `AsFail`, `AsReply`, `AsAnswer`,
`AsFinish` are the turn of `AgentLoop` with its hooks, permissions and files left out, and with the events it
broadcasts in; `AsUndo`, `AsCompact`, `AsCommand`, `AsReopen` run between turns.

### `Tui`
`at` is the position in `App::run`: drain the events, take one permission request,
run a slash command, handle one event. A turn's task is `locking` the mutex,
`working`, `asking` for a permission, and then `ended`, `failed` (between its
`Error` and its `TurnComplete`) or `panicked`. `tokio::task::JoinHandle::abort` takes effect at
the next await, so `Cancel` only records it and `Abort` ends the task.
`HandleSlashCommand` blocks the loop while another task has the agent, as the code does.

### `Host`
`hoLoop` is the request the loop is in, `hoLock` the queue of tokio's fair mutex around the session with the
holder first: a request waits in the loop (`Begin`), gets its turn (`Prompt`, `Inject`, `Swap`,
`EndCommand`) or, `session/create` alone, gives up after its timeout (`CreateTimesOut`). A prompt makes an abort
channel, and a task that sets the running flag (`SetRunning`), puts the channel into the session (`Wire`), queues
for it again and sends. Its turn emits events into the printer's backlog, asks for a
permission or a question, ends, clears the flag, reports the changed files. The backlog is the `broadcast` channel of
`ChannelSize` events, 1024 in the code: one more drops the oldest (`Hears`), and `lagged` is what the receiver will be told of it at its next read.
`PrintEvent` and `PrinterEnds` are the printer, which a channel of its own tells to end: it skips what was dropped while it waits for events, and stops
there when it drains what is left. History: `of`, the session the prompt was typed in;
`crossed`, that another prompt or a session came between the prompt and its
turn (the read loop checks the running flag before the task sets it); `unheard`, that an event of the turn went to a channel its printer does not read.
The steps of the turn between its awaits are `AgentLoop`.

### `SessionFiles`
A message is the number it was given when it was said, so an event that is lost,
repeated or out of order shows. `header`, `log` and `mirror` are the files of each session;
`open`, `store`, `bound` (is `SessionStore.file` set?) and `system` are the memory of the one
process. An operation of the agent loop changes memory at once and leaves in `pending` the writes the code
makes after it, in the code's order: `push_message` writes the mirror and then the log,
`push_tool_result` the log and then the mirror, `undo_last_turn` the log and then saves the mirror,
`clear_messages` the log only. `Flush`, `AppendMirror` and `SaveMirror` are those writes;
`Die` ends the process before the next one, `DieInFlush` and `DieInMirror` within it.
`write_events_file` writes unbuffered, line by line, so what is left of a log is some of its lines and
perhaps a part of the next (`Damaged`, which `read_events_file` rejects as a whole); a
cut `messages.json` or `header.json` does not parse at all. Errors of the file system other than a death are left out.

### `SessionIndex`
Windows (host processes, or a terminal) work on one `save_dir` without a lock. An operation of several
file system calls is a record in `ixDoing` that other windows step in between: a rename reads the header
(`ReadHeader`), opens it, which truncates it (`OpenHeader`), and writes it (`WriteHeader`), with a torn header for the readers
in between; a deletion removes the files (`DeleteFiles`) and then the directory (`RemoveDirectory`, which fails if a
file has come back); opening reads all headers up to the first that is
damaged. `Over(old, new)` is a shorter text written over a longer one. `ixMarred` are the headers two windows wrote at once or
one died writing, `ixGone` the deleted sessions; `LoadStore` takes one out of
it when it makes its directory again, which `load_from_dir` does for a session deleted meanwhile.

### `ToolCalls`
One call at a time from the reply to its result. `RunPre` and `ToolReturns` let a hook answer in the place of the tool or change
its result. A session's `tcPolicy` says, among the rest, whether its loop was given a permission checker (`checker`): the programmatic run's
was not, and allows every call. With one, `CheckPermission` is `check_permission` in its order:
disabled, never, path and pattern denials (`Forbidden`), rules required (`Required`), rules
granted (`Covers`), policy (`Verdict`). A path is what the checks tell apart, its text and where it leads;
a pattern is the set it matches. `tcApproved` and `tcGranted` live as long as the session; `DropTurn` drops the call at any await. `Endless` are the tools that
wait without a timeout, for an answer to `ask_user_question` or for the body of an MCP server's reply: they return or do not.

### `Shell`
`shCall` is the waiting call with the branch of its `select!`, `shProc` the shell it started with its pipes, helpers
and lines: the branches read the outputs to their end, then take the child out of the shared
slot and wait for it; the abort and the timeout kill it if it is still in the slot. A reader ends as well at a line that is no UTF-8 (`ReadsNoUtf8`,
remembered in `deaf`): then the outputs may be taken to have ended (`OutputsEnd`) while the command goes on and prints. The command
is the environment: it prints, closes its outputs, leaves helpers that keep them open, exits or never does.
`bash_session.rs` only hears an abort while the shell runs with its outputs closed (see section 4).

### `FileTools`
A call reads the file, edits the text (`Occurrences`, `Replace`: `count_occurrences` and `str::replace` on sequences of
characters), and writes it call by call: create and fill a sibling, rename, read back, and write the old text back if it differs
(`edit.rs`, `str_replace`), or only report it (`write_file.rs`); `create` and `insert` end with the rename. Any of them may fail or
be the last of the process; a user saves between any two.

### `Todos`
`tdItems` is the list, `tdLog` the snapshots and turn marks of the log, `tdTasks` the tasks. The session's own loop
logs the list after a call, a sub-agent's does not, the webview sets a status only when no turn holds the lock. `tdWired` is whether the loop was given
the list (`with_todo_state`), which only the VS Code host does: without it nothing is logged or restored. `ClearMessages` resets the log and leaves the list. `tdAhead`
remembers which of undo, clear and sub-agents list and log are apart for.

### `Mcp`
An actor is a caller of a tool or the manager that discovers. A request waits for the lock, writes its line, reads one
line, or gives up; a refresh or a discovery runs through `initialize`, the notification, `tools/list` of each server left (`mcpTodo.servers`, by their places in the configuration). The process is a pipe of lines asked and said; a
line only says whether it is the answer of the request that waits now (`own`), of one given up
(`upset` then says the connection once had one), or a notice. HTTP transports answer their own request or none, and may withhold the body.

### `LlmStream`
The service utters lines, the reads cut them (`ReadEvent`, or `ReadStart` and `ReadRest` inside a line, maybe inside a character of its text or of
its call, which `from_utf8_lossy` garbles: `CutLine`),
the backend buffers (`Gather`) and yields, the agent loop consumes (`Consume`, which skips a chunk that repeats the text before it, whole), in one step per read. The three backends differ by
`llmBackend`: whether half a line is kept, whether calls are held to the end, which call a fragment without index belongs to.
`Tick`, `Expire` are the total timeout of the HTTP client and the watchdog of silence. An error does not end a stream: the backend yields it, the loop
logs it, and both ask for the next item. After an error of the body (`BodyFails`, phase `failing`) that is the end of the stream or another error; after the client's
timeout (phase `expired`) it is the same error again (`YieldsAgain`), until an abort, which is looked at when an item comes. `RequestItems` is the conversion of a conversation to
the wire, per backend.

### `Config`
A configuration is a set of settings, the definitions of models, and whether models have their own file. `LoadResolved` merges user file, models file, project file
and environment as `load_resolved` does; `Create`, `Reconfigure`, `ConfigModels`, `ConfigUpdate` are the requests of the host that touch it;
a save opens, which truncates, and fills each file (`SaveOrder`: the models first, the models moved out of the user's
file after), fails, or dies. `alone` is history: nobody else wrote since.

## 4. What the runs check

| run | question | distinct states |
|---|---|---|
| `FileCheckpointer` | With increasing indices and with the 0 the loop really passes: has every changed file its snapshot (`SnapshotsCoverChanges`), does an undo give back the disk of the turn's beginning (`UndoRestoresTurnStart`), and does snapshotting only announced files implement an undo stack that saves the whole disk (`ImplementsUndoStack`)? | 297 000 |
| `AgentLoop` | Sessions whose turns are stopped, dropped and crashed: every result answers one call of its turn (`ResultsAnswerCalls`), closed turns are whole (`ClosedTurnsAreWhole`), what was sent stays sent (`RequestsOnlyGrow`), requests pair calls and answers while turns are only stopped (`StoppedTurnsPairCalls`), undo and log stay aligned (`UndoAligned`), the user's injected messages are in the next request, each once and behind all that was sent before (`InjectedReachTheModel`). | 369 000 |
| `Tui` | No request is lost (`LiveRequestsSurvive`), every live turn can be cancelled (`CancelReachesTurn`), commands get the agent and turns hand the input back (`InputReturns`). | 2 400 |
| `Host` | A turn runs in its session and hears its own cancel (`TurnIsItsOwn`), its events are printed but for those the channel drops (`EventsArePrinted`), the loop reads on and every prompt ends although requests wait in the loop for a turn that waits for the user (`HostGoesOn`). | 1 030 000 |
| `SavedSessions` | Files under processes that die anywhere: `AtRestOnDisk`, `NoEventTwice`, `TornLogsStay`. Headers under several windows: `DamageIsPassing`, `DeletedStayGone`. A session and its windows: `ReplayIsLive`, `WindowsTile`, `StatsAreTheTurns`, `WorkKeepsTheTools`. | 625 000 |
| `Tools` | What runs under a checker has the right to (`RunsByRight`) and every call is answered (`CallsAnswered`); shells end with their calls (`EndedCallsLeaveNoShell`, `RunsEnd`) and report everything that can be read (`ExitReportsAll`); no reader finds a torn file (`NeverTorn`), an edit changes exactly what it matched (`EditsAreExact`); the log of a loop that was given the todo list has it (`LogHasTheList`). | 320 000 |
| `Services` | An MCP call hears its own answer (`AnswersAreOwn`) and returns (`CallsReturn`); a streamed reply is the model's (`ReplyIsExact`), no half call runs (`NoCallIsHalf`), a request keeps every call and every result (`RequestIsWhole`), a reply ends (`ReplyEnds`); what was saved is loaded (`SavedIsLoaded`) and a crash between two files takes no model away (`KeptModelsLoad`). | 841 000 |
| `AgentLoopCancel` | violated: a cancelled turn leaves calls the next request carries unanswered | finding 1 |
| `AgentLoopCompactionInput` | violated: compacting past a turn marker panics | finding 2 |
| `AgentLoopSummary` | violated: a compaction's summary is in no request | finding 3 |
| `AgentLoopInjected` | violated: an injected hint is in no request | finding 4 |
| `HostCreate` | violated: a user who has chosen a model is told to choose one | finding 5 |

The four `AgentLoop` runs that end in a violation use the module and the kind of instance of the passing one, each with the
driver and the log its finding needs. Many properties name the cases in which the code does not do what one would want
(`~asApart`, `crossed`, `lagged`, `upset`, `deaf`, `checker`, `Endless`, `tdWired`, `tdAhead`, `TornLines`, `CutWords`, `CutCalls`, `LateCounts`,
`SecondCall`, an `expired` reply, `alone`, `Clogged`, `Questioned`): each of these is a
disagreement or a weakness listed below, and the property says that the model has no other.

`RequestIsWhole` speaks of the order within the calls and within the results, not between them: the Responses backend does put results before their calls (see
below). `EditsAreExact` speaks of calls during which nobody saved, `AnswersAreOwn` of connections no request was given up on.

The type invariants (`TypeOK`, `IndexTypeOK`, `CallTypeOK` and so on) are no runs of their own: they hold on the instances above, and those of
`FileCheckpointer`, `AgentLoop`, `Host`, `Tui` (without `SlowTail`), `SessionFiles`, `SessionIndex`, `ToolCalls`, `Shell`, `FileTools`, `Todos`, `Mcp`, `Config` and `LlmStream` are theorems.

### Bounds
* `FileCheckpointer`: 2 paths, 2 contents, 2 checkpoints, indices 0 and 2. An undo relates the top checkpoint to the
  one below: with 0 and then 2 it keeps the lower one, with 0 and 0 it drops both. Two paths show one file's snapshot left
  alone by another's restore; two contents and "absent" tell a first snapshot from a later one. Paths and contents are symmetric. The theorems lift the bounds.
* `AgentLoop`: 2 turns for what one leaves to the next, 2 calls for one answered and one open, parallel or in two
  rounds, 1 compaction, 1 injected message. It starts from a new log and from logs without turn markers: `load_from_dir` still reads
  those, and only on them can a compaction get past its `unreachable!()`. `MinCompactionRange` is 2, the code's constant.
* `Tui!MaxTurns` 3: the current turn, one cancelled before it, and one that was cancelled before that. `SlowTail` FALSE: no key arrives in
  the microseconds between the last await of a task and its end. With TRUE, `LiveRequestsSurvive`
  still holds, and `CancelReachesTurn` fails: a failed turn sends two end events (`app.rs:584-585`), and if the first
  is drained and a new turn submitted before the second is sent, the second clears the new turn's handle;
  so does the last part of `TypeOK`: if the new turn already has a request on the screen, the second event takes the state out of `Confirming`
  and leaves the request there.
* `Host`: 2 prompts, which cross each other; 1 question or permission each; 1 session swapped in; 2 events per turn and a channel of 1 (the code's holds 1024), so that
  it is full after the first and drops it at the second. The theorem holds for a channel of any size.
* `SessionFiles`: 2 sessions, the second for what a damaged header does to its neighbour; 4 messages, one each before, in and after the
  write that dies, and one for the system prompt.
* `SessionIndex`: 3 windows (a writer, another, and a remover) on 1 session; 2 windows on 2 sessions were checked once (460 000 states).
  Titles are the seed's, the prompt's, and a renamed one that is longer than both.
* `AgentSession`: 3 texts, 2 calls, both at once or one after the other, 1 summary, turn limit 3, threshold 2, a summary of size 2.
* `Tools`: 7 tools, one per permission and kind of pattern and one that is endless; loops with and without a checker; 4 kinds of path; 2 dangerous commands, a plain one and a pattern;
  1 shell session, 2 lines; texts short enough to hold two occurrences, overlapping ones too; 1 save, 2 pairs; 2 todo items, 1 turn, 1 task.
* `Services`: 1 MCP server with 1 tool for 2 callers and the manager, pipes of 1 line, 1 unasked line; replies of up to 2 words and 2 calls, 3 of them together (2 in `HostCreate`, which is about the configuration), names in up to 2 fragments, arguments in 1, total limit 1 against idle limit 2 (the code's 120 s and 300 s); 2 hosts, 1 model with 2 definitions, 3 requests, over 4 user
  files, 2 project files and 3 environments.

`CHECK_DEADLOCK FALSE` in the runs whose behaviours end: at their bounds, with the process, or where a server or user never answers.

### Fairness
* `Tui!FairSpec`: the loop turns (weak: a `select!` with a 50 ms sleep always returns). Tasks are scheduled, an aborted one reaches an
  await, an answered one resumes (weak). A turn does not ask for ever and gets the mutex when it is free again and again
  (strong: tokio's mutex is a FIFO queue; a turn's number of calls is finite). A user who is asked again and again answers (strong;
  the terminal has no timeout, and without it a turn may of course wait for ever). Nothing is assumed of typing, submitting, cancelling or quitting.
* `Host!HostFairness`: the loop, each task, its printer and the approval's timer are run (weak). The mutex is a queue in the state, so no
  strong fairness is needed, and the user answers nothing: approvals time out, and a question may keep everything (`Questioned`).
* `Tools!ToolsFairness`: the agent loop goes on with a call that waits for nobody, and a tool all of whose waits end returns; the abort and the timeout of a shell's `select!`
  are polled, a killed process dies (weak). No fairness at all for the command and for the reading of its outputs, for the user, and for the tools that wait without a
  timeout (`Endless`).
* `Services!ServicesFairness`: timers fire, a stream that has an item is polled (`YieldsAgain("expired")`), an actor that can talk does (weak), and the lock goes to
  waiting callers in their order (strong on `Acquire` and `ReturnCall`). Servers and services may be silent for good.
* `AgentLoop`, `FileCheckpointer`, `SavedSessions`: safety only.

### Findings
Where a document, a comment or a message of the repository says something else than
the code does (quotations are in `PROJECT.json`):

1. `RequestsPairCalls`: cancelling in the terminal UI leaves a `ToolCall` without a
   `ToolResult`, and the next request carries it (`app.rs:857`).
2. `CompactionTakesMessagesOnly`: `derive_messages_range` passes turn markers on to an
   arm that is `unreachable!()` (`store.rs:416`).
3. `SummaryStandsIn`: the summary of a compaction is a system message, and requests
   filter those out (`store.rs:230`, `agent_loop.rs:2308`).
4. `InjectedHintsReachTheModel`: an injected message, user or system, is consumed at the head of the loop "so the upcoming LLM call sees it"
   (`agent_loop.rs:343-346`); a system message is logged, and then filtered from the request (`agent_loop.rs:2308`).
5. `ChosenModelOpens`: `build_session` needs `pending_model` (`host.rs:1335`), which only `session/reconfigure` sets, which
   requires `initialized` (`686`), which is set after `build_session` has succeeded. `Host` therefore assumes a session.

### Disagreements and weaknesses not carried as runs
Met while modelling; each is in the model as the code has it.

*Agent loop and log.*
The token loop breaks on a stop "to let the outer loop emit" the abort (`agent_loop.rs:2398`), but the tools of the partial reply run first.
Checkpoints all have index 0, so one `/undo` drops all older ones and a second finds nothing (`agent_loop.rs:188`, `rewind.rs:411`).
With a backend that leaves out call ids, a call is logged under "call" and answered under "call-<index>" (`agent_loop.rs:1611`, `3039`): `MissingIds` TRUE violates
`ResultsAnswerCalls`. `tool_pair_safe_cut` may cut inside a parallel round (`store.rs:656`). `context_tokens` is only set by a compaction
(`agent_loop.rs:1107`), so neither the automatic one nor the warning comes before a manual one; the price limit and the warning flag never
act; `--max-turns N` refuses turn N (`middleware.rs:86`). All system messages are filtered from requests (`agent_loop.rs:2307-2312`), prompts of a profile
and injected hints among them. Compacting a log with markers panics, so a reply that stopped for its length loses its text. The `Command` event of `/undo` is removed by
the undo it records. A programmatic run is built without a permission checker (`entrypoint.rs:249-304`), and a loop without one allows every call
(`agent_loop.rs:1220-1223`), denied and never allowed ones among them. Sub-agents' and the summary's usage is not counted, limits restart at zero on reopen. `run_turn` and `run_turn_streaming` are one function twice.

*Transcript.*
`get_turn_window` reads absolute compaction indices inside its window (`query.rs:171`), and counts injected user messages as turns.
Replay keeps one pending call (`store.rs:470`), so the names of all but the last of parallel calls are lost, and a call left open by a crash moves to the end or vanishes.
The webview keeps showing an undone turn.

*Host.*
Two quick prompts pass the running check before the first task sets the flag: the second's channel takes the place of the first's, and
cancel reaches the other turn; a session opened in between gets the prompt, without a channel (`crossed`). The printers of two turns print both turns' events.
`agent/done` overtakes events (`592`). The channel of events keeps 1024 (`agent_loop.rs:174`): a printer further behind loses the oldest and goes on (`host.rs:542`), and if it is told to end
before it has noticed, it stops there with up to 1024 events unprinted (`551`). `session/inject` waits in the read loop for the whole turn (`664`): approvals are not read until they time out, a question
never. `todo/update` is "safe while a turn runs" (`1216`) but then never gets the lock. The first prompt takes `pending_model` for good (`512`), so that a session created later
has none. Commands run in the read loop and cannot be cancelled; only `session/create` has a timeout. `session/list` shown to a user may be stale.

*Terminal UI.*
Answering the dialog of a cancelled turn sets the screen to `Processing` with no turn to leave it (`app.rs:254`); a failed turn sends two end
events; a panic leaves input refused. A programmatic run ignores the session `--resume` found and creates another (`entrypoint.rs:246`).

*Session files and index.*
Every append truncates and rewrites `events.jsonl` (`store.rs:801`), so a death may take any number of earlier events. A damaged header keeps
every session from being listed or found by its whole id (`repository.rs:232`), a damaged mirror keeps a whole log from being
resumed (`logger.rs:336`). A partial id of fewer than eight bytes panics (`repository.rs:89`), and titles, previews and `edit.rs:178` slice bytes inside UTF-8 characters. Sessions the host
creates have no cwd, so resuming the latest of a folder never finds one. A failed resume leaves no session and nothing is saved. Deleting the running session lets its later
writes fail unnoticed; opening one that is being deleted brings its directory back. The list is ordered by creation, not by the last update.

*Configuration.*
`set_models` writes the merged configuration, project and environment included, into the user's file. A broken file starts with defaults, and the next save overwrites it.
Two hosts overwrite each other; a start in the middle of a save reads an empty file as defaults. Project models override a saved edit. Memory has changed even if the save failed.
A missing models file fails the whole load. `config/models` before a session panics (`host.rs:797`).

*LLM backends.*
A stream "must not" be ended "on *total* time" (`deepseek.rs:660-665`), but the client has a total timeout of 120 s, which comes before the 300 s watchdog. After it every poll of the body is
an error, which the backend yields (`openai.rs:640-642`, `deepseek.rs:819-821`) and the loop logs before it polls again (`agent_loop.rs:2484-2486`): the turn neither ends nor waits, until somebody aborts it. The chat backend emits its
calls twice when finish and usage come in two chunks. A chunk that repeats the text before it is dropped by the loop, with the calls in it (`agent_loop.rs:2423`, `2446`). Reads that cut a character garble it,
in texts and in the names and arguments of calls (`deepseek.rs:706`, `openai.rs:617`). The Responses backend puts results before their calls (`deepseek.rs:1094-1126`), loses a cut line, and keeps the last of several
calls. An error of the body is only logged, and a partial reply treated as whole. No caller retries. OpenAI streams report no usage and have no idle timeout. An abort is seen at the next chunk.

*MCP.*
Ids are not compared, so a late answer is taken by the next request. Tools of two servers with one name replace each other though `registry.rs:274` speaks of qualified names. The initialized
notification is awaited like a request (`transport.rs:258`). A dead server is not started again, a refreshed one not killed. Writes to a full pipe and the body of a response are awaited without a timeout.

*Tools.*
A line that is no UTF-8 ends the reading of an output (`bash.rs:240`, `246`, `bash_session.rs:342`, `348`): what follows is lost, the result says nothing of it and has a normal exit
status; and when both readers have ended the child leaves its slot, so that a timeout no longer finds the shell. `ask_user_question` (`host.rs:1607-1609`) waits without a timeout.
`bash_session` does not hear an abort before the outputs end (`333`), and kills the child, not its "process group" (`367`). `cd a && cd b` tracks only `a`, and a failed `cd` moves the session all the same. The streaming
loop skips the hooks after a call that was confirmed (`agent_loop.rs:2728`). The rule a grant of an outside path adds is for the inside (`permissions.rs:163`). A relative path counts as outside, `wd/../x` as inside. The rollback of an edit overwrites what a user saved
meanwhile, and an error of the read after the rename is reported as a failure though the file changed. `str_replace_editor` is not announced to the checkpointer. The log of todos and the list are apart after undo, after `/clear`
(`agent_loop.rs:2919`) and after sub-agents, and the loops of the terminal and of the programmatic run, which are not given the list, log none (`520`); `agent_loop.rs:509` says they are in sync. Then a task dropped on the way stays pending.

*Extension (read, not modelled).*
A process that exits before `agent/done` leaves `starting` set; the exit handler of an old process clears the new one; `stopAndWait` never kills;
`restart()` drops its `fresh` flag (`host.ts:158`); a second permission request overwrites the first.

## 5. What is proved

Eight modules, each proof for every value of the constants. `PROJECT.json` lists the theorems with the
properties they state.

### `FileCheckpointer_proofs`
No assumption but that the bounds are
numbers, the indices natural and `Absent` no content.

* `CheckpointsTyping`: `TypeOK`.
* `ChangesAreCovered`: `SnapshotsCoverChanges`. A path that differs from what it was when the open
  turn began has a snapshot of that, or is `blind`.
* `UndoGivesBack`: `UndoRestoresTurnStart`. An undo gives back the disk of the
  turn's beginning wherever it wrote, with index 0 and with any other.
* `CheckpointerImplementsUndoStack`: `FileCheckpointer` refines `UndoStack`.

`SnapshotsCoverChanges` speaks of every checkpoint, against the disk
its turn left behind (`DiskAfter`: the base of the next checkpoint, or the present disk), because
popping one makes the turn below it the open one. That step is where it is not
inductive by itself: how many checkpoints go depends on the indices, and if some but not all
older ones went, the survivors would be measured against another turn's disk. So the inductive
invariant, `CheckpointsInv`, is `TypeOK`, `SnapshotsCoverChanges` and `Growing`: indices grow up the stack, but for zeros at the
bottom. Then an undo takes exactly the top checkpoint, or all there are (`PopKeepsAllOrNone`). `UndoGivesBack` and the refinement follow step by
step: the disk an undo writes is the base on every path that is neither blind nor failed.

### `SavedSessions_proofs`
`EachIsFollowed` takes `SavedSpec` apart: each of the three components is followed by its own specification, so that
what is proved of that holds of the composition.

*The session.* `ReplayTellsTheSame`: `[]ReplayIsLive`, and `TurnsCountTheirOwn`: `StatsAreTheTurns`, for any texts, calls, limits and any
logs to reopen that `OpenedAssumption` allows: events of the kinds a session writes, with no id of a call to come.
Two programs have to agree: `DeriveUi` runs over the log with one slot for the call whose result is awaited, `Shown` merges events into a
timeline one by one. The lemmas say what one more event does to each (`Projection` by induction over the prefixes of the log), and what `Told` reads off either.
In `SessionInv`, `SessionTyped` bounds the ids: those in the log are below the next one, and the calls not yet answered are exactly the last
that were sent, so that a result never merges into an older card. `AfterNoText` says that a reply never follows a reply in the timeline,
which would join two texts into one message. `Replayed` is the property within a turn, when the slot may be open; `Counted` ties the total to the turn's base.

`WindowsAreTheTranscript`: `[]WindowsTile`, for the same logs if moreover the results of a call stay in the turn of the call (`OwnResults`). A view starts with an empty slot and closes what is left in it, so views tile the transcript exactly if no card waits
where a window ends. `NothingWaits` shows that: a card that waits is a call no later event has answered, a result answers every call of the log, and `OwnTurn` says it
does so in the call's own turn. That is inductive because the calls not yet answered come after the last user message (`Late`). `ProjectionSplits` then takes the projection of a log apart at such a place, and `Tiling` goes through the turns,
the last first, whose user messages `UsersInOrder` lists in their order.

`WorkIsNotForgotten`: `WorkKeepsTheTools`. The phase looks at the events and the request at messages, four passes away: the lemmas (`UnspokenItems`, `UnspokenCoalesced`, `UnspokenFiltered`) show that none of the passes makes a
message of the model out of a log without its calls and texts.

*The files.* `FilesTyping`, `LogFollowsStore` (`AtRestOnDisk`), `LogsStayOrdered` (`NoEventTwice`), `TornLogsAreKept` (`TornLogsStay`), assuming that
`None` is no session and `MaxMessages` a number. The inductive invariant `FilesInv` says what is true *between* the writes of an operation (`Synced`): only
seven lists of writes are ever pending; the log is the store or is still to be written; a store without a file
has a log that exists (and did not load), which is why the missing-log branch of
`load_from_dir` is never taken for it. And it says why a migrated mirror is in order (`FileOrdered`): as long
as a session has no log its mirror holds what was said, in order, and the message
about to be mirrored is not in it yet. Once there is a log the mirror may be in any
order (after an undo it puts the system messages first), and nothing migrates it any more.

*The index.* `IndexTyping`, `DamagePasses` (`DamageIsPassing`), `DeletedStay` (`DeletedStayGone`), for any number of windows and sessions. What has to be added to the
types is `WritersAlone`: a header that is being written is there, and, unless two have written it at once (`ixMarred`), it is still
empty and nobody else writes it. So the write that ends leaves a whole header, and no write brings back a header that was deleted: a file that is
unlinked while a window has it open is written into nothing (`WriteNowhere`).

### `AgentLoop_proofs`
Four theorems under `~MissingIds` (the backend sends the ids of its calls) and three without it, for any drivers, any number of turns, calls, compactions and injections, and any logs to
resume that `LogsAssumption` allows: without turn markers, their own results paired, no id and no write of those to come.

`TurnsAreWhole`: `[]ClosedTurnsAreWhole`. Logs that are whole stay so when cut back anywhere (`PrefixIsWhole`), which covers undo,
clear and a death in the middle of a write; and when anything but a `TurnEnd` is appended. What makes a `TurnEnd` safe is the second part of `WholeInv`: while a turn runs,
its `TurnStart` is the last marker, and the calls logged since without a result are those in `calls` (`OpenTurn`), which is empty wherever a turn ends.

`EveryResultAnswers`: `[]ResultsAnswerCalls`. `PairInv` says of the pending calls that each is in the log, after the last marker and without a result (`Asked`), that
no two share an id (`Apart`), and of the log that it knows no id of a call to come (`Known`): the next result then finds its call, and no other result of that id. `Known` is what survives an undo or a
crash, which forget calls but never reuse their ids.

`UndoTakesBackWhatItForgets`: `UndoAligned`. The checkpoint is made a moment before the user message that undo cuts back to, but that is not the last one if a request drained injected messages since. So the
invariant relates three things: a result tells of a write the last checkpoint has exactly if a user message follows it (`Aligned`); the queue holds nothing from the first request of a turn to its end, and
before that every result is followed by the message of the turn (`QueueSeen`); and a pending write is in no checkpoint and in no result (`ToCome`).
That undo leaves no checkpoint at all, since every index is 0, is `UndoTakesAll`.

`RequestsGrow` (`[]RequestsOnlyGrow`) and `InjectedAreSent` (`InjectedReachTheModel`: what a request adds to the one that could have been sent before the queue was drained has as many messages of the
user as the queue had) need no ids. Of the log they need its type and that a summary stands for events before it
only (`LogInv`); the work is in the projection, which is four passes over sequences. Each is shown to look back only: what it makes of a longer sequence begins with what it made of the shorter one (`ItemsLonger`,
`CoalescedLonger`, `FilteredLonger`), and ends with what was added if that is all kept (`ItemsMore`, `CoalescedMore`, `FilteredMore`). The second pass is the one that could break it, since it
puts a new fragment into the last message: it does not where the shorter sequence is `Closed`, that is, where it does not end with an assistant message (`AbsorbAfter`); and a log that ends with a message of the user or a result, the only
places a request is sent at, projects to such a sequence or, when a summary hides all of it, to nothing (`ItemsClosed`). That is why the property speaks of those places.

`LoopIsTyped`: `TypeOK`. The log and the queue have the types the other proofs need of them (`LogInv`, `Queued`); `Bounded` is the rest. Two things in it
are not read off one assignment: calls are pending only where one is being answered, and the queue holds nothing but what the driver injects.

`StoppedTurnsAreAnswered`: `StoppedTurnsPairCalls`, under one more hypothesis: in the logs to resume every group of calls is followed by its results (`AllAnswered`), as a session that ended between
turns leaves it; what becomes of a group that a dropped turn leaves unanswered is the finding of `AgentLoopCancel`. Two halves. Of the states: in a session whose driver never drops a turn, every call of the log is answered in its
own group, or the group is the last thing in the log and the call is still in `calls` (`GroupInv`); where a request is sent `calls` is empty, and undo cuts at a user message, which is inside no
group (`CutIsAnswered`). Of the projection: `AnsweredRequest` follows a call and its answer through the four passes. Leaving out what a summary covers leaves out the calls before the results
(`ItemsRunOn`); while fragments are put together the answer of every call is in the messages so far or still to come, with nothing but fragments and results in between (`MetOrToCome`); and the two
filters leave out no answer to a call they keep (`AnswersKept`, `FilteredMet`). What the first filter does leave out
is results whose calls a summary covers.

### `Tui_proofs`
`RequestsSurvive`: `[]LiveRequestsSurvive`, which is inductive with the types. `CancelReaches`: without `SlowTail`, `[]CancelReachesTurn`.
The invariant `CancelInv` adds `Rested`: an end event of an older turn is never in the channel when a new turn is submitted, because the text of a submission is typed after all older tasks came to rest, and the loop
drains the channel between the first key and Enter.

`DialogShowsTheRequest` (`TypeOK`) and `OneRequestAtATime`, without `SlowTail` too. That the dialog is on the screen exactly as long as a request is depends on every step that sets the state, and an end event does
so whatever is shown. `DialogInv` says why none comes: the turn of a request waits for its answer, or was cancelled while it did, all others are at rest, and no end event is in the channel (`Requested`); a turn that runs has the
channel of end events empty (`BusyAlone`). A request of a cancelled turn may still be shown, with the input given back; the text of the next turn is typed at the earliest in the pass of the loop
before the one that shows it, and sent in a later one. So the code that lets a new request take the place of the one on the screen, and with it the answer a turn waits for, never has one to replace.

### `Host_proofs`
`TurnsAreTheirOwn` (`TurnIsItsOwn`) and `AllEventsPrinted` (`EventsArePrinted`), for any number of prompts, events, asks and sessions, and a channel of any size: a printer that ends and was not told of a drop has
printed all the channel kept. `HostInv` adds to the types that
who has the session is the head of `hoLock` (`Exclusive`), and that a turn nobody crossed is alone between its prompt and its session
(`OnItsWay`): the session is still the one it was typed in, and from `Wire` on the session's channel is its own.

`LockHasAPlaceForEach`: `HostTypeOK`. The lock is a sequence, and who is in it is written twice, in the sequence and in what the loop and the tasks do. `Placed` says that the two agree and
that nobody has two places, so that who leaves the line leaves it (`PlaceLeft`), also from its middle, where `session/create` gives up waiting. It needs `Numbered`: the record a prompt gets is one that
nobody has, or a task in the line would lose it.

### `Tools_proofs`
`ToolsTyping` (`ToolsTypeOK`) and six properties, all from `ToolsInv`, the conjunction of what is invariant of each component.

*Calls.* `ToolsRunByRight` (`RunsByRight`), of the loops with a checker; of those without there is nothing to prove, they run everything. `GrantsInv` says that approvals and rules come from what the user granted, each for its own tool, and that a question is only asked of
what the configuration allows.

*Shells.* `NoShellIsLeft` (`EndedCallsLeaveNoShell`), `ExitIsComplete` (`ExitReportsAll`): both speak of a call that has ended, and
`RunWaits` says what makes them true while it runs: the handle is in its slot as long as the outputs are read, so that a timeout or an
abort finds it there, and once it is taken the outputs are at their end and nobody can print any more, unless a reader met a line that is no UTF-8 (`deaf`),
which both theorems except.

*Files.* `FilesStayWhole` (`NeverTorn`) and `EditsReplaceTheOne` (`EditsAreExact`), for texts of any length, any patterns and any number of saves; `FileAssumption`
says that texts are sequences of characters and that a missing or torn file is none. `FileWrites` is what a call knows while it
writes: the sibling that is renamed holds the whole target. `EditMade` is what a call that replaces a text has established about it: the pattern occurs, once, and the target is
`Replace` of the text it read. The rest is about `Occurrences` and `Replace`, recursive functions over the places of a text: by induction from the end of the text, one occurrence that is counted is one
place where the pattern is, and all other characters stay.

*Todos.* `ListIsLogged` (`LogHasTheList`): the last snapshot in the log, or its absence, is the list, in a loop that was given the list, unless undo, a clearing or a sub-agent put the two
apart; `SnapshotPlaces` and the lemmas after it say which snapshot is the last when the log grows or is cut. `TodoTypeOK`, in `ToolsTyping`,
says also that no two items share an id, which is why it does not matter that `set_status` and `update` stop at the first they find. `TodoTyped` says it of every list in the log as
well, since one of them comes back when the session is opened; `RetainKeepsIds` is that of `retain`.

### `Services_proofs`
*MCP.* `McpIsTyped`, `AnswersComeHome` (`AnswersAreOwn`), for any number of servers, callers and tools, and pipes of any size. A caller hears its own answer because a connection that is not `upset` is
`Quiet`: nothing is in its pipes but the one request of the actor that waits, or the answer to it. That needs `McpLocking`: whoever is in a request has the lock, or is the manager, which
has a connection of its own; and the manager has servers left as long as it talks to one.

*Configuration.* `ConfigIsTyped`, `SavesComeBack` (`SavedIsLoaded`), `SavesLoseNoModel` (`KeptModelsLoad`), for any files, models and hosts. Both properties speak of the files at rest or after a death, so
`SaveOf` says what has reached them at each moment of a save, and `KeepsModel` where each model the save keeps still is: in the user's file, in the models file, or in a layer
the host does not write. They are conditional on `alone`; what two hosts do to each other is listed in section 4.

*Streams.* `StreamIsTyped`, `CallsComeWhole` (`NoCallIsHalf`) and `RepliesAreExact` (`ReplyIsExact`), for any words, and any number of calls and of fragments of their arguments. While a
reply is read, `Follows` says that what the model has said is what is there of it: the reply the agent loop has, then the calls the backend keeps, then the line of which only the start
was read. So a chat reply has no call before its end, one of OpenAI has every call up to the fragment it has reached, and the Responses backend has the last call without its number.
In both properties a read that ends inside a character of a text or a call excepts the text or the calls (`CutWords`, `CutCalls`), and nothing else does for the chat and OpenAI backends but token counts that come late and repeated words.
That the fragments of one call meet needs no two calls of a list to have one index (`DistinctLists`), and a line that is held to have spoilt the reply. TLC checked the invariant with
two fragments per call before it was proved. The proof found one definition too loose: `Yielded`, the chunk a line turns into, was a `CASE` with arms that overlapped, of which the
definition does not say which is taken. It is a chain of conditions now, in the order of the code.

*Requests.* `RequestsAreWhole` (`RequestIsWhole`), for every set of conversations in which a tool message names one call. The chat and the OpenAI formats convert message by message, so the ids of the items are
those of the messages (`ConvertedKeeps`, `ConvertedIsWhole`). The Responses format folds over the messages and holds the calls of an assistant back: what it has put in the input and what waits, in that order,
is what the messages so far had, and only calls wait (`Carries`, `AddItemCarries`). `FoldOfAddItem` turns the fold into a recursion from the front.

### `Lemmas`
Numbers: a non-empty set of naturals has a least element (by `NatLessThanWellFounded` of the library) and a bounded one a greatest, and from that `Min`
and `Max` of the community modules. Induction up and down, stated of a *set* of good numbers: the library's theorems take a predicate as an operator
parameter, which no installed prover can instantiate. `ForwardExists` and `BackwardExists`: there is a function that a recursion from the front or from the end describes, so that
a definition `LET f[i \in S] == ... IN f[n]`, which is a `CHOOSE` of a function, can be expanded and reasoned about. `FoldExists` does so for the folds of the community modules, which
recur over the sets of places of a sequence. `Flattened` unfolds `FlattenSeq`, with which the models select from sequences: what it makes of a longer sequence of sequences continues what it made of the shorter
(`FlattenedLonger`, `FlattenedMore`), and of two of them one after the other the concatenation of what it makes of each (`FlattenedBoth`). `FlattenedPlaces` says where each element that is selected
lands, and `PlacesBetween` that between two of them there is nothing else: what order and neighbourhood in the result are proved from.

### Only model-checked
* Liveness (`InputReturns`, `HostGoesOn`, `CallsAnswered`, `RunsEnd`, `CallsReturn`, `ReplyEnds`): `ENABLED` and fairness are out of the
  prover's reach.

## 6. What is not modelled, and why
* **Rewind manager**: `RewindManager` in `core/rewind.rs` has no caller.
* **Agents, skills, prompts**: tables and text; what they inject are system messages, which no request carries.
* **Search, web and language server tools**: a call in, a text out.
* **Rendering**, in the terminal and the webview: layout.
* **Process controller and RPC bridge of the extension** (`host.ts`, `HostController.ts`, `rpc.ts`): TypeScript around one child process; the races read there are listed above.
* **Within modelled parts**: texts, prices, headers and categories of errors of the backends; validation of configuration values and the change broadcast, which nothing subscribes
  to; text search over sessions, `metadata.json`, the last-session pointer, which nothing reads; file system errors other than where a module names them. Components that share no state are
  not interleaved with each other, and `AgentLoop` is not composed with `Host` and `Tui`: its driver stands for what either does to a turn.

## 7. What could come next
The process controller of the extension, with an abstract specification of requests that settle once. `AgentLoop` with the host's read loop as its driver, step by step.
