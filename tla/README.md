# mars-daemons: a verification development

TLA+ specifications of the parts of `mars_runtime` that keep a conversation
consistent: the conversation store, the requests and turn tasks over it, the
event stream a client follows, the loop of a turn, the agent's memory, the
attachments and the workspace, and the tools that come from outside. TLC checks
them on small instances; TLAPS proves, for every instance, the types and the safety
properties of all of them but a few (section 4 says which).

Paths below are relative to `src/src/mars_runtime/`.

## 1. The system

One FastAPI process serves conversations. A message starts a *turn*: an asyncio
task that calls a model, runs the tools it asks for, publishes events, and ends.
Everything lives on one event loop; blocking file operations go to worker
threads (`asyncio.to_thread`), and every `await` is a place where another request
may run or where the turn may be cancelled.

| Component | State it keeps | Operations | Talks to |
|---|---|---|---|
| Conversation store (`host/stores/conversation_store.py`) | `<id>.json` and `<id>.tmp`, one asyncio lock | `create`, `get`/`load`/`list_durable_events` (no lock), `save`, `update_status`, `update_title`, `claim_turn` (under the lock: read, check, write `.tmp`, rename) | the file system, through worker threads |
| Requests and turn tasks (`host/router.py`) | `_active_turns`, `_cancel_locks` | `create_conversation`, `send_message`, `cancel_turn`, `_safe_run_turn` | store, `run_turn`, attachments |
| Event publishing (`core/events.py`) | the turn's `_durable_events` and `_event_sequence`, one bounded queue a subscriber | `publish_durable_event` (append, save, emit), `publish_ephemeral_event`, `SSEEventSink` | store, streams |
| Event stream (`stream_events` of `host/router.py`) | `last_sent_sequence`, the replay, the subscription | subscribe, load, replay or snapshot, follow the queue, close at a terminal event, a gap or the timeout | store, sink, the client's `Last-Event-ID` |
| Turn loop (`core/loop.py`, `core/state.py`, `core/pruning.py`, `core/prompt.py`, `tools/use_skill.py`, `tools/edit_memory.py`) | the state dict: messages, tool calls, active skills, scratchpad | restore, overlay the prompt, inject the scratchpad, prune, call the model, run tools, expire skills, finish or fail | store (through events), tools, model |
| Tool registry and execution (`core/tools.py`) | the registry (filled at start-up), the overlay of dynamic tools, the cleanups of a turn (a `ContextVar` dict) | register, show definitions, find by name, execute one tool, drain the cleanups | tools |
| Memory (`host/stores/memory_store.py`, `tools/edit_memory.py`, `tools/read_memory.py`) | `memory.json` and `memory.tmp` of an agent, one asyncio lock; each conversation's scratchpad | note (and log the note), save in the file, load into a prompt | the file system, the turn loop |
| Attachments (`host/stores/file_store.py`, `tools/storage.py`, uploads in `host/router.py`, numbers in `core/state.py`) | files on disk, `context.files`, the turn's `state["files"]` | upload, merge, announce, delete | store, file system |
| Workspace (`host/stores/workspace_store.py`, `tools/workspace.py`, `tools/bash.py`) | a directory, the processes that run in it | list, create folder, upload, delete, run a command | the file system |
| MCP client and tools, HTTP tools (`mcp/client.py`, `tools/mcp_tool.py`, `tools/http_tool.py`) | the session, its exit stack and the flag `_connected` | connect, list tools, invoke, close; one request | remote servers |
| Prompt providers (`core/providers.py`, `rules_store.py`, `skills_store.py`) | files that are only read | read | the prompt |
| Application, authentication, configuration, CLI | constants | start-up wiring | all |

What is hard in it:

* **Cancellation.** `task.cancel()` throws at any await. A coroutine cancelled
  inside a store call releases the lock at once, but its worker thread goes on
  and may write or rename after the next holder.
* **Check, then act.** `send_message` reads the status without the lock and claims
  the turn later; `cancel_turn` writes a status after its checks; the stream loads
  and then lists while events go on.
* **Failure paths.** `run_turn` publishes `turn_error` when something raises,
  `_safe_run_turn` publishes another when that raises, and writes the bare status
  when this raises too. `OrgScopingError` is logged and nothing else.
* **Restart.** The registry, the locks, the queues and the turn's state are in memory.
* **Shared by a batch.** The calls of one message run together under `gather`: two
  deletes of one list, a delete of a folder beside an upload into it, two notes
  that overlap, two saves by two conversations.
* **What outlives its call.** A thread's job after a cancel, a process after
  `run_bash`, a remote session after a connect that failed half way.
* **Bounded things.** A subscriber's queue, the persisted messages, the context
  sent to the model, the tool calls of a turn.
* **One history, three readers.** The model needs a well-formed message list, the
  client an event log without holes, the next turn a context it can restore.

What makes each part correct: the document on disk is always whole and every
store operation is atomic; a conversation has one turn at a time and a status
that someone will replace; a stored event stays stored and reaches the client
once, in order, without holes; the model is sent a prompt, notes and skills as
they are, with every tool call answered; a note that was answered as persisted is
found again; what a context lists is a whole file on disk; a tool's "ok" can be
relied on; and what a turn opened is closed when it is over.

## 2. The modules

| Module | Models | Lines of code it stands for |
|---|---|---|
| `ConversationDocument` | the document and what each store operation makes of it (operators) | `conversation_store.py` 31-134, 159-171, 203-285 |
| `AtomicDocument` | what the store promises: operations act at one instant (abstract specification) | |
| `ConversationStore` | the store itself: lock queue, read, edit, the two write jobs, failing jobs, cancelled calls, crash | `conversation_store.py` 31-185 |
| `TurnLoop` | the context through a turn and from turn to turn | `loop.py` 319-663, `state.py`, `pruning.py`, `prompt.py` 85-128, `use_skill.py`, `edit_memory.py`, `conversation_store.py` 288-311 |
| `Scratchpad` | a scratchpad, what one note makes of it and of its log (operators) | `edit_memory.py` 30-107 |
| `AgentMemory` | the scratchpads of several conversations and the memory file they share | `memory_store.py`, `edit_memory.py`, `prompt.py` 145-157 |
| `ToolBatch` | the calls of one message and the work that outlives them | `loop.py` 453-581 |
| `Attachments` | uploads, the merge, the numbers, `storage` delete, saves | `file_store.py`, `storage.py`, `router.py` 213-252 and 396-425, `state.py` 47-65 |
| `Workspace` | the directory, the workspace tool, `run_bash` | `workspace_store.py`, `workspace.py`, `bash.py` |
| `ConversationFiles` | composes the three: requests, batches, cancels, restarts | |
| `McpClient` | one client: connect, list, invoke, close, each awaiting a server | `mcp/client.py`, `mcp_tool.py` |
| `TurnTools` | provider, overlay, calls, cleanups and drain of several turns over clients | `core/tools.py` 73-199, `loop.py` 232-248, 340-377, 657-663, `router.py` 428-456 |
| `ConversationStoreProofs` | types, the whole document, titles, refinement of `AtomicDocument`, one claim a stamp | |
| `TurnStatusProofs` | one turn runs, is shown as working, a stored status is true; types and locks | |
| `TurnLogProofs` | the stored log grows, and a turn that ended is closed in it | |
| `EventStreamProofs` | types, and the feed without gaps | |
| `TurnLoopProofs` | types; calls closed and answered; prompt, notes and skills shown; messages kept or told of in a summary; the limit | |
| `AgentMemoryProofs` | types, the scratchpad stays sound, the last note wins, one key at a time, notes recalled | |
| `ConversationFilesProofs` | types, listed files are whole, numbers match, an "ok" holds | |
| `TurnToolsProofs` | types, what is shown is run and has its session, nothing leaks | |
| `MC...` | constants for TLC | |

How they fit: `ConversationStore` implements `AtomicDocument`; `TurnLifecycle` uses
the store as `AtomicDocument` describes it (and shares `ConversationDocument`
with both), keeping beside it what callers can observe: calls act in the order
they queued for the lock, and reads do not queue. `EventStream` takes one turn at a
time, which `TurnLifecycle` shows under the conditions below, and opens up the
save of an event. `TurnLoop` takes the same sequence of turns and opens up what a
turn does between two events. `AgentMemory` and `ConversationFiles` open up the
tools of a batch that share state, with `ToolBatch` for `gather` and for what goes
on after a cancel; `TurnTools` opens up the tools that hold remote sessions and
the end of a turn, which `TurnLifecycle` has as one stage (`draining`).

### ConversationStore

`stage[p]` is where coroutine `p` is in its call; `lockQ` is the lock's holder and
its waiters; `path`, `tmp` and `content` are the directory and the files' contents.
Inodes are explicit, because a job that opened `.tmp` before another job renamed it
writes into what is now the document. `Read`, `Open`, `Write`, `Replace` and `Fetch`
are thread steps, `Edit`, `Refuse`, `Submit`, `Finish` and `Raise` steps of the
coroutine. `Cancel` gives the lock up and leaves the job behind as an orphan
(`orphanOpening`, ...) if its thread has started; `CancelAt` says at which stages a
cancel may come. Two writers of one file may leave it `Torn`. The clock ticks at
every time taken, so that `last_message_at` is never the same twice; two equal
`isoformat()` times, a microsecond apart at best, are not modelled.

### TurnLifecycle

`pc[r]` is the stage of request `r` and then of the turn it started. `call[a]` and
`outcome[a]` are a store call under way: `Ask` queues it, `Land` is the instant it
acts, and the caller goes on in a later step, so everything may happen between. A
request without files goes from its claim to its mark in one step (`ClaimReturns`),
for the code has no suspension there; one with files stays in `uploading`. `log[r]`
is the turn's `_durable_events`. `Interrupt` is the `CancelledError`; `late` is the
document that a write job which outlived its call will still write (`MaxLates`
bounds those). `ThreadsRun` says that a cancel handler whose `wait_for` is done goes
on before another worker job is finished: the event loop needs one round for the
first and several for the second. `Hangs` are the stages in which a turn awaits the
model, a provider, a tool or a cleanup: it may stay there for ever, unless it is
cancelled. That a cancelled turn which drains is cancelled once more after five
seconds is in `TurnTools`: in `turns_cancel` no turn has cleanups. `Held` and `Now`
hand out times from a bounded set: only equality of times matters.

### EventStream and EventQueue

`publish` is where the turn is in `publish_durable_event`: the event is in memory
("saving"), stored ("stored"), emitted. `conn[c]` holds the generator's locals,
`queue[c]` the subscription, `got[c]` what the client received over all its
connections. A client that lost its connection comes back with its last id, as an
`EventSource` does; this is the one assumption about the client.

### TurnLoop

`ctx` is the state dict of the running turn and `stored` its last saved copy. A
message is its kind and what it is about: a prompt is the skills it shows, a
scratchpad its version, a summary the user messages that it tells of. The list
`active_skills` is kept as its members (`skills`) and, for each of them, those in front
of it (`front`): `InBudget` are the skills whose texts, with all in front, fit the
prompt's budget. A text is a set with as many members as the skill has characters, so
that its length is a cardinality; the length is the same at each activation, whatever
the arguments. A summary tells of each user message that is summarised, which is cut to
500 characters (of a longer one only the beginning is told), and of an earlier summary
that it replaces only a part is left, which part being a free choice (`kept`). `cut`
says that a save has dropped the beginning of the messages. Whether the context is
over the token threshold is a free choice at every model call, and so is what the
model answers and whether each tool succeeds. `shows`, `fresh` and `ran` are
history for the properties. `edit_memory` makes its note before it looks at its log, so
a call of it that fails may leave the note all the same. Call ids are unique, as the
providers promise. Not modelled: token counts, usage, titles, the text of prompts, and `next_status`,
which no shipped tool returns.

### Scratchpad and AgentMemory

A scratchpad is the function from the paths of its leaves to their values; nested
dicts are not built, and a value that blocks the way to a path makes the call fail
as the code does. `_log` is one of its leaves. `save[p]` is a save under way, of
call `p = <<conversation, place>>`: waiting for the lock, reading, with `memory.tmp`
opened, written, renamed; `JobFails` is an `OSError` at any of those, and `Cancel`
leaves the job of the lock's holder behind. `edit_memory` makes its note before
its first await, so `Call` is note and queue in one step. `saved[c]` is the
scratchpad in the conversation's document. `told`, `latest`, `mixed` and `clean`
are history: what was answered as persisted, the last value asked for, whether a
save shared `memory.tmp` with an abandoned job, whether every save so far came
through. `Keys` are the dotted keys that calls name, any set of paths.

### ToolBatch, Attachments, Workspace and ConversationFiles

`run[i]` is a call of the batch: its stage, its answer, what it remembers across an
await, its processes. After a cancel the record moves to a number above
`MaxBatch` and what a thread or a process still does goes on from there; so does
what a restart leaves: it ends the threads, and not the processes of `run_bash`.
`Attachments` has the request (`req`), the stored and the listed files, and the
save that outlives a cancelled turn (`late`). A storage delete reads the list,
awaits the unlink, then writes the list it read. `Workspace` makes `rmtree` what
it is, a list of names and one removal after another, `list_objects` makes the
folder it lists, and a command may change the tree (`MaxTouches`), hang until its
timeout, or leave a child that keeps its output open.

### McpClient and TurnTools

A client's state is the flag `_connected`, `_session` and `_exit_stack`; `open` is the
set of contexts that are really open. A connect is named by its turn and client,
and a turn's task awaits one thing at a time (`task[t]`), where the server answers,
fails, hangs, or the task is cancelled. The repository has the hook for a provider
of dynamic tools and no provider: the one here is external, registers a client's
close before it connects it, and goes on or fails when that raises. `CancelTurn`
throws at the await; `Recancel` is `wait_for` after five seconds, which cancels the
turn a second time, inside its drain. `struck` is the set of turns that were cancelled
while they drained, so that the rest of their cleanups is never run; a turn that is
cancelled while it undoes a failed connect is not among them. `shared` are the clients
that two turns had at the same time. A call ends in whatever way: how an answer is told
to the model (`status_code`, JSON, `isError`) is a local test on which no state depends.

An `aclose` that is interrupted takes every context off its stack, and some of them may
stay open (`Abandoned`): the `finally` of `_safe_close_stack` drops the stack
(`mcp/client.py` 157-168), and nobody can reach them any more.

## 3. The runs

| Run | Question | Distinct states |
|---|---|---|
| `store` | Is the file always one whole document, is every operation atomic, is a claim won once, does every call end when others are cancelled or fail? | 1 014 481 |
| `turns` | One turn at a time, a status with an owner, a log that tells how a turn ended, and rest - with failing uploads and up to two failing saves? | 55 417 |
| `turns_cancel` | Two cancel requests at every await, failing requests, turns that fail at once, a late write job, a restart, the tool call limit: do status and tasks agree, is a stored event kept, does every request end? | 513 510 |
| `stream` | Failed and cancelled saves, restart, overflow, lost connections: is what a client gets stored, in order, once, without holes, and does it catch up? | 737 300 |
| `loop` | Until a save cuts it: is the context that the model is sent well formed, with the current prompt, notes and skills, and is every user message in it or told of by a summary? | 5 446 544 |
| `memory` | Is a persisted note kept and shown again, and the scratchpad sound? | 320 409 |
| `files` | Is what is listed whole and at its number, can an "ok" be relied on, does every batch end whose processes end? | 510 671 |
| `tools` | Is everything that was opened closed, is the tool shown the tool run, with its session, does a cancelled turn end? | 424 366 |

Properties, what would break them, and why the bounds are enough:

* `DiskIsJson`, `Atomic`, `OneClaimPerStamp` (`store`). Four kinds of callers overlap
  over five calls, which is enough for a read, another read, a claim, a status put
  back and a second claim on the stale read. One failing job and one crash,
  anywhere. `Atomic` is the refinement of `AtomicDocument`, and so covers the title
  that a save of the same time must not drop. One caller, the turn, may be cancelled
  while it waits for the lock or its read, and between its two jobs (`CancelAt`); a
  cancel while a thread opens, writes or renames leaves the job at work beside the next
  writer, and is what `store_cancel_torn` is about.
* `EveryCallEnds` (`store`) says that every other call still gets the lock and returns,
  under weak fairness of each coroutine and each thread: the event loop runs what is
  ready and the pool what is submitted.
* `StatusIsTrue` (`turns`, `turns_cancel`) is three things about the stored status and
  the tasks: `OneRunner`, `TurnShowsWorking` (a turn at work is shown as working)
  and `WorkingHasOwner` (a `working` has someone who will replace it).
  `ComesToRest` and `EveryRequestEnds` are under weak fairness of each store call,
  request and cancel handler, of the `CancelledError` of a turn that was cancelled, and
  of a turn's own steps but where it `Hangs`. So `EveryRequestEnds` holds while a turn
  hangs in a tool or a cleanup for ever: a message is refused, and a cancel ends the turn.
  That turns end and the status does not stay `working` is claimed under an assumption
  (`ToolsReturn`): what a turn awaits returns. The code sees to it for the
  model call only (`llm_timeout_seconds`, `loop.py` 75); tools (`loop.py` 481, 533,
  `bash.py` 100, an MCP call) and cleanups (`core/tools.py` 189) have no timeout. Two senders
  are needed for a race of claims, one is enough beside two cancels. A turn of
  `turns` has at most one message before its end, one of `turns_cancel` that of the
  limit: what matters is that a turn has saved something that the next one keeps.
* `GaplessFeed`, `CaughtUp` (`stream`): two turns, so that one ends while the client is
  away; a queue of two, so that it overflows. `CaughtUp` assumes that the client
  comes back, and weak fairness of the save and of each connection.
* `CallsAnswered`, `CallsClosed`, `ContextShown`, `SkillsShown`, `LoopGuard`,
  `NothingForgotten` (`loop`): three turns with `keep_last_turns` 1, so that a summary
  is summarised again; batches of one and two calls; a limit of two calls; two skills
  that fit the prompt's budget each, and not together; `MaxPersisted` 6, so that some
  saves cut the context and others do not. The loop's own termination is not stated:
  what bounds it in the model is `MaxCalls`.
* `LastNoteWins`, `OneKeyAtATime`, `Recalled`, `PadIsSound`, `EverySaveEnds` (`memory`):
  two conversations, three calls, messages with a note beneath another, one in
  place of another, one on `_log`; a failing job, a cancel and a restart. Weak
  fairness of each save.
* `FilesKept`, `NumbersMatch`, `OkHolds`, `CallsEnd` (`files`): two requests of up to two
  files, batches of two calls that touch the same key, file or folder, one cancel,
  one late save, one restart, one change by a command. `CallsEnd` is under weak
  fairness of threads, event loop and the clock that ends the wait for a command; a
  command need not end, and is killed. What it leaves in the background need not end
  either, and `CallsEnd` claims the runs in which it does (`ChildrenEnd`): without that,
  see `bash_outlives_timeout`.
* `NothingLeaks`, `ConnectedIsOpen`, `ShownIsRun`, `ShownIsReady`, `CancelEnds` (`tools`):
  two turns, one client for one of them and one for both, server names that
  collide with each other and with a builtin tool. `CancelEnds` needs weak
  fairness of `wait_for`'s clock only: no server has to answer.

`TypeOK` is one invariant a component. Each property has a mutant, a definition
`Bug...` beside the one it replaces: a guard dropped, a lock kept, an order
swapped. TLC finds the property violated with the mutant in place.

Some properties carry a condition, and the condition is a fact about the code:

* `LogGrows` needs `lates = 0`: a write job that outlived its cancelled call writes
  an old document. That nothing follows a turn's ending needs `faults = 0`: when
  the save of `turn_completed` raises, the event stays in memory and `turn_error`'s
  save stores both.
* `StatusIsTrue` claims an owner of `working` unless it was `Abandoned`: after a restart
  or such a write job (nothing at start-up resets a status), after a turn that
  failed before it restored its state (`stuck_failed_start`), and after a request
  whose save or mark raised once its upload was done (`router.py` 402-410 is outside
  the `try`), `working` may stay with nobody behind it.
* `StatusIsTrue` is not claimed with two senders and a cancel: the cancel handler's
  last `update_status(error)` may land on another request's claim.
* The tool call limit's message is saved with status `idle` while the turn goes on
  to `turn_completed` (`loop.py` 404-409). A request that comes in between is let in; if
  it awaits an upload while `turn_completed` puts `idle` back, one after it is let in
  too, and two turns run at once (`limit_lets_in`); a request with files may also drop
  `turn_completed`, and a cancel may mark the wrong turn. So in
  the passing runs nobody comes after a limited turn, and what they show of one turn
  at a time does not extend to that case.
* `EndedTurnsAreClosed` leaves out cancelled turns: `cancel_turn` writes a status
  and publishes nothing.
* `GaplessFeed` leaves out events that were stored and never emitted, and those that
  the client's full queue gave up. The gap marker is put behind the survivors of the
  events dropped, so the client advances past the hole before it learns of it.
* `CallsAnswered`, `CallsClosed` and `SkillsShown` need `~Interrupted`: a turn that
  is cancelled or raises between a message with calls and their results leaves them
  unanswered in the stored context, and a `one_turn` skill that was shown may be
  stored as active still. `SkillsShown` is about skills that were not active when
  the iteration began: one that is deactivated and activated again in the iteration
  that shows it counts as old and expires.
* `SkillsShown` says that a skill which was switched on is *active* at the next model
  call, not that it is shown: the overlay stops at the first skill beyond
  `max_skill_tokens` (`prompt.py` 103-107) and leaves it and all after it out. A `one_turn`
  skill that is left out expires all the same (`loop.py` 581), and no model call has seen
  it, although `prompt.py` 117-118 keeps it "to be consumed by the next LLM call". What
  does hold, and is claimed: what is within the budget stays in it while it is active.
* `ContextShown`, `CallsAnswered` and `NothingForgotten` are about contexts that no save has
  cut. Past 200 messages (`max_persisted_messages`; 6 in the run) `_compact_state` keeps
  the last ones only. The context that is restored then has no system prompt, and
  `loop.py` 414-415 adds none: from that turn on the model is called without it. The cut
  may also come between a message's calls and their results. `ContextShown` allows the
  notes to be missing in the iteration that prunes.
* `NothingForgotten` is about the step from a message into a summary. A summary that is
  summarised again is cut to its first 500 characters like any message
  (`pruning.py` 35-38), so that the turns it told of may be in neither; the model loses any
  part of it, and what a later summary tells of them is not claimed.
* `LoopGuard` counts parallel tools: exclusive ones (`run_bash`) are never added to
  `tools_this_turn`.
* `OneKeyAtATime` and `Recalled` need `~mixed`, `LastNoteWins` needs `clean`: a save that
  begins beside the job of a cancelled one shares `memory.tmp` with it, the result
  may be no JSON, and that is read as an empty memory. `PadIsSound`'s log is not
  claimed once the model has noted something under `_log` itself.
* `FilesKept` leaves out a save that outlives its cancelled turn (`late`): it drops
  what later requests added. `NumbersMatch` is about conversations without a delete:
  after one, the later files move up and their numbers are given again.
* `OkHolds`: a file that the model is told is deleted is off the disk; off the list too
  in a message with one delete (two restore each other's entry) while its turn is at its
  tools or their save, or if no save was late. An upload is claimed for paths that no
  other call of the message is about, with nothing of an earlier message still at work.
* `NothingLeaks` and `ConnectedIsOpen` are about clients that one turn uses at a time
  (with two, one turn's close breaks the other, and the stack of the first connect
  is overwritten by the second) and about turns that were not struck while they
  drained: there the cleanups left are never run, and an interrupted close leaves
  `_connected` set beside a dead session. A turn that was cancelled while it undid a
  failed connect is not excused, but the contexts that its interrupted `aclose` left open
  are: they are on no stack (`x.on = None`), so no cleanup can close them, and
  `NothingLeaks` says that nothing else is left. That they stay open is what the code
  does (`mcp/client.py` 115-116, 157-168).

More that the models show and no property forbids: files of a failed upload stay
on disk with nothing that lists them; a cancelled `run_bash` leaves its process
running beside the next turn; a note, an upload or a remote call may have been made
although the model is told of an error (the rename came through and the answer did
not; a 204 is reported as an error; so is a success whose body is cut at the cap and
does not parse; `HttpToolTemplate` takes a 3xx with a JSON body for success); nothing reconnects
a client whose session was lost; a turn that is not cancelled and whose tool or cleanup
hangs never ends, and stays `working` if its last save has not been made (a cleanup that
hangs after a failed `turn_error`: `unwinding`).

Four runs are expected to fail; each is a divergence of the code from what the
repository says:

| Run | What TLC shows |
|---|---|
| `store_cancel_torn` | A turn cancelled inside `save` releases the lock while its thread writes `.tmp`; the next writer opens the same file and the document that is renamed is neither's. |
| `stuck_failed_start` | `run_turn` raises before `restore_state`: `turn_error` is saved for organisation `""`, the store refuses, `_safe_run_turn` swallows the refusal, and every later message is answered "Agent is still processing" for ever. The same happens when the first upload failed in `create_conversation` and a message follows. |
| `limit_lets_in` | The tool call limit's message is saved with status `idle`; a request with files that comes then claims the turn, which stores `working`, and awaits its upload; the save of `turn_completed` replaces that with `idle` (`state["status"]` still says so), a later request claims too, and both run turns over one conversation, where a request is to be told "Please wait for the current turn to complete." |
| `bash_outlives_timeout` | A command leaves a background process that holds its output and runs into its timeout: `process.kill()` ends the shell, and the second `process.communicate()` (`bash.py` 100) waits for the background process without a bound. The call, and with it the turn, does not go on while that process lives, where the tool's schema says "Seconds before killing the command". |

## 4. The proofs

**`ConversationStoreProofs`**, for any set of coroutines, any requests they make, any
contexts, any number of calls, faults and crashes:

* `StoreTypes`: `Spec => []TypeOK`. The invariant adds `CallOK`: a call past its
  checks holds a document and a request of the right kind.
* `StoreWhole`: if no cancel leaves a write job behind, `Spec => []DiskIsJson`. That is
  `CalmAssumption`: `CancelAt` has none of the stages in which a thread opens, writes or
  renames. Calls may be cancelled at every other await.
* `StoreAtomic`: under the same assumption, `Spec => Atomic`, i.e. the store
  implements `AtomicDocument` with the document on disk as the abstract one and
  what a call still owes (`Pending`) as the abstract call.
* `StoreKeepsTitle`: under the same assumption a title, once stored, stays as it is
  (`TitleSticks`): saves rewrite the document read under the lock, and
  `update_title` replaces no title.

The assumption cannot be dropped: `store_cancel_torn` is the
counterexample.

`DiskIsJson` is not inductive: that the rename publishes a whole document depends
on who wrote the `.tmp` file. The inductive invariant is `TInv /\ WInv`, with

* `OneWriter`: a write under way belongs to the lock's holder, or to `create()`
  while nobody knows the conversation (`Alone`);
* `TmpFile`: the writer's open file is the `.tmp` file, and once written it holds
  exactly the document in the writer's memory;
* `WholeFile`: the document's inode is not the `.tmp` file's, and holds a document;
* `Answer`: the document about to be written is the request's answer on the document
  on disk (this is what the refinement needs: nobody changed it since it was read);
* `Fresh`, `Known`, `NoOrphans`: before the first call nothing is under way; a lock
  is only taken on a conversation that exists; no job outlives its call.

For the refinement, `Replace` maps to the abstract commit or creation, `Refuse` to
the refusal, `Finish`, `Raise` and `Cancel` to the return, `Crash` to the abstract crash, and
every other step to a call or a stutter.

`StoreOneClaim`: `Spec => []OneClaimPerStamp`, if no cancel leaves a write job behind
and the stored documents start unclaimed (`stamp = 0`; a stamp that a past process
won is not in this one's history). The
invariant adds `SInv`, where a stamp is *spent* when it was won, or a claim that has
stored its document is about to win it: no stamp lies in the future (`Past`); the stamp
on disk and those that saves bring are not spent and all differ (`Apart`); what a call
writes keeps the stamp on disk or brings a new one (`KeepsOrNew`); no stamp is spent by
two (`OneWinner`). It rests on the clock: two `utcnow()` are never equal.

**`TurnStatusProofs`**: `OneTurnRuns` (`OneRunner`) and `WorkingIsShown`
(`TurnShowsWorking`), for any senders, uploads, store calls and starts that fail,
cleanups and restarts, if nobody cancels and no turn runs into its tool call limit.
Neither assumption can be dropped for `OneRunner`: `limit_lets_in` is the
counterexample to the second, and the status that a cancel handler writes may land
on a later claim. The invariant `OInv` says who *owns* the status `working`: a request
from the claim that let it in, and then its turn until the call that ends the claim
has acted (`Owns`). Owned, the status is `working`, and nobody else owns it or is about
to leave (`Owned`, `Leaving`); a call that has acted belongs to the holder of the lock
(`AtHead`), so a turn past its last save is alone until it ends; what a stage asked
the store for fits it (`Fits`), and a claim never names `working` as the status read.

In the same module, `StatusStaysTrue`: `Spec => []StatusIsTrue`, under
`CalmAssumption`: also, no turn fails before it has its state, the creation's uploads
do not fail, no store call that seeds, marks, puts a status back or is the last
resort (`giveUp`) raises, and `None` is neither a document nor a log. The invariant
`KInv` adds the other direction: until a restart, a stored `working` has an owner
(`Kept`). It needs that the call which ends a claim is accepted and writes another
status: it names the conversation's own organisation (`Local`), because a turn always
finds a context, because the creation owns the conversation until it has stored one
(`Seeded`). What the theorem assumes and `turns` and `turns_cancel` do not is
checked there: the failed uploads, marks and starts, whose `working` is `Abandoned`.

Its last section is about all of `TurnLifecycle`: any cancel handlers, limited turns,
cleanups, faults, late jobs and restarts, if there are finitely many requests (so that
some time is always new) and contexts are logs (`TypesAssumption`). `TurnTypesHold`
(`TypeOK`) needs `TypesInv`: each actor that has a call is at a stage with one and has
one place in the lock's queue at most, nobody without a call is in it, and only its head
has been answered (`CallsInv`); who goes on with what it read has read a document
(`ReadsInv`); a cancel handler past its queue is the queue's head (`CancelsInv`). Without
the places, a turn that is cancelled could leave a second one behind, and a job that
outlives a call could write what no document is. `LocksExclude` follows: no two store
calls are between effect and return, no two cancel handlers past their lock (`Alone`).

**`TurnLogProofs`** goes on from the owner of `TurnStatusProofs`, with durable logs for
contexts. `StoredEventsStay`, `Spec => LogGrows`, if nobody cancels and no turn runs into
its limit: what the owner holds in memory is the stored log until it asks for a save
(`InStep`), that save carries the stored log and events of the owner behind it (`Adds`),
and until a store call raises an ending is the last event that its turn adds
(`NotOver`). `TurnsAreClosed`, `Spec => []EndedTurnsAreClosed`, under
`ThroughAssumption`: also, no turn fails before it has its state, the creation comes
through and nothing restarts. `CInv` counts what a turn owes: once its last save was
accepted it is closed, and whoever ends without one has met two failures. That nobody
cancels cannot be dropped from the argument: it rests on `OneRunner`, which a cancel
handler's late status breaks beside two senders.

**`EventStreamProofs`**: `StreamTypes` and `FeedHasNoGaps`, for any clients, queue size,
turns, failed and cancelled saves, restarts and lost connections. The invariant `EInv`:
the event with number n is at place n of the log in memory and of the stored one, and an
event of the first that is not in the second is being saved or silent (`LogInv`); a queue
is sorted, short enough and holds stored events (`QueueInv`); and from the moment a
replay is read, each number after the last one sent, up to the last that was told, is in
the subscriber's queue, was given up there or is silent (`FeedInv`, `Brings`). The last
is why the overlap of subscribing first and loading second neither loses nor repeats.

**`TurnLoopProofs`**, for any skills, batches, limits and bounds:

* `LoopTypes` (`TypeOK`), with `Places`: at a stage of the tools there is a batch, and
  `next` is a place in it.
* `CallsAreClosed` (`CallsClosed`): `StartedInv` says which calls may be `started` at
  each stage, none where no batch is at work.
* `LoopIsGuarded` (`LoopGuard`), if there is a longest batch (`AnswersBounded`: the model's
  answer is of bounded length): the tools run are no more than those counted (`CountInv`).
* `SkillsAreShown` (`SkillsShown`): a `one_turn` skill that was shown is active only
  while the iteration that showed it lasts (`ShownInv`); and a skill that was shown since
  its activation is within the budget (`StayInv`), for an activation puts its skill behind
  the others, and what goes from the list only shortens what is in front.
* `ContextIsShown`, `NothingIsForgotten`, `CallsAreAnswered`: `ContextShown`,
  `NothingForgotten` and `CallsAnswered`, which claim contexts that no save has cut. The
  invariants say nothing of a cut context, and a context that is cut stays so
  (`CutStays`), so that each step has to be followed for uncut ones only.

The lemmas about lists are the core of it. Whatever the prompt overlay, the scratchpad
and a prune do to a list, messages that stood next to each other from a message with
calls to its last result still do, because they remove, replace or insert other kinds,
and a prune cuts at a user's message (`Follows`). `ContextInv`: the lists, stored and
running, are in shape, with a prompt at the head and one scratchpad of the present notes,
and the running one has every user message of the stored one, in full up to the prune and
in full or in a summary after it. `AnswersInv`: no result stands before its calls,
whatever was interrupted; and until something is, all calls are answered but those of
the batch at work, whose results so far (`Half`) are those of the displaced calls and
then of the calls before `next`.

**`ConversationFilesProofs`**, for any paths, keys, batches and bounds:

* `FilesTypes` (`TypeOK`): above all, every entry of the workspace stays in a folder, also
  between an `rmtree`'s listing and its removals and whatever works beside them.
* `FilesStay` (`FilesKept`). The invariant `KeptInv`: every list of files that somebody
  has in mind (the stored one, the turn's, what a request found, what a delete read, what
  a late save brings) is whole on disk but for what was asked to be deleted (`OnDisk`); a
  file being written is the last of its request (`Uploaded`); a delete has asked before it
  unlinks (`Turns`); until a save is late each list has every accepted file (`Listing`).
* `NumbersRight` (`NumbersMatch`). `NumbersInv`: until something is asked to be deleted or
  a save is late, the context lists the accepted files once, each at its number
  (`Entries`), those of a request are new until they are the context's last (`Coming`),
  and the turn lists what the context does (`Current`).
* `OkStays` (`OkHolds`). `OkInv` says where a file is before its call has answered: what
  storage unlinked is asked for and off the disk (`Gone`), and off each list that the
  present turn, or the next request, starts from (`Unlisted`); an upload has its file
  open, or its text, in the tree (`Written`). The second needs to know what can come
  between the two: no two entries are one file, and an open one is where its call put it
  (`Ids`), so a thread that still writes changes no other call's text; nothing of an
  earlier message is at work in a message that began `alone` (`Quiet`); `run_bash` is the
  only call of its message (`Places`); and `rmtree` lists only what is below its folder
  (`Sound`). Each step of a call is one `Effect`: it changes the tree beneath its own path
  only, and where it opens or writes, its own file. One lemma per operation shows that it
  is, and one lemma that an effect keeps the invariant.

`Dropped` (the list without a key) is written as a function there because the provers
have no theory of `SelectSeq`; an `ASSUME` of `MCConversationFiles`, which TLC evaluates,
says that it is `SelectSeq` on short lists. An attempt at `OkHolds` found that its first
part claimed too much (a late save may list a deleted file again); it says now what holds.

**`AgentMemoryProofs`**: `PadStaysSound`, `Spec => []PadIsSound`, for any
conversations, names, values and batches. The invariant is that both pads of each
conversation, and every one in between, are sound; the lemmas say what one note does:
it puts no value beneath another (`NotedSound`), a log once lost stays lost
(`LostStaysLost`), and the entry that is added accounts for the path it names
(`LoggedSound`, `EditedSound`). The rest of `Next` moves pads around.

In the same module, about the memory's file, for any conversations, messages, failing
jobs, cancels and restarts:

* `MemoryTypes` (`TypeOK`). Its invariant `TInv` needs `QueueInv`, the lock's queue: a
  call is in it, once, exactly while it saves; only the first reads and writes
  (`Active`), beside the jobs that cancelled saves left behind; and a call whose turn
  came was begun in its order. What is no document on disk is told from every document
  by `MarksAssumption`.
* `MemoryOneKeyAtATime` (`OneKeyAtATime`) and `NotesAreRecalled` (`Recalled`). `JobInv`:
  until a save shares `memory.tmp` with a job left behind (`mixed`), one job is at work,
  what it will write is the file as it is *now* and one value more, `memory.tmp` is what
  it wrote, and every key that was answered as persisted is in the file. So the one step
  that changes the file is the rename, and it adds one value.
* `MemoryLastNoteWins` (`LastNoteWins`). `CleanInv`: as long as every save is made, the
  queue is the way from the file to what was asked last. The last value asked under a
  key is that of the last queued call that names it, or is in the file when none does; a
  call joins at the end, the rename moves the first one into the file, and its end takes
  it out of the queue (`CleanCall`, `CleanRename`, `CleanFinish`).

`Others` (the queue without a conversation's calls) is a function there for the reason
that `Dropped` is, checked against `SelectSeq` by an `ASSUME` of `MCAgentMemory`;
`OthersIs` says of it that order and members stay.

**`TurnToolsProofs`**: `TypesHold` (`TypeOK`), `ShownRuns` (`ShownIsRun`). The type
invariant adds `Fits`, `TaskOK` and `CallOK`: what a task awaits fits the stage of its turn.

In the same module, `OpenIsHeld` (`Held`), `NoLeaks` (`NothingLeaks`),
`ConnectedOpen` (`ConnectedIsOpen`). None is inductive: who may still close what is
open depends on where every other turn is. The invariant `LInv` has `Known` (a
task's client is one that its turn wants, and its cleanups name wanted clients),
`OneUser` (a client that is not shared has one turn at a time), and for each such
client that what is open is its user's (`Own`), is on the stack that will be closed
(`Kept`), and is behind a flag that tells the truth (`Live`). What `Kept` allows beside
the stack is what an interrupted `aclose` left on none, and nothing else.

`ShownReady` (`ShownIsReady`) goes on from `LInv`: a client whose tools are in the overlay
of a turn was connected when they were listed (`Listing`), with a session of its own
(`Sessions`), and nobody else uses it until the turn drains (`Ready`).

Left to TLC: liveness (under fairness, which the prover cannot reason about), and the
status and the log of `TurnLifecycle` with cancels, limited turns and failed starts.

## 5. What is not modelled

* The prompt providers (`rules_store.py`, `skills_store.py`): files that are read
  once a turn. That reading them may raise is `StartFails` of `TurnLifecycle`.
* Authentication, models of requests, configuration, CLI, the application: no state
  changes after start-up.
* The checks of addresses and of paths (pure functions of their argument), headers,
  schemas and names of remote tools; the MCP SDK and the model's providers, which are
  external: they answer, fail or hang.
* Token counts, usage, the text of prompts and titles. Whether a context is over
  its threshold is a free choice; a skill's text has a length, the same each time.
* How the answer of an MCP or HTTP call is told to the model: a local test of the answer.
* The delete of the workspace's root folder (`workspace_store.py` 157-162).
* A child process that closed its output and detached: no call waits for it.
* Several processes over one data directory: the lock is per process and the code
  does not support it.

## 6. Plan

1. *Done*: store, lifecycle, stream, loop, memory, attachments, workspace, outside
   tools; proofs about the store, the turns, the scratchpad and the outside tools.
2. *Done*: proofs about the stream, the loop, the log of the turns, the files and the
   memory's file: every invariant that a run checks is stated by a theorem. *Left*: the
   log (`LogGrows`) with cancels, where at most one sender is at work.
3. *Done*: the prompt's budget, summaries of summaries and saves that cut, in the loop and
   its proofs; what hangs, in the lifecycle and in `run_bash`. *Left*: what a cut context
   still keeps.
4. Composition of `TurnTools` with `TurnLifecycle`: the drain is a stage there and a
   sequence of steps here.
