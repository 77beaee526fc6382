# A formal model of egg-mono

TLA+ modules, TLC configurations and TLAPS proofs about the concurrent core of
egg-mono: the way runners, schedulers and user interfaces share the event log of
a thread. Everything is translated from the source under `src/`; documentation
is only quoted where a run compares it with the code.

## 1. The system

egg-mono is a chat agent harness. A *thread* is a conversation stored in SQLite
as an append-only table of events; *runners* read what is to be done from the
events, take a lease on the thread, do it, and append what happened; user
interfaces append messages and decisions to the same log and may interrupt.
Nothing but the database is shared between processes.

| component | state | operations | interacts with |
|---|---|---|---|
| invocation lease (`eggthreads/db.py`) | `open_streams`: one row per thread (`invoke_id`, `lease_until`, `purpose`) | `try_open_stream`, `heartbeat`, `append_event_with_lease`, `close_…`, `release_…`, `release`; `interrupt_thread` | every writer of the log |
| thread runner (`runner.py`, `run_once`) | its invoke id, plan, heartbeat task | look for work, acquire, open, work, close, compact, release | lease, reducer, LLM client, tools |
| tool execution (`_run_ra_tools` and two recoveries) | the calls of its plan | start, finish, decide, publish, resume, terminate | output decisions, tools |
| output decisions (`tool_output.py`) | `tool_call.output_approval` events | `finalize_tool_output` (compare version, precedence, fence) | runners, both user interfaces |
| event reducer (`tool_state.py`) | a cached reduction per thread | full and incremental reduction, choice of the next work | everybody who reads |
| turn boundary and LLM turn | `stream.close`, `control.interrupt`, assistant messages | run a turn, move the boundary | runner, continue, compaction |
| continue, auto-continue (`runner_recovery.py`, `api.py`) | skipped messages, recovery claims | `continue_thread`, delayed retries | lease, boundary |
| subtree scheduler | running threads, slots, reservations, watermarks | poll, start runners, park retries | runners, lease |
| get-user waits, subagents, `wait` | claims of user messages, child threads | claim, cancel, complete | reducer, lease |
| compaction, snapshots, projection | compaction events, snapshot column | choose boundary, commit | post-stream work |
| event feed, watcher | a cursor per client | follow the log | user interfaces |
| user interfaces (`egg`, `eggw`) | prompts | approve, decide, interrupt, cancel, type | all of the above |
| REPL sessions, autocomplete sidecar, tools, sandbox, optimizer, `eggllm`, `eggopt`, `eggconfig`, `eggdisplay` | own processes, files, caches | I/O | tools, user interfaces |
| task cache (`eggflow`) | results by key | run once per key, resume | database of its own |

What is hard about it: several runners and interfaces, in one event loop or in
several processes, race on the lease and on what each saw of the log before;
leases expire under live but slow owners; a process may die between any two
appends; cancellation is cooperative; decisions are made automatically and by
users at the same time; and a reader may fold an event onto a cached state that
the event changes the meaning of. `PROJECT.json` lists these hazards with the
lines where they bite and the properties that cover them.

What makes each component correct:

* lease: the log has one writer under a lease at a time, an invocation that lost
  it stays silent, is superseded once and is forgotten eventually;
* tool execution: a tool runs only if wanted and once, a call gets one result,
  what finished stays finished, a granted call is answered in the end;
* output decisions: the first decision stands, explicit omissions excepted, and
  what is published is what was decided;
* reducer: the incremental reduction equals the full one;
* boundary, continue: every user message is answered or skipped, once, and a
  continuation takes back nothing but what it is for;
* scheduler: bounded concurrency, and a thread with work runs in the end;
* task cache: what is stored is not computed again, and nothing runs on the debris
  of a failure; feed: no event lost or repeated.

## 2. Modules

| module | models | status |
|---|---|---|
| `SingleWriter` | what a lease promises: an owner, invocations that are spent, a log of authors | done |
| `InvocationLease` | `db.py`, the skeleton of `run_once`, `interrupt_thread`, the expiry sweeps | done |
| `MCInvocationLease` | instances | done |
| `InvocationLeaseProofs` | proofs: types, five safety properties, refinement | done |
| `CallLifecycle` | what a thread promises about a tool call: one way from the request to the answer | done |
| `ToolCalls` | `_run_ra_tools`, the recoveries, `finalize_tool_output`, the interfaces' handlers | done |
| `MCToolCalls` | instances | done |
| `ToolCallsProofs` | proofs for any number of processes: types, decisions stand | done |
| `ToolCallsLoopProofs` | proofs for one event loop: tools run once and only if wanted, one result, finishes stay, refinement of `CallLifecycle` | done |
| `EventReducer` | `tool_state.py`: the two reducers and the cache, with the events that runners, users and `continue_thread` write | done |
| `MCEventReducer` | instances | done |
| `EventReducerProofs` | proofs: types, no turn is answered twice, continuations start over, the cache is a rebuild | done |
| `SubtreeScheduler` | `run_forever` with `drive`, and the retry store | done |
| `MCSubtreeScheduler` | instances | done |
| `SubtreeSchedulerProofs` | proofs: types, slots, watermarks, parking | done |
| `Continuation` | failed turns: the automatic retry (`runner.py`, `runner_recovery.py`), the manual continuation (`api.py`) | done |
| `MCContinuation` | instances | done |
| `ContinuationProofs` | proofs: types and six safety properties | done |
| `Extrema` | lemmas about least and greatest elements, induction over an interval, recursive functions on one | done |
| `TaskCache` | `eggflow/core.py`: the executor and its table | done |
| `MCTaskCache`, `MCListedTwice` | scripts to execute | done |
| `TaskCacheProofs` | proofs: types and five safety properties | done |

How they fit together. `InvocationLease` is the ground: the other thread modules
take from it that what a runner appends is fenced, and reduce the lease to its
holder and whether it is live. `ToolCalls` and `Continuation` are what happens
under a lease, to tool calls and to turns of the model; `EventReducer` is how
their log is read; `SubtreeScheduler` decides who gets to run at all, and reduces
what a runner does to what it does to the log. `TaskCache` stands alone, as
`eggflow` does.

Two modules say what a component promises without saying how: `SingleWriter`, which
`InvocationLease` implements, and `CallLifecycle`, which `ToolCalls` implements in one
event loop.

Not begun: the claims of get-user waits, `wait_for_threads`, the choice of a compaction's
boundary, the event feed; an abstract specification of the task cache (a key is computed
once).

### InvocationLease

One thread. `row` is the row of `open_streams` (`NoRow` when there is none) with
the remaining life of the lease instead of `lease_until`: `left > 0` is
`lease_until > datetime('now')`, and `Tick` lets time pass. `events` holds those
events of the thread that bear on the lease, with their author. `phase[i]` is
where invocation `i` is in `run_once`; a fresh invoke id is drawn for every
attempt, so an invocation never comes back. `interrupting` and `sweeping` hold
what an `interrupt_thread`, a `thread_state` or a `wait` in progress read before
its write: the reads and the writes are separate steps. A statement or a
savepoint that begins with a write is one step, because SQLite serialises them.
A runner computes `lease_until` before it gets the write lock, hence a fresh
lease has any remaining life.

| action | code |
|---|---|
| `TakeOver`, `OpenFresh`, `Refused` | `try_open_stream` |
| `OpenStream`, `Work`, `Close` | appends through the invocation writer: they insert, or raise `LeaseLost` and end the run |
| `Heartbeat` | the heartbeat task and the heartbeats of streaming loops |
| `FinishWork` | the `finally` that cancels the heartbeat |
| `Compact`, `ReportError`, `Release` | the work after `stream.close` |
| `InterruptRead`, `InterruptCommit`, `InterruptIdle` | `interrupt_thread` |
| `SweepRead`, `SweepDelete` | `thread_state`, the wait tool |
| `Crash`, `Tick` | external |

`SingleWriter` is its abstract specification. The mapping takes as owner the
holder of a live row, as spent everybody else who ever tried, and as log the
author of every fenced entry.

### ToolCalls

One thread, its tool calls and the invocations that work on them. `calls[c]` is
the reduced state of a call (`ToolCallState`), so that an action which appends an
event applies what the reducer makes of it: `StateOf` is the property `state`
(TC1 … TC6), `Started`, `Resumed`, `Finished`, `Decided`, `Published`,
`OwnerGone` are the branches of the reducer, `version` is `state_event_seq`
counted per call. `named` says whether a lifecycle event names the call, which
is what the SQL of `_append_decision_with_expected_state` looks for. The lease is
reduced to its owner and whether it is live. An invocation first makes a plan
(`Discover`), then takes the lease (`Acquire`), and works from the plan: `todo`
are the calls it has not done with, `at` where it is with the first of them, and
`plan[i].seen` what it saw, which is what the code works from.

`Colocated` tells the two deployments apart. In one event loop a runner gives way
only where `run_once` awaits: between `run_once` looking for work and acquiring,
and between a tool's last chunk and the decision, nothing else runs; while a tool
runs, everything may. (After each chunk of a tool's output, the last one too, there is an
`await asyncio.sleep(0)`, `runner.py:4157`. Others run there as they do while the
tool runs, so the tool counts as running until then.) With two processes on one database every step interleaves.
A Ctrl+C handler reads all calls and then cancels them one by one (`CtrlC`,
`CancelCall`, `AnswerCancelled`); the web interrupt pauses before it keeps the
interrupted outputs (`WebInterrupt`, `WebKeepInterrupted`).

Bounds, all named in the module: `MaxFaults` counts crashes, stalls (heartbeats
that come too late), cancellations of the runner task and failing steps;
`MaxInterrupts` the interrupts. `Recycle` lets an invocation that is over stand
for the next fresh one, so that a small set of identifiers suffices for any
number of attempts; it also resets the owner of its calls, which the code would
keep, because nothing looks for an owner that has neither row nor interrupt
to come.

`CallLifecycle` is its abstract specification: a call is asked for, granted or refused,
run, returned, decided on and answered, and each step goes forward. The one way back
is `Resume`, for tools that can be resumed and only while nothing the call returned is on
record. The mapping (`StageOf`) takes the stage from the state of the call, except that TC4
is `returned` when a finish was recorded and `lost` when it stands for the loss of
whoever ran it; how often a tool ran and what the transcript says are mapped as they
are. Several calls may move in one step: an approval of a turn, the end of an owner.

Abstracted: output text, artifacts, previews and `partial` (it is a `whole` that
was shortened); deadlines of resumed tools (a resumable orphan may always be
terminated instead); approval policies act as `Approve`.
Left out: `get_user_message` waits, the read-only mode, the in-memory retry
budget for failing finalizations (its limit is above `MaxFaults`).

### EventReducer

`ToolCalls` applies each event as it is written. This module keeps the log
itself (`log`, whose index is `event_seq`) and models how the program reads it.
`Rebuild` is `_reduce_loaded_thread_events`: `Replayed` folds the events that
name a call, `TakenBack` is the rule by which a continuation undoes what happened
to the calls of its message, `Sealed` and `Swept` are the repairs at the end,
`Boundary` is the turn boundary, `NextWork` the choice between RA3, RA2 and RA1.
`Increment` is `_try_reduce_thread_events_incrementally`: the new events folded
onto a cached reduction. Where the two functions of the code repeat one branch
word for word the model has one operator (`Applied`); where they differ, it has
two (seals at once or at the end, boundary by flag or from the log, interrupts
of the tail or of the log, approvals by interval or as they come).

`thread` is always `Rebuild(log)`, what a process without a cache reads; the
guards of the actions look at it, as the handlers look at the reduction.

A runner gets to its stream in three steps: it chooses its work (`Look`,
`runner.py:1655`), takes the lease (`Acquire`, or `TakeOver` of an expired row, 1687) and
appends `stream.open` (`OpenStream`, 1735). What it has chosen is in `plan[i]` and is not
read again, so the stream is opened for the message chosen, whatever was written since; at any
point it may give up (`GiveUp`). There is no await from 1655 to 1735. Where every
runner and interface of the thread lives in one event loop (`Colocated`) nothing but time
passes between these steps (`Undisturbed`); with another process everything may.
`cache` is the cached reduction of some process that calls the reducer whenever
it likes (`Reduce`) and may lose it (`Forget`). An event is a record of its type,
the call it names or declares, the invocation, and one argument. A continuation
is one event for its edits and its interrupt, which are one transaction. A global
approval may be repeated (`SetGlobal`): `approve_tool_calls_for_thread` does not look
whether one holds. The model does not answer a message that was struck out since. Every
event of a runner is fenced (`Owned`) as `InvocationLease` shows. Left out:
streaming deltas (one of a tool stream marks it as a turn in a rare error path),
summaries, get-user notes and claims, deletions and other edits, repeated or
malformed ids (they only send the reducer to the full path).

A thread is followed for `MaxNew` events from one of six points of its life
(`Histories`): at rest after an answer, left by a runner that died before the answer and
under a global approval, left by one that died between the answer and the close,
waiting for an approval, left by a runner that died in a tool, and with a user
command run and published. So rare ends of long lives are within reach of four
events. `HistoriesAssumption` says what the proofs take of these points: a turn is
opened after the message it is for and none is answered twice; a call is declared once and
before any event names it (message and call ids are drawn anew); an invocation is
new and starts nothing once its stream was closed or interrupted; no call is started a second
time unless it is resumed or the thread was continued (`WellFormed`). The actions keep all
of this, which is proved.

### SubtreeScheduler

One scheduler, the threads below its root, and everybody else. `work[t]` is what
the events of a thread say is to be done: nothing, a turn of the model (`llm`), a
tool (`tool`), a call left started (`started`), a finished call whose output has
no decision (`output`), or a question to the user (`ask`). `seq[t]` is its last
`event_seq`, `lease[t]` its row in `open_streams`. The loop has a program counter
because it gives way between its reads and after every thread it looks at; what
it read before (`seqs`, `leased`, the slot counts) may be old when it is used.

| action | code |
|---|---|
| `ReadSeqs`, `ReadLeases` | the two bulk queries at the head of a turn |
| `Account` | leases that ended drop their watermarks; idle timers and reservations; slots |
| `Scan` = `SkipRunning`, `StayParked`, `SkipLeased`, `SkipUnchanged`, `Look` | the first pass, thread by thread in order of priority |
| `Start` | the second pass, candidate by candidate |
| `Begin`, `EndTurn`, `Publish`, `FailToPublish`, `LoseLease`, `RunLost`, `RunNothing` | `drive` and what `run_once` does to log and lease |
| `DriveEnds` (in all that end a run) | the `finally` of `drive`: parking, watermark, reservation |
| `UserSends`, `UserDecides` | users |
| `OtherTakes`, `OtherOpens`, `OtherEnds`, `OtherDies` | another process: its lease (`runner.py:1687`), its `stream.open` (1735), its end, its death with or without a word |
| `LeaseExpires`, `IdleElapses`, `BackoffEnds` | time |

`RecoveryKey` is a thread and the number of its call: a version of a call is a new
call here. The retry store is shared by all schedulers of a process, as the code's
module variable is; a full store gives up on keys it does not know. Asked for no
key at all while it has entries, it raises, so that the rest of `drive`'s `finally` does not
happen; the model does the same (`raises`), and the checks show that this is harmless for
what they check. A runner started for a tool may find a turn of the model to run, so model
turns under way may exceed the LLM slots; `WithinSlots` is about what was started.

A foreign lease comes without an event; the event that tells the log is a transaction
of its own, and a process that dies in between never writes it. The loop notices such a lease
only by looking, so it matters how long a lease lives. `LeaseOutlastsTurn` says that it
outlives a turn of the loop (`lease_ttl_sec` is seconds, a turn half a second and the
threads it looks at), so that a lease which lapses was seen. It is a constant, not part of
the model: `NoHiddenWork` needs it, and `SlowTurn.cfg` shows what happens otherwise. Left out: children that appear or
are deleted, pruning, paused threads, the `no_api` mode, shutdown. Bounds: `MaxEvents`
and `MaxFaults`, by thread.

### Continuation

One thread whose turns fail. `log` holds its events; what one transaction appends
is one entry, and an entry names the message it is about (`at`). `StruckOut` are
the messages a continuation marks as skipped, `Boundary` and `NextTrigger` decide
which message asks for a turn, as in `tool_state.py`. A runner is in a turn
(`streaming`, `ended`), has closed its stream and still has its lease (`closed`,
`compacting`, `done`), has given it back (`released`), or sleeps before a retry
(`waiting`); `planned` is a runner of another process between looking for work and
acquiring the lease.

| action | code |
|---|---|
| `Begin`, `Plan`, `BeginLate` | `run_once` up to `stream.open` |
| `Publish` | what the turn leaves: an answer, nothing, a failure of some class, the provider's refusal of a prompt too long (`overflowed`: an event, not a message), the thread's own context limit |
| `Close`, `LeaseLost` | `stream.close`; a write that finds the lease lost |
| `Compact`, `AskCheckpoint`, `Refused` | between close and release (`runner.py:2022`–`2131`): a request for a checkpoint, by a turn without room or a thread past its threshold, or the failure that none can be asked for |
| `Release` | the release of the lease |
| `Consider` | `_maybe_auto_continue_after_ra1_failure` up to its sleep: classification, checkpoint request, attempt cap, notice |
| `Apply` | the fence after the sleep and `apply_auto_continue` |
| `AskContinue`, `Continue` | `continue_thread_manually`: what the log holds is captured, then, perhaps after a delay, `continue_thread` compares and writes |
| `Interrupt` | `interrupt_thread` |
| `UserSays`, `Die`, `Expire` | messages, deaths, leases that run out |

A checkpoint is asked for in three places: by a turn without room, by a thread past its
threshold, and after a failed turn (`RequestCheckpoint`). All look for a request that is
pending (`Pending`); the first two look and append in two steps, which only the lease keeps
together, and no lease guards the append. Only the third asks whether the failed turn was
itself for a checkpoint (`AnswersRequest`). A turn that ran out of room, and one whose
failure was followed by a checkpoint of the threshold, is `quiet`: `Consider` does not
happen (the guard at `runner.py:2142`).

`Fence` counts messages that were struck out, as the code does, so that after a
first failure of a message no second automatic retry happens. It takes any row of
`open_streams` for a live one, which only refuses more.

Abstracted: the texts by which failures are classified. A class is chosen: `transient`
is repeated, `cut` is an answer cut short in transit and repeated, `overflow` and `truncated`
want a checkpoint, `permanent` stops, `limit` is the thread's own limit. Whether a thread is
past its threshold is a choice too. Left out: per-thread settings, the completion of a
user's commands, the internal continuation without a fence. Bounds: one per kind of
input, and `MaxInputs` for all of them together; there a death, an expiry or a plan
overtaken counts for two.

### TaskCache

A script is a tree of call sites: a site runs a task for its parent, in one of the
parent's steps, and the sites of one step are one yielded list; a site alone in its
step is in a list of one if it is `Listed`. `rows` is the table
by key, with the status and the result stored last; `frame` is what the process
does at each site. Two sites with one key call the same task. `debris` and
`returned` are history: how the last attempt at a key ended, and how often a task
returned a value, stored or not.

| action | code (`_execute_task`) |
|---|---|
| `Bypass` | a task that is not cacheable, or `nocache` |
| `Create`, `RunAgain` | no row: created PENDING and run; a row left PENDING |
| `Reuse` | COMPLETED: the value, or what `restore()` raises |
| `Refuse` | FAILED with a terminal failure |
| `Suspect`, then `Retry`, `GiveUp`, `Break` | any other FAILED row, or a RUNNING one: `recover()` returns, returns False, raises |
| `Return`, `Raise`, `Resume` | `_handle_task`: the task returns, raises anywhere in its own code, or gets the results of what it yielded |
| `Commit`, `Spoil` | the value is stored COMPLETED (`core.py:908`), or cannot be pickled and is a failure (870–874) |
| `Launch`, `Die` | the process |

`Thrown` is what `_run_internal` raises into a generator: the failure of a single
task unless it is wrapped and not terminal, but of a list, be it of one task, only failures
that are not terminal (terminal ones become `None`, as the tests of `eggflow` require). A task
that catches failures may go on or return at once (`Catching`). The process may die
between `Return` and `Commit`, but nothing else runs there: the code has no await between
the two. Otherwise the grain is finer than that of one event loop, so the model has
more interleavings than the program. `keyed_scope` is applied twice by `Task.execute`, which changes
a key consistently. Left out: how keys are computed, corrupt blobs, raw
coroutines, two processes on one store, cancellation within a list, the adapter
for eggthreads.

## 3. What the runs check

| run | instance | shows |
|---|---|---|
| `lease` | 2 invocations, TTL 2, one write per phase | all safety properties of the lease and the refinement of `SingleWriter` |
| `lease_liveness` | the same, with a boundary that names nobody | `DeadLeaseExpires` under `WF(Tick)` |
| `post_stream` | 2 invocations, TTL 1 | finding: compaction after an interrupt |
| `tool_calls` | 2 calls of one assistant message (one resumable, one of a restricted tool), 2 invocations, 1 fault, 1 interrupt, one event loop | types, `RunOnce`, `OneResult`, `RunOnlyIfWanted`, `FinishIsFinal`, `DecisionStands`, the refinement of `CallLifecycle` |
| `tool_calls_liveness` | a user's command, two processes on one database, 2 faults | `SettledEventually` |
| `superseded_output` | 2 calls, no fault | finding: a decision overtaken by a stale plan |
| `cancelled_calls` | 1 call, 1 interrupt | finding: Ctrl+C does not reach a call granted with its turn |
| `reducer` | 2 calls, 3 invocations, 4 more events from 6 histories, 1 continuation, one event loop (1,294,673 states) | types, `PlainCacheIsRebuilt`, `AnsweredOnce`, `ContinueStartsOver` |
| `reducers_disagree` | the same without the history under a global approval | finding: a continuation, then an interrupt |
| `scheduler` | 2 threads, 1 LLM and 1 tool slot, 2 attempts, with and without sticky scheduling, 1 event and 2 faults of the first thread, `LeaseOutlastsTurn` (459,269 states) | types, `WithinSlots`, `NoHiddenWork`, `ParkedForCause`, `WorkIsDone` |
| `continuation` | 2 runners, six classes of failure, 3 inputs out of failures, silent turns, checkpoints of the threshold, a message, a continuation, an interrupt and (counted twice) a death, an expiry or a plan overtaken (139,227 states) | types, `CheckpointOnce`, `TurnStands`, `NoSilentFailure`, `RetryTakesOnlyTheFailure`, `ContinueTakesOnlyWhatWasSeen`, `ContinuedIsNext` |
| `task_cache` | 8 call sites, 4 cached keys and an uncached task, 2 failures, 2 deaths, 3 starts (126,789 states) | types, `OneAtATime`, `KeptOnceStored`, `RestsOnCompleted`, `TerminalIsFinal`, `CleanedBeforeRetry`, `ScriptEnds` |

`tool_calls` has a view (`LiveView`): the plan of an invocation that is not planning or
working is not looked at by any step before `Discover` writes the next one, nor by any
property but the types, so states that differ in dead plans alone count as one.

`SettledSiblings.cfg` (of `MCToolCalls`) is a longer form of `tool_calls_liveness`:
a user's command and a call of the model in one event loop, with 2 faults; TLC
passes it too, in some minutes. `DecisionStands` is checked in one event loop; for processes whose
every step interleaves it is proved (section 4), so there is no run for that
deployment.

Why the bounds are enough to be interesting. Two invocations give a takeover, a
lost invocation that still runs, and a sweep or an interrupt aimed at the wrong
one of them; a third would repeat these roles. Two calls give siblings in one
plan, recoveries that stop half way, and cancellation between calls. One fault
and one interrupt may hit at any step and together; the proofs cover any number
of each for what they prove. In `scheduler` one thread lives through everything and
the other competes with it for the only slot; two faults make a failing output
fail twice, which uses up its attempts. In `continuation` three inputs are a
failure, the failure of its retry and one thing the user does, or a failure under a
death or a lost lease, and they meet each other in every order; `FourInputs.cfg` tells a
longer story with two classes of failure (below). In `reducer` two fresh invocations
plan at once, and a third has lived in the history. The script of `task_cache` has a
list, nesting, a second call of what completed, a wrapped and an uncached call, a
task that catches, and enough starts for two deaths and a quiet end.

Properties, by module.

* `ExclusiveWriter`, `InterruptedIsSilent`, `SupersededOnce`, `LostStaysLost`,
  `LiveLeaseDroppedOpenly`, `DeadLeaseExpires`, `ImplementsSingleWriter` (lease);
* `RunOnce` (a tool that cannot resume runs once whatever happens), `OneResult`,
  `RunOnlyIfWanted`, `FinishIsFinal`, `DecisionStands`, `ImplementsLifecycle` (every
  call goes one way), `SettledEventually` (tool calls);
* `PlainCacheIsRebuilt` (event by event or all at once, a log means the same, unless it was
  continued or repeats a global approval), `AnsweredOnce` (no second turn for a message
  whose turn was closed, in one event loop),
  `ContinueStartsOver` (a continuation leaves nothing of what it undoes and
  something to do) (event log);
* `WithinSlots`, `NoHiddenWork` (a watermark that makes the loop skip a thread hides
  no work, if a lease outlasts a turn of the loop), `ParkedForCause`, `WorkIsDone` (scheduler);
* `CheckpointOnce` (between two requests for a checkpoint the model responded or a turn was
  started over, while no lease is lost), `TurnStands` (no continuation under a turn),
  `NoSilentFailure` (a failure, a want of room included, is taken back, reported,
  answered by a checkpoint or its refusal, interrupted, or in hand),
  `RetryTakesOnlyTheFailure`, `ContinueTakesOnlyWhatWasSeen`, `ContinuedIsNext`
  (continuation);
* `OneAtATime`, `KeptOnceStored`, `RestsOnCompleted` (no failure is lost on the way up),
  `TerminalIsFinal`, `CleanedBeforeRetry`, `ScriptEnds` (task cache).

Beside the runs there are configurations for properties that the documentation
suggests and the code does not have, or not without an assumption; section 5 tells what
TLC finds with them: `StickyDeadlock.cfg` and `SlowTurn.cfg` (of `MCSubtreeScheduler`),
`InterruptIgnored.cfg`, `StaleReset.cfg` and `CheckpointAgain.cfg` (of `MCContinuation`),
`ApprovedTwice.cfg` and `AnsweredTwice.cfg` (of `MCEventReducer`), `InterruptedTask.cfg` and
`ReturnedTwice.cfg` (of `MCTaskCache`) and `ListedTwice.cfg` (of `MCListedTwice`). And
`FourInputs.cfg` (of `MCContinuation`) is a longer form of `continuation`, with one more input
and two classes of failure: TLC passes it, 1,128,913 states, in about four minutes.

Fairness. `TimedSpec` assumes only that time passes. `FairSpec` assumes that a
scheduler polls a thread with work and that a runner which can go on does
(tools are assumed to return: the default tool timeout sees to that), that the
lease of an invocation that is over expires, and that a handler which began ends.
Users are never obliged to do anything, so `Settled` counts a call that waits for
a user as settled. The scheduler's `FairSpec` assumes that its loop goes round, that
runners end (a tool or a provider has a timeout), that other processes end what
they began or die, and that time passes; its users and faults are free.
The one of `TaskCache` says that a task which can go on does, event loop and tasks
willing; nobody need start the script, and `Die` is free.

`CHECK_DEADLOCK FALSE` everywhere: a thread whose work is done and whose bounds
are spent really stops.

## 4. What is proved

Every safety property of the passing runs, the two refinements included, is a theorem,
about the same definition that TLC checks. The theorems hold for every value of the constants:
what bounds a run, `MaxFaults` or `MaxEvents` say, is an arbitrary number here. The
invariants are not inductive by themselves, so each module of proofs begins with the
one that is. TLC checked it, too, on the instance of the run.

| module | theorems | assumes |
|---|---|---|
| `InvocationLeaseProofs` | `TypeCorrect`, `LostForGood`, `WriterExclusive`, `InterruptFinal`, `InterruptedOnce`, `DroppedOpenly`, `LeaseImplementsSingleWriter` | `LeaseAssumption` |
| `ToolCallsProofs` | `TypeCorrect`, `DecisionsStand`, in both deployments | `CallsAssumption` |
| `ToolCallsLoopProofs` | `RunsOnce`, `OneResultEach`, `RunsOnlyIfWanted`, `FinishesStay`, `LoopImplementsLifecycle` | the same, and `Colocated`: one event loop |
| `SubtreeSchedulerProofs` | `SchedulerTyped`, `SlotsRespected`, `ParkedRightly` | `SchedulerAssumption` |
| | `WatermarkHidesNothing` | the same, and `LeaseOutlastsTurn` |
| `TaskCacheProofs` | `CacheTyped` | `ScriptAssumption`, `KeyAssumption`, `BoundsAssumption` |
| | `AttemptsApart`, `ValueIsKept`, `CompletedIsFounded`, `TerminalStays`, `CleanupComesFirst` | the same, and `NeverListedTwice` |
| `ContinuationProofs` | `ContinuationTyped`, `CheckpointAskedOnce`, `TurnsStand`, `FailuresAreHeard`, `RetriesTakeTheirFailure`, `ContinuesTakeWhatWasSeen`, `ContinuedComesNext` | `ContinuationAssumption` |
| `EventReducerProofs` | `ReducerTypeOK`, `ContinuationStartsOver`, `IncrementRebuilds`, `CacheRebuilds`, in both deployments | `ReducerAssumption`, `HistoriesAssumption` |
| | `TurnsAnsweredOnce` | the same, and `Colocated`: one event loop |

`Extrema` holds lemmas the last two share: a set of numbers that is not empty has a
least element, and a greatest if it is bounded; and, from the least number that fails,
an induction over an interval (`Climbs`) and the existence of a function on it each of
whose values is made of the one before (`FoldExists`). The assumptions are about the
constants and TLC evaluates them in the runs; most give types. Those that say more: a key
stands for one task, hence for one list of calls, and a script is finite
(`KeyAssumption`, `ScriptAssumption`), and the histories a thread is followed from open a
turn after the message it answers, answer none twice and are well-formed (`HistoriesAssumption`).

**The lease.** That no entry of an invocation
follows its interruption needs to know that an invocation named by an interrupt
no longer owns the row, that whoever owns the row has started, that an
invocation that wrote has started, and that an expired row seen by a sweep
belongs to a dead invocation. `IInv` is the conjunction of these parts;
`ExclusiveWriter` rests on the part that says: if another invocation wrote after
`i`, then `i` does not own the thread any more. `LostStaysLost` follows step by step
(`RowStep`). The refinement maps every step to a step of `SingleWriter` or a stutter.

**Tool calls, both deployments.** The types are stated by
parts, one per group of variables; the strengthening `PlansSound` says that an
invocation not yet started has nothing half done and that a call a plan saw in
TC5 had a decision, without which the publisher's result would not be typed.
`DecisionStands` is an action property that follows action by action.

**Tool calls, one event loop.** A runner works from a plan that it never reads again, so
the proof is about why the plan is still good. `LoopInv` has three parts. `CallsSound`
holds the books of a call (executions against `started`, tool messages against
`published`). `LoopSound` says that at most one runner is between two awaits, and none
while a Ctrl+C is carried out, which met only unpublished calls. `WorkSound` is the heart:
as long as an invocation is planning or still owns the lease, the calls it has not
begun with are in the state its plan saw if it runs or publishes (`PlanHolds`); an orphan
whose version is the one its recovery saw has no recorded finish (`OrphansUnfinished`);
and what an owner is running has none either (`AtWork`). It is inductive because what
others may do to a call that is granted, denied or decided leaves it so unless they take
the lease first, and then every append of the runner fails. With two processes
`PlanHolds` is false before the lease is taken, which is exactly the case where
a call runs twice.

That every call goes the way `CallLifecycle` draws needs three facts more (`LifeInv`): the
call whose tool an owner of the lease runs is under way (TC3) and its own (`OwnersRun`);
what a Ctrl+C under way has read still stands: none of the calls it saw is denied, and
the ones it owes an answer are denied or decided (`CancelSound`); and an explicit decider
implies a decision (`ExplicitSound`).
The proof maps every action, call by call, to a step of the abstract specification; most of
the work is in the two recoveries, where several calls move at once and a stale plan
must not take a finished call back.

**Scheduler.** What bounds the runners is the count at the head of a turn: `SlotsCounted`
says that free slots plus runners of a class never exceed the limit until the next
count, `CandidatesSound` that no candidate is running or named twice. `NoHiddenWork`
needs the order of the reads: `ReadSound` says that nothing read is ahead of the log, and
that what is still to be used was read since the watermark; `NothingHidden` that a
watermark up to date means a parked thread, or a lease that was noted, or no work and no
lease that could still leave some unseen. A lease without an event cannot be told from no
lease by the log, so the proof takes from `LeaseOutlastsTurn` that the loop sees one
before it lapses.
`ParkedForCause` needs `AttemptsLeft`: a runner that tries
again is on record with attempts to spare. The prover made one thing precise that the
bounded run cannot show: when the retry store is full, a failing output of a thread it
has no room for is given up at its first failure and stays parked until its log
changes (`runner.py:225`–`290`), so "for good" in `ParkedForCause` has two reasons.

**Task cache.** Nothing locks a row of the table. Two attempts at one task keep apart
because a task never goes on to its next step while anything it called is
busy (`CallsNested`), and because two calls of one task stand in different steps of
some task above both. The second is a property of the script, `NeverListedTwice`, and the
hypothesis of five theorems; `MCTaskCache` asserts it of its script, and
`ListedTwice.cfg` shows what happens without it. `ValueIsKept` speaks of values that are
stored (`KeptOnceStored`): a task whose process dies between its return and the commit
is computed again, and so is one whose value cannot be stored. `CleanupComesFirst` speaks of
attempts whose failure is stored, not of those a process died in. `RowsSound` and `FramesSound` tie what a
process is about to what the table holds; `RestsOnCompleted` is inductive with them,
and says also of a task half way that the steps it has passed rest on
completed callees.

**Continuation.** The log only grows, and what an entry strikes out lies before it, so
what was true of the log when the fence was looked at is true of what is struck out.
`OpenedSince` (who holds a live lease opened it after the last continuation) gives
`TurnStands`; `FailuresHeard` says of a failure that is not settled yet which
runner has it in hand: one that is in its turn, is to ask for a checkpoint or to
say that it cannot, has given the lease back and is to decide, or sleeps. A request
that comes from between close and release was looked for under the lease, hence
`LeasesKept`: without interrupts, deaths and expiries, who is in a turn holds the lease,
and nobody else writes requests meanwhile. The invariant is
`IInv == Typed /\ LeasesKept /\ CheckpointOnce /\ OpenedSince /\ FailuresHeard`.

**Reducer.** `TurnsAnsweredOnce` rests on the choice of the trigger: what asks for a turn lies
behind the boundary, and the boundary lies at or behind the end of the last turn
unless the thread was continued since. The choice is made two steps before the turn
is opened, so the proof is about why it still stands: in one event loop at most one
invocation has a plan, and since it was made nothing was written but the interruption
of the invocation it replaced (`PlansStand`). Three facts more are
needed: `thread` is what the log rebuilds to, a turn opens after the message it is for, and a
plan names a message of the log. So
`IInv == IsLog(log) /\ Read /\ OpensLater(log) /\ PlansFit /\ (Colocated => AnsweredOnce /\ PlansStand)`.

The other theorems follow the folds. The library's induction theorems cannot be used here,
but the least position at which a statement fails can be named, and what a recursive
function is follows from `FoldExists`. So `ReplayIs` gives the replay of a call
event by event, which gives the types (`Typed`, and that every handler writes an event).
`ContinuationStartsOver` needs that a continuation strikes out every later message and that
it is the latest interrupt of the log when it is written, so that the replay of a
call of its message takes back all that had happened to it (`StartsOver`), and that
then either a call or the message itself is to be done (`TriggersWork`).

`IncrementRebuilds` is about two different folds: the rebuild replays each call over the whole
log and repairs it at the end; the increment folds every event on a map of all calls, and
repairs at once. They agree through `Shown`: what either shows of a call is its replay, with
interruptions read in and the global approval of the moment it was declared. That
approval is two things: the flag of the increment, and the intervals of the rebuild. They
agree (`GlobalIs`) as long as every global approval is revoked before the next
(`RevokedBetween`), which is the second hypothesis of the theorem; `ApprovedTwice.cfg` shows
that it cannot be spared. `Reached`
says that after `k` events the increment's map shows exactly the replays up to `k` of
the calls declared by `k`. One step of it is a case for each kind of event, and needs
that reading in an interruption early makes no difference later: a finish overrides an
interruption in both folds, a decision seals, and no invocation that is gone starts
anything, which is where `WellFormed` comes in. The boundary is its own argument (`ExtendsBoundary`): it is the last end of a turn,
and only while there is none the last answer. `CacheRebuilds` then needs that logs stay
well-formed (`ReducerShaped`, with `LeaseHolds`: who holds the lease has neither been
closed nor interrupted) and that what is cached is a rebuild of a prefix (`CacheRead`).
All of it is for threads that nobody has continued; for the others it is false
(`reducers_disagree`). Both deployments are covered.

**Only model-checked**, and why.

* Liveness: `DeadLeaseExpires`, `SettledEventually`, `WorkIsDone`, `ScriptEnds`. Fairness
  and `ENABLED` are out of this prover's reach.
* What the runs of section 5 refute, of course; and `RunOnce`, `OneResult`,
  `FinishIsFinal`, `RunOnlyIfWanted`, `AnsweredOnce` are checked and proved for one event loop
  only (section 5 tells why).
* A proof says nothing of what a module leaves out; section 2 lists that.

## 5. Disagreements found

* `post_stream`: post-stream compaction is not fenced by the lease.
* `superseded_output`: a publisher can use a superseded decision without any
  interrupt.
* `cancelled_calls`: Ctrl+C does not cancel a call that was granted with its
  turn, because the version it compares is that of an event naming the call.
* `reducers_disagree`: after a continuation, an interrupt makes a rebuild of the
  log bring back what the continuation took back, while a cached reduction keeps
  it started over. So a process that restarts publishes an old output where the
  running one runs the call again. Without an interrupt the two also differ when
  the continuation sets the boundary just behind an answer whose stream was
  never closed.

Found with the configurations beside the runs, and reproduced with the real program:

* `StickyDeadlock.cfg`, `ReservedIsRun`. The second pass of the scheduler drops a
  candidate when no LLM slot is free (`runner.py:5301`), before it asks whether the
  thread holds a reservation, and the reservation itself is counted as a used slot.
  `_is_thread_idle` says no for a thread with work, so its idle timer is cleared and
  the reservation never ends. With every slot reserved, a thread that needs its slot
  again waits for ever and so does everybody else. The comments speak of "threads
  with reserved slots (recently ran, within threshold)" and refuse slots only "for
  non-reserved threads". This is why `WorkIsDone` leaves sticky scheduling out.
* `InterruptIgnored.cfg`, `InterruptCallsOff`. While an automatic retry sleeps there
  is neither a lease nor a turn to run, so `interrupt_thread` records nothing, and the
  retry is applied. `src/eggw/eggw/routes/messages.py:759` says "Interrupt/cancel
  current streaming or pending work (Ctrl+C equivalent)".
* `StaleReset.cfg`, `FreshFailureIsRetried`. `_manual_continue_retry_trigger` reads
  interrupts after messages and lets an older interrupt replace a newer failure as
  evidence (`api.py:2735`), so a continuation recorded between the two counts as later than the
  failure, and a plain `/continue` is refused. The comment at `api.py:2743` says "A later failed retry
  of the same trigger is fresh authority for a new manual /continue".
* `InterruptedTask.cfg`, `CleanedAfterDeath`. A first attempt is PENDING until it
  ends, never RUNNING, so a task whose first attempt died is run again without
  `recover()`. `core.py:814` says "A stale RUNNING row means the prior process stopped
  before it could persist a result. Recover it through the same task-owned hook".
* `ReturnedTwice.cfg`, `ReturnsOnce`. A process that dies after a task returned
  (`core.py:907`) and before its value is committed (908) computes it again. No
  store of its own can avoid this; what `eggflow` promises is `KeptOnceStored`.
* `ListedTwice.cfg`, `ReturnsOnce`. A list that names one task twice runs it twice, and
  a failing duplicate overwrites a completed row. `src/eggflow/README.md:5` says
  "completed values survive process restarts".

* `CheckpointAgain.cfg`, `StopsForTheUser`. The comment at `runner.py:1442` says "A failure
  while answering a compaction checkpoint request should stop for the user instead of
  recursively queuing another checkpoint request". Only the path after a failed turn
  (1445) asks for that; the one between close and release does not. So a request
  whose turn fails, is retried, and then has no room either is followed by another
  request, because the retry has erased the marker of the first.
* `ApprovedTwice.cfg`, `CachedIsRebuiltUnlessContinued`. A second global approval without a
  revoke in between starts the interval of approval anew (`tool_state.py:1019`–`1021`), so
  that a rebuild does not grant the calls declared under the first; a reduction
  that was kept up to date granted them. A process that restarts asks the user for a call
  that the running one is about to run. `tool_state.py:901` says "This is private and
  rebuildable: SQLite events remain the source of truth".

And where an assumption is needed:

* `AnsweredTwice.cfg`, `AnsweredOnce` with two processes. The second has chosen the
  turn (`runner.py:1655`) and takes the lease (1687) when the first has opened, ended
  and closed it. Nothing is read again under the lease, and the turn is opened a second time.
* `SlowTurn.cfg`, `NoHiddenWork` without `LeaseOutlastsTurn`. A thread is looked at while
  another process holds the lease and has not written yet; the watermark is set; the process
  dies and its lease lapses before the next turn of the loop reads the leases. No
  event tells, and the thread is skipped, with its work, until somebody writes to it.

A continuation retried by hand from a stale plan: with two processes a runner may
begin the turn of a message that was struck out between its plan and its lease
(`BeginLate`); `ContinuedIsNext` speaks of the log only. A runner that dies in the
delay of a retry takes the retry along, hence the exception in `NoSilentFailure`.

For tools: with two processes the plan of the second may start a call
the first already ran (it is not re-read after the lease is taken), so `RunOnce`
is claimed for one event loop only.

## 6. Not modelled

Text, formatting and rendering; providers and HTTP; tools, sandboxes and
containers; the optimizer; the autocomplete index. They keep no state that other
actors race on, or keep it outside the repository's code. The REPL daemon, the
largest of them, is process management behind a socket. What each module leaves
out is said with it in section 2, and the components planned next are listed
there.
