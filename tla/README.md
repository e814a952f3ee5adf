# pyclopse: models, model checking and proofs

pyclopse is an assistant service: messages from chat channels are answered by agents
that call language models, keep a session's history on disk, run scheduled jobs and
subagents, and remember facts in a vault. Everything runs as coroutines of one asyncio
event loop in one process. The parts that carry the program's own logic and can go
wrong by order and by failure are modelled here in TLA+, checked with TLC and proved
about with TLAPS:

| part | abstract promise | model | proofs |
|---|---|---|---|
| message queue of a session | `MessageService` | `SessionQueue` | `SessionQueueProofs` |
| job scheduler and jobs.yaml | `JobRegistry` | `JobScheduler` | `JobSchedulerProofs` |
| conversation: sessions, runners, histories | `ConversationLog` | `Conversation` | `ConversationProofs`, `ConversationLogProofs` |
| subagents: their tasks, messages and deliveries | `SubagentService` | `Subagents` | `SubagentsProofs` |
| vault: fact store, ingestion of a turn, lifecycle | | `Vault` | `VaultProofs` |
| model slots, run locks, throttling | | `ModelSlots` | `ModelSlotsProofs` |
| file watcher and configuration reload | `ChangeNotice` | `FileWatcher`, `ConfigReload` | `ConfigReloadProofs` |

`MC*.tla` hold the definitions that the `.cfg` files give to constants, nothing else.
`PROJECT.json` has the machine-readable side: components, runs, the source lines of
every definition, hazards, findings, theorems. Paths below are relative to
`src/pyclopse/`.

Contents: 1 inventory, 2 how to read the models, 3 SessionQueue, 4 JobScheduler,
5 Conversation, 6 Subagents, 7 Vault, 8 ModelSlots, 9 FileWatcher and ConfigReload,
10 proofs, 11 where the code and its documentation differ, 12 not modelled, 13 plan.

## 1. Inventory

### How the parts interact

A channel plugin creates a task per incoming message and calls
`Gateway.handle_message`. The gateway finds the agent's active session (one per agent,
named by the file `active_session`; all channels share it), tries slash commands, runs
hooks and calls `Agent.handle_message`. The agent takes the session's `AgentRunner` from
its cache or makes one, asks the vault for context and streams a turn; the runner
serializes turns with a lock and writes `history.json`. After the turn the agent starts
a task that feeds it to the vault. Jobs fire from the scheduler's polling loop, run
through an agent in sessions of their own, and deliver their results into the active
session's history. A model can call tools over HTTP (the MCP server calls the API, the
API calls the gateway and the scheduler), so a turn can add jobs and spawn subagents.
`Gateway.enqueue_message` puts a `SessionMessageQueue` in front of `handle_message`; no
channel plugin in this tree calls it, and the HTTP API and `/queue` configure it.

### The components

| component | state | operations | hard to get right | what makes it correct |
|---|---|---|---|---|
| session message queue `core/queue.py` | queue, drain task, current call, batch and its futures, mode, cap, drop policy | enqueue in 7 modes, drain loop, cancel, update_config; `/stop` | cancellation arriving around an await; an error or eviction for some of a batch; a mode changed during a call | every caller gets one answer; arrival order; one call at a time; a queue that is not empty has a drain task |
| job scheduler `jobs/` | jobs, running ids, next_run, jobs.yaml, watcher baseline | start, stop, tick, run, add, update, enable, disable, remove, reload, flush | two copies of the truth merged in both directions; objects replaced during a run; crash and restart | a saved job survives until deleted or done; nothing comes back; a moment is met once; an enabled job runs |
| conversation `core/session.py`, `core/agent.py`, `agents/runner.py` | pointer, sessions in memory and on disk, runner cache, each runner's app, lock and log, history files | message, /new, /reset, rollover, reaper, job result, restart | evicting a runner somebody uses; awaits between reading and writing the pointer; two coroutines opening one runner | one active session; a turn sees its own session; an answered exchange is on disk; everybody is answered |
| subagents `jobs/scheduler.py`, `core/gateway.py`, `api/routes/subagents.py` | ephemeral jobs, their tasks, queues of messages, cached results, report targets | spawn, kill, interrupt, queue_message, await, deliver | id freed while the old task unwinds; a message accepted after the last drain | one result per subagent, each accepted message seen or refused |
| model concurrency `core/concurrency.py`, `core/usage.py` | semaphores, waiting calls, usage percentages | acquire, throttle, reload | nested calls holding slots; threshold tested before the wait | at most the limit of calls; no call waits on itself |
| gateway pipeline `core/gateway.py` | dedup ids, last channel, endpoints, event queues, delivery tokens | handle_message, fan-out, publish, subscribe | bounded queues that drop; a task per message | a reply reaches the channel it was asked from |
| configuration reload and shutdown `core/gateway.py`, `config/` | configuration, limits, usage monitors, agents, runner caches | reload_config by watcher, command and API; stop | three reloads that overlap at the await for the old monitors | the latest configuration holds in all parts; an edit is loaded |
| file watcher `core/watcher.py` | baselines, pending changes | watch, acknowledge, poll, stop | a callback suspended while files go on changing; a write acknowledged over somebody else's | each foreign change is reported, once |
| vault ingestion `memory/vault/ingestion.py`, `bulk.py`, `cursor.py` | ids, cursor per session, turn counters | ingest a turn, ingest a file | two ingestions around awaited searches and model calls; two producers sharing a cursor | a fact extracted is kept; each message ingested once |
| vault store, lifecycle `store.py`, `lifecycle.py` | facts and their states, archive | write, supersede, reinforce, crystallize, compress, reap | several files per operation, event loop and lifecycle thread at once; crash in between | a fact keeps a file; a superseded one names one that exists; every fact settles |
| vault retrieval, links, extraction | indexes | search, relink, prompts | parsing what models say | ranking |
| file memory, todos | markdown sections, one yaml | read, append, reindex, CRUD | read-modify-write | last write wins per section |
| hooks, commands, HTTP API, MCP tools | registry of handlers; none | dispatch, translate | a handler that fails | isolation of failures |
| channels, providers, runners of other kinds, workflows | connections | adapt | outside services | adapters |
| router, compaction | none | none | not on a running path | |
| TUI, onboarding, service, secrets, security, skills, reflection, tracing, A2A | small and local | display, look-up | little | |

`PROJECT.json` lists all of them with their files and status.

### Where it is hard

The forty hazards in `PROJECT.json` give the line at which each bites. Their families:

* **A coroutine resumes into a changed world.** The reaper's list, a rollover's session,
  a run's Job object, the turn's runner: each is read before an await and used after.
* **Two copies of one truth.** Job objects and jobs.yaml; the session index and
  session.json; the runner's log and history.json; a fact's files and the copies the
  search has in memory; the file's configuration and what each part took from it.
* **Cancellation.** `/stop`, steering, interrupt, a killed subagent: a CancelledError
  comes out of whichever await the task is in, and the code's answer depends on which.
* **Crashes between two renames or two files.** Nothing is transactional.
* **A real thread.** The vault's lifecycle runs in one, beside the event loop.
* **Resources.** Caps, bounded event queues, model slots held across nested calls.

## 2. How to read the models

*Granularity.* One event loop runs everything, so the code between two points where a
coroutine really suspends is one action, whole: flushes, saves and index changes in that
stretch are part of it. A function declared `async` that never suspends (all of the
scheduler's operations) is one action. Where suspension depends on the state
(`cleanup()` awaits only for an initialized runner, an asyncio lock only when taken),
the action has both outcomes.

*Data.* Messages, jobs and exchanges are model values or numbers; a history is the set
of exchanges in it, times are classes ("today"/"before", "tick"/"moment"/"due"), a file
is the mapping it holds and whether it can be read.

*Ghosts.* Some variables only record what happened: `JobScheduler`'s `known`, `retired`,
`served`, `excused`, `paused`; `SessionQueue`'s `sent`; `Conversation`'s `disturbed` (and which
message an exchange is); `Subagents`' `killed`, `again`, `raised`, `told`, `fate`; `Vault`'s `lost`,
`forgotten`; `FileWatcher`'s `told`; `ConfigReload`'s `tried`, `unseen`, `overlapped`. No
guard of the modelled code reads them, except that an id is added and a message sent once.

*Bug variants.* Definitions named `Bug...` are slips put beside the definition they
distort. No behaviour uses them: put in the place of the original, each violates the
property `PROJECT.json` names with it, so every property notices a plausible error.

*Bounds.* Constants named `Max...` stop counters in guards (`changes`, `downs`, `edits`,
`crashes`, `writes`, `saves` count nothing the code has). They bound TLC's instances and
nothing else: the theorems hold for every value.

*Deadlock.* Every instance is bounded and ends when its messages, turns or changes are
used up, so the configurations switch the deadlock check off. What must not stop is said
by the liveness properties.

## 3. SessionQueue

`core/queue.py` 20-306 with `Gateway.enqueue_message` and `/stop`.

| model | code |
|---|---|
| `mode`, `cap`, `drop`, `UpdateConfig` | the three fields, replaced at any time by `/queue` |
| `Enqueue(m)` and its disjuncts | `enqueue()` by mode, `_apply_cap`, and `enqueue_message` up to its await |
| `drain` idle, asleep, awaiting | `_drain_task` none or done; in the debounce sleep; awaiting `_current_task` |
| `DrainTake`, `DrainBreak`, `DrainKilled`, `DrainResume`, `DrainReinsert`, `DrainCancelBatch` | the branches of one iteration of `_drain_loop` |
| `DispatchEnds` | the agent call ends or takes its cancellation |
| `drainCancel`, `currentCancel` | a CancelledError that was requested and not yet raised |
| `CallerReturns`, `CallerCancelled`, `Stop` | the finally clause of the caller, its cancellation, `/stop` |

`MessageService` says what a caller may rely on with no word of modes or sleeping:
accepted, perhaps displaced, served with others in one call at a time, answered once.
Refinement: `status <- future`, `serving <-` the batch while the drain task awaits its
call.

| run | question | shows |
|---|---|---|
| `queue_safety` | followup, collect, interrupt, steer, steer-backlog, caps 0 and 2, drop old and new, a reconfiguration to any of these and a `/stop` at any step | no message is lost (`PendingIsHeld`), arrival order (`InArrivalOrder`), no repeat without a cause (`RepeatsHaveCauses`), who leaves messages without a drain task (`DrainRunsUntilEmpty`), `ImplementsService`; 990 883 states |
| `queue_live` | all seven modes, all drop policies, caps 0 and 1, each kept throughout, a `/stop` at any step | `EventuallyAnswered`; 449 061 states |

*Repeats.* `sent[m]` counts the agent calls a message was given to. In the steering modes
a cancelled call is repeated, and `/stop` is such a cancellation even when the call has
already come to its result. `RepeatsHaveCauses` says that this is all: one arrival or one
`/stop` causes one repeat of a message at most, and nothing else any, whatever
reconfigurations come between a cancellation and its handling.

*What `/stop` breaks.* A `/stop` in the debounce sleep ends the drain task and leaves its
messages (section 11). `DrainRunsUntilEmpty` says that nothing else does, and
`EventuallyAnswered` that every caller who is not so left behind (`LeftBehind`) is
answered; both have the `/stop` in their instance.

*Bounds.* Three messages are one in flight, one queued and one arriving, which every
branch of the code distinguishes; a cap of 0 has the empty-list case, a cap of 1 is
reached by the second and a cap of 2 by the third. `queue` and `steer+backlog` take the
branches of `followup` and `steer`, and `summarize` differs from `old` by a label, so
`queue_safety` leaves them out and `queue_live` has them.

*Fairness.* The event loop runs every task that is ready (`Drain`, `CallerReturns`), and
a model call comes to an end because the providers' clients time out (`DispatchEnds`).
Nobody has to send, cancel or reconfigure.

*Left out.* `QueueManager` beyond the one queue it creates on first use (its `remove`
has no caller), the debounce's length, and the text that COLLECT concatenates.

## 4. JobScheduler

`jobs/scheduler.py`, the yaml helpers of `jobs/models.py`, and what `core/watcher.py`
does to them, for one agent (agents have files of their own).

| model | code |
|---|---|
| `mem`, `running` | `jobs`, `_running_jobs` |
| `disk`, `file` | the entries of jobs.yaml; absent, good, unreadable |
| `watched`, `dirty` | the watcher has an entry; its baseline differs from the file |
| `starting`, `stale` | tasks of `_run_job` that were created and have not begun; the Job object such a task was given when it is no longer the registered one |
| `detached` | the Job object a run's coroutine holds when it is not the registered one |
| `Recalc`, `Merge`, `Loaded`, `Save`, `Flush` | `_recalc_next_run`, `_merge_job_from_disk`, `load_agent_jobs`, `save_agent_jobs`, `_flush` |
| `Fire`, `RunNow`, `Spawn` | `_tick`, `run_job_now`, `spawn_subagent`: they create the task of a run |
| `BeginRun`, `FinishRun` | `_run_job` up to its await, with the object it was given; its end |
| `AddJob`, `EnableJob`, `DisableJob`, `UpdateJob`, `RemoveJob` | the API's operations, each with its flush |
| `Reload` | `reload_agent_jobs`, some time after a change that was not acknowledged |
| `Start`, `Shutdown`, `Crash` | `start()`, `stop()`, the end of the process |
| `TickComes`, `MomentComes` | time |
| `Edit...` | a user with an editor, in `EditedSpec` only |

`JobRegistry` is the promise "jobs survive restarts": registered once, until deleted or
done. A run of it begins only when that was asked for while it was registered (the task was
created then: a job deleted in the step between still runs, in the code and in the model),
at most once for each time it was asked for, and never beside itself. The refinement takes
`status` from memory while the process is up and from the file while it is down, which is
the point: every crash has to find them in agreement.

| run | question | shows |
|---|---|---|
| `jobs_service` | a recurring job and a one-shot that may fail, an API change, a restart or crash, anywhere | `ImplementsRegistry`, `EnabledJobFires`, `AtJobNotRepeated`; 250 343 states |
| `jobs_edits` | two edits of the file around a job with a moment, a subagent and a restart, unreadable file included | `NoResurrection`, `FileKeepsJobs`; 386 143 states |

*Bounds.* Two jobs: one whose run is under way and one that is changed, added or removed
meanwhile; no operation looks at more than one job and "the others". One restart and one
change put each before, during and after a run; a second edit can undo the first before
it is loaded. `Added` says as what a job may be added: a one-shot enabled for a moment, the
other enabled or not as a recurring one; an update may give either the other schedule.
`jobs_edits` has no changes through the API, to stay small; the theorems have everything at
once. The retirement of a one-shot writes the file without acknowledging it, and the reload
that follows switches a job disabled through the API on again and leaves it without a
next_run (section 11): `EnabledJobFires` therefore leaves out a job that the API disabled
last or rescheduled. `AtJobNotRepeated` speaks of the time before the first edit of the
file, and leaves out a job whose run or task lost its object to a reload.

*Fairness.* The polling loop finds a due job (`Fire`), the event loop starts a created task
(`BeginRun`), a run ends because every execution
has a timeout (`FinishRun`), time passes (`TickComes`). Reloads, restarts and API calls
are not obliged to happen.

*Left out.* The arithmetic of cron expressions, run logs, writes that fail, single bad
entries in the yaml (the model's file is whole or unreadable), kills and message queues
of subagents (`Subagents` has those). Job names are a constant: renaming a job is not
modelled. Two tasks created for one job before the first has begun are one here; in the
code the second finds the job running, unless the first ended without ever suspending.

## 5. Conversation

The path of a message through `Gateway.handle_message`, `SessionManager`, `Agent` and
`AgentRunner`, with the commands and background tasks that touch the same state.

| model | code |
|---|---|
| `pointer`, `created`, `saved`, `index` | `active_session`, session ids, session.json, `SessionManager.sessions` |
| `hist`, `archived` | history.json, `archived/` |
| `cache`, `open`, `loaded`, `log`, `line` | `_session_runners`, runners with `_app`, with `_history_loaded`, the app's message_history, `_run_lock` |
| `phase`, `session`, `runner`, `closes` | where a coroutine is suspended and what its local variables hold |
| `orphan` | a stream still running on an app that was closed or replaced |
| `detached` | a message holds a Session object that is no longer indexed |
| `ArriveFirst`, `ArriveResume`, `ArriveStale`, `RolledOver` | `get_active_session`, `_archive_and_rollover` up to and after its await |
| `TakeRunner`, `StartRun`, `Opened`, `GetLock`, `Answer` | `_get_session_runner`, `run_stream`, `initialize`, the lock, `_save_history` and `touch` |
| `Fail`, `FailDeliver`, `Evicted` | the except branches, the eviction they await |
| `Command`, `Replaced` | /new and /reset around their eviction |
| `Deliver` | the delivery of a job's result, through the runner or straight to the file |
| `Sweep`, `Reap`, `Reaped` | the reaper |
| `ForgetRunners` | `reload_config` clears the cache of an agent whose settings changed |
| `Midnight`, `Restart`, `CrashInSave` | time and the end of the process |

`disturbed` marks sessions in which somebody's runner was evicted or forgotten under them,
two coroutines opened a runner at once, or the process died between the two renames of a
save. Two properties hold outside those sessions; section 11 shows that the exception is
needed.

`ConversationLog` is what an agent promises about its conversations, with no word on
runners, locks, files or coroutines: one is active and gives way only to a later one that
begins empty; an answered exchange is kept once, in one conversation, and stays. It has
one way out, a conversation that is broken, after which nothing is promised about it.
Refinement: `active <- pointer`, `broken <- disturbed`, and `kept <-` what history.json and
`archived/` hold together for a session that is not disturbed, so that an archive which
drops, doubles or moves an exchange is no step of the promise, nor is a pointer that
returns to a session it left.

| run | question | shows |
|---|---|---|
| `conv_safety` | two messages and a third of any kind over a midnight, a configuration reload and a restart or crash | `AnsweredIsKept`, `OneRunnerPerSession`, `RunLock`, `FreshContext`, `ImplementsLog`; 1 308 867 states up to symmetry |
| `conv_live` | two messages with /reset or a job's result over a midnight, each may fail | `EventuallyAnswered`; 173 848 states |

*Bounds.* Three messages are enough for one to hold the lock, one to wait and one to
evict, and for two to roll over at once while a third works. Four sessions are all that
three messages can open: one each on arrival, and one more for a command that replaces
the session it arrived in. One midnight makes sessions stale; a second would
make them stale again in the same way, and day differences beyond one are not told apart
by the code. One reload makes two runners of one session; a second would make a third.
The two users' messages are interchangeable, so `conv_safety` uses symmetry; `conv_live`
does not, as symmetry is unsound for liveness. It has no restarts, since a restart answers
nobody and ends the waiting, and no reloads, to stay small: a forgotten runner goes on
serving who has it.

*Fairness.* `WF_vars(\E m \in Msg : Proceed(m))`: the event loop runs some coroutine
that can go on. Each step brings one of finitely many messages nearer to its
end, so weak fairness of the disjunction suffices; that initialize(), cleanup() and the
stream end is the providers' doing (timeouts). Arrivals, failures, sweeps, midnight are
not obliged to happen.

*Left out.* Fallback models (a turn that retries with another runner after its eviction),
model slots (`ModelSlots` has them), `max_sessions` (its eviction tests `is_active`, which nothing sets to False), sessions of the job channel, an unreadable or dangling
pointer, hooks, the content of a history, archive names (two archives in one second
share a name), cancellation while a message is in the hooks or rolls a session over, and the
streamed call of a turn that was cancelled. The call is a task of its own
(`send_task`, agents/runner.py:1236), which the generator's finally clause (1252) leaves
running: it goes on after the run lock was given back, and may still append to the
message_history of its app. `RunLock` is therefore about turns, not about calls. The
stray call can reach no other message outside `disturbed` sessions: `Fail` takes the session's
cached runner away, and whoever still uses that runner makes the session disturbed.

## 6. Subagents

Jobs that an agent starts in the background: `jobs/scheduler.py` 960-1120 (spawn, kill,
interrupt, queue_message, `_run_job`), the executor `_run_subagent_job` and the delivery
in `core/gateway.py`, the routes of `api/routes/subagents.py`.

| model | code |
|---|---|
| `registered`, `status` | `JobScheduler.jobs`, `Job.status` |
| `running`, `handle` | `_running_jobs`, `_running_tasks` |
| `queue`, `results` | `_subagent_message_queue`, the keys of `_subagent_results` |
| `parent`, `fallback` | `run.report_to_session`, `run.report_to_agent` is set |
| `job`, `phase`, `batch`, `answer` | an asyncio task of `_run_job`: whose it is, where it is suspended, its local variables |
| `chat`, `sessions` | what the SessionManager's index has of the spawners |
| `Spawn`, `RunNow`, `Kill`, `Interrupt`, `Send`, `CloseChat` | the routes, `run_job_now`, and the end of the spawning session |
| `Begin`, `Open`, `OpenFails` | the start of `_run_job`, the opening of the job's session and runner |
| `TurnEnds`, `TurnRaises`, `FollowUpEnds`, `FollowUpRaises` | the model answers the task, or a message popped from the queue |
| `Deliver`, `DeliveryRaises` | `_deliver_subagent_result`, which may summarize in the spawner's session |
| `Complete`, `Fail`, `Timeout`, `TimedOut`, `Unwind` | the ends of `_run_job`: result, exception, `wait_for`'s clock, the unwinding after a cancellation, each with its finally clauses |

`SubagentService` is what those who start subagents are promised: a subagent waits, runs
once and ends as completed, as failed or, at any moment before, as killed; an interrupt is
a kill and a new subagent in one step; it tells something only while it runs. About one
that was run by hand nothing more is promised. Refinement: `state <- Standing`, read from
the tables as a caller could (killed, registered, with a result, running), and `told <-`
what was delivered. That a kill is final and a subagent has one outcome
(`KilledIsQuiet`, `OneOutcome`) are parts of it.

| run | question | shows |
|---|---|---|
| `subagents_safety` | two subagents, of which one may start the other, and two messages; killed, interrupted, run by hand or timed out anywhere | `RunningIsTrue`, `TakenIsServed`, `LastAnswerTold`, `ImplementsService`, `RunsEnd`; 259 320 states |
| `subagents_answers` | one subagent, one message | `EveryAnswerTold` fails: section 11 |

*Bounds.* Two subagents and two tasks are a spawner with its child, a subagent and the one
that replaces it after an interrupt, and a subagent run by hand during its own run. Two
messages are one in the batch and one still queued.

*Fairness.* The event loop starts a created task and lets a cancelled one unwind; the
clock of `wait_for` reaches every run (`Timeout`), and its clean-up returns (`TimedOut`).
Models need never answer: `RunsEnd` rests on the time-out alone.

*Left out.* Run logs, concurrency limits, the text that is summarized, and
`subagent_await`, which fails before it does anything. jobs.yaml: a flush leaves subagents
out, but `remove_job` does not (section 11). The jobs API with the id of a subagent
(api/routes/jobs.py 416-477, jobs/scheduler.py 866-894): deleting one unregisters it and
lets its run go on, which then delivers and ends as usual with no entry left to remove;
disabling, enabling and updating change its status or its object while it runs. The
promises of `SubagentService` are for subagents handled through their own routes. And, as in
section 5, the streamed call of a run that was killed or timed out, which goes on.

## 7. Vault

`memory/vault/store.py`, `ingestion.py` and `lifecycle.py`, with /forget and the copies
that the keyword search keeps. The lifecycle is the one part of the program that runs in
a thread; its functions and those of the event loop use the same files without a lock.
So a function of the store is not one action here but one per access to a file, done by
the actor (`"loop"` or `"thread"`) that called it.

| model | code |
|---|---|
| `facts`, `archive` | the files of the two directories: state, reinforcements, successor, tier |
| `op` | the call of a store function under way, for each actor, and its local copy |
| `Access`: `ReadMissing`, `Read`, `Unlink`, `Write`, `WriteNew` | the accesses of `archive`, `supersede`, `update_fact` and those built on them |
| `index`, `booted`, `UpdateIndex`, `Candidates` | the search's copies, its first load, and what a search can find |
| `pc`, `me`, `shown`, `left`, `gone`, `item`, `copy`, `resume` | where an ingestion is suspended and its local variables |
| `Ask`, `Answer...` | the search before the extraction, and the four actions it may decide on |
| `Dedup`, `ReinforceDuplicate`, `Create`, `AutoLink`, `Contradict`, `Reweave` | the steps of `_create`, `_auto_link`, `_reweave` between their awaits |
| `SweepBegins`, `Judge`, `PhaseEnds`, `Verdict` | the four passes of `LifecycleManager` over the list each took |
| `Forget`, `Tick`, `Crash`, `Boot` | /forget, time, the end of the process and what is left of a call then |

| run | question | shows |
|---|---|---|
| `vault_ingestions` | two ingestions into an empty vault beside the lifecycle, a crash between any two accesses | `NothingVanishes`, `SuccessorExists`; 508 725 states |
| `vault_lifecycle` | two old facts and an ingestion that supersedes, retires or reinforces them while the user forgets one | `FactSettles`; 270 471 states |

*Bounds.* Two ingestions that write a fact each are all that two coroutines need to find,
reinforce or supersede each other's; three facts are a new one with two older. One
conflict per ingestion in the first run, two in the second, one crash, one /forget. The
ages are 0 and the clock goes to 1, so that a fact is young or old; reinforcements count
to 2, at which they matter. Two ingestions over three facts exceed four million states
and show nothing a pair of these does not.

*Fairness.* The thread's passes go on (`Sweep`), and a call of the store that has begun
goes on (`Access`): no actor waits for another there. Ingestions need not go on.

*Left out.* Texts: claims, bodies, links, confidence, prompts, what a search finds among
what it can find. Cursors (section 12). A crash of the machine, as opposed to the process.

## 8. ModelSlots

`core/concurrency.py`, the threshold of `core/usage.py`, the runners of
`core/agent.py` with their `_run_lock`, and the tool `sessions_send`, by which a turn that
holds its lock and its slot asks another session, or its own, and waits.

| model | code |
|---|---|
| `cache`, `runner` | `_session_runners`, and the runner a turn's coroutine holds; a runner is named by the turn that made it |
| `line` | `_run_lock` of a runner: holder and waiters in order |
| `free`, `queue` | the semaphores of each manager and their waiters |
| `config`, `current`, `manager` | the managers, `_manager`, and the one a turn found |
| `asked` | the turn that is to answer a question asked from inside a call |
| `stray` | turns that ended while their streamed call (`send_task`) was under way |
| `high` | the use last polled is at the threshold for jobs |
| `Start`, `Prepared`, `PrepareFails` | a turn finds or makes its runner; after the vault's context and `initialize()` it comes to the lock; `initialize()` raises |
| `Enter`, `Throttled` | it gets the lock, passes the threshold and joins the semaphore; is refused |
| `Ask`, `Answered`, `HttpTimeout` | the tool's HTTP request, its answer, its 60 seconds |
| `Return`, `CallRaises`, `Cancel` | the call ends; it raises, or its consumer does; the turn is cancelled wherever it waits. The last two evict the session's cached runner |
| `Evict`, `StrayEnds` | /reset, the reaper, a reload of the agent; the provider ends a call nobody awaits |
| `Reload`, `Poll` | the manager replaced by a configuration with other limits; a poll of use |

`Agent.handle_message` evicts the runner its session has in the cache on every exception
and cancellation, which need not be the failed turn's own. Turns that wait for the evicted
runner's lock stay with it, and the next turn makes a runner with a lock of its own, so
turns of one session can overlap. `OneTurnAtATime` says that this is the only way:
two turns never share a runner past its lock, and when two of a session overlap, the one with
the earlier runner has lost it from the cache.

| run | question | shows |
|---|---|---|
| `slots_turns` | three turns of a chat and a job that ask each other and themselves, fail, are cancelled anywhere, lose their runners and see the limits replaced | `SlotsConserved`, `NoIdleSlot`, `OneTurnAtATime`, `EveryTurnEnds`; 196 574 states |

*Bounds.* Three turns are a cycle (a turn asks a session whose turn asks the first one's
session), one holder with two waiters, and a holder, a waiter with the evicted runner and
a newcomer with the next. Two managers are the turns of the old one beside
those of the new. The two configurations give the model, which both sessions spell with its
provider, a limit of one under its base name, or the default of two. The hand-over of asyncio's lock and semaphore to the first waiter is one step
(Python 3.13 and later wake waiters in order and let none overtake).

*Fairness.* The loop runs a turn that can go on, and `initialize()` returns or raises; the
client of the tool has a time-out of 60 s (`tools/server.py` 808); a call of a model
returns or raises. `EveryTurnEnds` needs
the time-out: without it two turns that ask each other wait for ever.

*Left out.* `configure()`, which has no caller; `inject_turns`, which takes the lock
without a slot; the retry of a failed turn with fallback models and runners of their own;
what a stray call still does (its tools may start turns, and it writes to an app whose
runner is being cleaned up); the moment between an exception in a channel's callback and
the closing of the stream's generator, which is one step here. `SlotsConserved` is about
slots: a stray call has given its slot back, section 11.

## 9. FileWatcher and ConfigReload

`core/watcher.py`; `Gateway.reload_config` with its callers (the watcher's callback,
`/reload` and `/restart`, the API), the usage monitors it stops and starts, and what
`stop()` does to a reload in progress. `ConfigReload` extends `FileWatcher` and fills in
what its callbacks do; the callback of a jobs file does not suspend and is in
`JobScheduler`.

| model | code |
|---|---|
| `baseline`, `pending`, `snap` | `_watches`, `_pending`, the list a scan walks |
| `loop`, `calling`, `closing` | where the polling coroutine is, the file whose callback is suspended, `stop()` was called |
| `Wake`, `Unchanged`, `Suspect`, `Wait`, `Fire`, `Returned`, `ScanEnds`, `StopWatcher` | `_loop` and `_scan`, branch by branch; `stop` |
| `Write`, `Save` | another program, and a save of the service followed by `acknowledge` |
| `config`, `limits`, `monitors`, `usage`, `polling`, `agents` | `_config`, the managers made from it, the registries whose tasks poll, the agents' configuration |
| `stage`, `old`, `new`, `registry` | where a reload is suspended and what it compares |
| `Load` (`SameProviders`, `OtherProviders`), `CannotLoad` | `reload_config` up to its first suspension |
| `Stopped`, `Started` | the awaited stop of the old monitors; start of the new ones and the rest |
| `Ask`, `Finished`; `Notified`, `Acknowledges` | a command's reload; the watcher's, with the acknowledgement after it |
| `JobsChange`, `Shutdown` | the callback of a jobs file; `stop()` |

`ChangeNotice` is the watcher's promise: a callback is called only when the file has
changed since it was last told or acknowledged, and once per change; what is acknowledged
or undone is not told.

| run | question | shows |
|---|---|---|
| `config_edits` | the two files are written by others and by the service while three reloads run into each other and the watcher is stopped | `Applied`, `ImplementsNotice`, `EditsAreLoaded`; 471 200 states |

*Bounds.* A version of config.yaml can change providers, agents, or be unreadable; three
modification times are the first version and two edits, of which the second may come
during the reload of the first. Two commands and the watcher are three reloads, so that a
reload is overtaken by one that began during it and by one that began before. Modification
times may go back: the restored file of a backup has its old one.

*Fairness.* The loop runs the scan; a monitor's request has a time-out of ten seconds, so
the watcher's reload goes on. Nobody has to write, and a command's reload need not end.

*Left out.* CORS origins and the log level (one assignment each), YAML and its validation
(a version loads or does not), a write between the stat and the read of one file, two
writes within one tick of the file system's clock, cancellation of a command's reload, and
`watch`/`unwatch` after the start (no caller). A write by another program between load
and acknowledge (core/gateway.py 1282-1284) of a reload that does not suspend, which are
one step here: like an edit during a suspended reload it would be acknowledged unloaded.
An agent that the new configuration names and the manager does not have (2653), and one
whose new configuration is refused (2684): both keep what they had, and `agents` is one
value for all.

## 10. Proofs

All theorems hold for every value of the constants, from the named assumption of each
module (`SQAssumption`, `JSAssumption`, `ConvAssumption`, `SubagentsAssumption`,
`VaultAssumption`, `ModelSlotsAssumption`, `WatcherAssumption` with `ReloadAssumption`:
bounds are naturals, subsets are subsets, `None` is something else). "Run" is the run that
checks the same formula on an instance.

| theorem | statement | run |
|---|---|---|
| `SessionQueueProofs!TypeCorrect` | every variable in its range | queue_safety |
| `ArrivalOrder` | in flight followed by queue is increasing | queue_safety |
| `NoMessageLost` | who waits has its message in the queue or in flight | queue_safety |
| `QueueImplementsService` | `Spec => ImplementsService` | queue_safety |
| `DrainEmptiesQueue` | only a `/stop` leaves messages without a drain task | queue_safety |
| `NoCauselessRepeat` | one repeat at most for each later arrival and each `/stop` | queue_safety |
| `JobSchedulerProofs!TypeCorrect` | types, edits included | jobs_service |
| `GoneForGood` | deleted or done is never back, edits included | jobs_edits |
| `SchedulerImplementsRegistry` | `DistinctNames` implies `Spec => ImplementsRegistry` | jobs_service |
| `WritesKeepJobs` | `DistinctNames` implies that no write drops a job | jobs_edits |
| `AtJobsRest` | before the first edit of the file: a job that ran after its moment is not started again, `excused` ones apart | jobs_service |
| `RecurringStaysScheduled` | without one-shots, or without changes by the API, an enabled recurring job has a next_run | |
| `ConversationProofs!TypeCorrect` | types; who works knows its session, who is being answered its runner | conv_safety |
| `ContextIsFresh` | a model sees its session's exchanges only | conv_safety |
| `PointerAdvances` | the pointer only moves to newer sessions | |
| `LockIsHeld` | the line of a run lock is those who want it, the first alone is in its turn | conv_safety |
| `ConversationImplementsLog` | `Spec => ImplementsLog` | conv_safety |
| `OneRunnerServes`, `AnswersAreKept` | undisturbed sessions share one runner and keep their exchanges | conv_safety |
| `SubagentsProofs!TypeCorrect` | types | subagents_safety |
| `RunningIsRight` | the running set and the handles are true | subagents_safety |
| `OutcomeIsOne` | registered, killed or answered, and one of them | |
| `KilledStaysQuiet` | nothing is delivered after a kill | |
| `StatusIsRight` | status, tables and handle tell the same stage of a run | |
| `RunningCanBeKilled` | who runs, and was not run by hand, has a handle to cancel | |
| `SubagentsImplementService` | `Spec => ImplementsService` | subagents_safety |
| `TakenIsKept` | a message taken from the queue is in a run that goes on | subagents_safety |
| `LastIsTold` | the last answer reaches a spawner who is there | subagents_safety |
| `VaultProofs!TypeCorrect` | types, and each file in the directory of its state | vault_ingestions |
| `FactsRemain` | a fact keeps a file, but for a crash inside a move | vault_ingestions |
| `SuccessorWritten` | a superseded fact names one that was written | vault_ingestions |
| `ModelSlotsProofs!TypeCorrect` | types | slots_turns |
| `TurnsOverlapOnlyAfterEviction` | one turn past a runner's lock; overlapping turns of a session have an evicted runner among them | slots_turns |
| `SlotsAreKept` | free slots and holders add up to the limit | slots_turns |
| `NoSlotIsIdle` | nobody waits beside a free slot | slots_turns |
| `NobodyIsStuck` | run locks and semaphores form no circle | |
| `LimitHolds` | without edited limits and second names, the calls that turns wait for are within the limit | |
| `ConfigReloadProofs!TypeCorrect` | types; the loop is inside the callback of config.yaml exactly while the watcher's reload is under way | config_edits |
| `WatcherImplementsNotice` | `Spec => ImplementsNotice` | config_edits |
| `LoadedIsApplied` | at rest the loaded configuration holds everywhere | config_edits |
| `EditsAreNoticed` | what was not tried is still a change for the watcher, or marked as taken for known | |

Obligations: SessionQueue 1 106, JobScheduler 2 253, Conversation 2 827 and 498 for its log,
Subagents 3 062, Vault 1 224, ModelSlots 1 730, ConfigReload 783.

The theorems without a run are about formulas of the modules that TLC has found to hold on
the same instances, or under the theorem's condition; the properties of the runs are
spent on others.

**Queue.** `InArrivalOrder` alone is not inductive: a re-insertion puts `inflight` before
`queue`, so `OrderInv` also says that what is in flight is older than what is queued,
part of the batch and not in the queue, and that nothing was seen before it arrived.
`PendingIsHeld` needs that outside of a call there is nothing in flight and that what is
held has not been answered by a call (`HeldInv`). Both are in `SessionQueue.tla`, and the
refinement takes each action to its abstract counterpart or to a stutter. For
`RepeatsHaveCauses` the causes are counted down: a message that is queued, or whose call
is about to be taken as cancelled, has one left that no dispatch has used (`CauseInv`).

**Jobs.** `IInv` adds to the type and `NoResurrection` that a run without a detached
object has a registered one (else `Reschedule` would write back a deleted job), that a
task which has not begun has an object of its own once it has no registered one
(`ObjectsKept`), and that ids in use are known. `RegistryInv` says memory and file hold the same saved jobs; it is
false with edits and with name clashes, hence `Spec` and `DistinctNames` in that theorem.
Every operation's effect on the file goes through one lemma about `Flush`. `AtInv`, while
nobody edits, has four parts: the file is readable if it has jobs (`Sound`); served jobs
had their moment (`Timely`); a served job outside `excused` is at rest in memory and in
the file; and both hold the same schedule for it (`Quiet`). Agreement is what makes it
inductive, as every flush and reload mixes the two. `SchedInv` is of that kind too: a
reload takes enabled and schedule from the file and next_run from memory, so a job stays
scheduled where the two are `Alike` at every reload. The condition of
`RecurringStaysScheduled` is needed: a job is disabled through the API, a one-shot retires
and leaves the watcher a change, and the reload enables the job again with no next_run
(section 11).

**Conversation.** `TypeInv` adds that a working coroutine has a session and runner.
`OwnInv` says every file, cache entry, runner and log holds things of one session;
it stays true because a message with a runner never changes its session (`FixedStays`).
`ServeInv` is the long one: in undisturbed sessions there is one opener, a sender's
runner is open and loaded and not orphaned, and a cached runner that has read the file
has all of it in its log, so that `_save_history` overwriting the file drops nothing. Each
action has a lemma per invariant; a frame lemma (`ServeKept`) covers those that only let
go of a runner. `RunLock` is inductive with the types and with `Single`: nobody is in a
line twice, so that who leaves it from the middle has left it.

`ConversationLogProofs` takes every step to `Begin`, `Keep`, `Break` or a stutter. With
`LogInv` (only what was answered is in logs and files, and nobody works on a session later
than the active one) and `ServeInv`, the files of an undisturbed session hold exactly the
exchanges answered in it (`KeptIs`), whatever its runners' logs went through. So a step is
sorted by what it does to the answered messages: a turn answers one (`TurnImplements`), all
others none (`QuietImplements`).

**Subagents.** Tasks and ids are given out in order (`Numbered`), a subagent not run by
hand has one task (`Single`), a task that was created or is in its body is the one the
handle names (`Handled`), and a handle that is kept belongs to a registered subagent
(`Owned`). An interrupt is a kill and a spawn in one step, so it has a lemma
over the state between them. For messages, `Sorted` and `Mail` say that a message is in
one place: unsent, in one queue, in one batch, or done with. For the last answer
`Parents` says that a subagent's spawner has passed its own opening, so that its session
is in the index for as long as the task is in its body. The refinement reads a subagent's
state from six tables, which must change together: `Marks` says that they do
(`Job.status` among them, which the code sets apart from the running set), and a lemma per
action says for the subagent it concerns how it moves, and that the others stand
(`SameStands`).

**Vault.** A call of the store works on a copy, so the invariant says what a
call holds between two of its accesses (`OpOK`): from the first on a record to write, and
for a supersession the successor. `Safe` is the set of facts with a file or in the hands of
a move between the two accesses that remove one file and write the other (`Caught`); `KeptNext` shows that no step takes a fact out of it, with one lemma for
steps that touch no file (`QuietKeeps`) and one for an access (`AccessKeeps`).
`SuccessorExists` follows from `Sequel`: successors recorded in a file, pending in a call,
or written in a copy are in `Safe`, and an ingestion that supersedes has created its own
fact before (`MeOK`, `Later`).

**ModelSlots.** `Order`: the runner cached for a session is the last it had (`Cached`), a
turn that has come to a lock is in the line of its own runner and in no other, once, and
only the first is past the lock. `Slots`: a turn that
waits at a semaphore is in the queue of the manager it found, and free slots and holders
add up. A slot that is given back goes to the first waiter or is free again; the change
of the cardinality in each case comes from FiniteSetTheorems. `NobodyStuck`
follows from both: behind a turn is the first of its line, and behind one that waits for a
slot a holder, for free slots and holders add up to a limit that is not zero.

**ConfigReload.** `Flow`: a callback is suspended exactly while the watcher's reload is
under way. `Fresh`: where a change is pending, the copy of the baselines that a scan still
has to look at agrees with the baseline of now. With these a call of a callback is a step of `ChangeNotice`.
`Newest` keeps the newest registry polling across overlapping reloads; `Alone` and
`Remains` say what a reload that overlapped with none still has to apply. `Noticed` fixes
what the ghost `unseen` means: the version was not tried and the baseline is its own.

**Model-checked only.** Liveness, which is beyond the prover: `EventuallyAnswered` of the
queue and of the conversation, `EnabledJobFires`, `RunsEnd`, `FactSettles`,
`EveryTurnEnds`, `EditsAreLoaded`. Every other property of a passing run is also a theorem.
What some of these rest on is proved as an invariant: a queue has its
drain task but for a `/stop` (`DrainEmptiesQueue`), an enabled job its next_run (`RecurringStaysScheduled`),
a waiting message is in the line of a lock (`LockIsHeld`), locks and slots form no circle
(`NobodyIsStuck`), and an edit that was not loaded is still a change (`EditsAreNoticed`).
What is left to TLC is that the fair steps are taken. Not proved either: `AtJobRunsOnce`,
`DisabledStaysQuiet` and the other formulas section 11 shows to be false.

## 11. Where the code and its documentation differ

One run reaches a state the code's own words exclude: in `subagents_answers` a message
arrives during the subagent's turn, and the loop over queued messages assigns its answer
to the variable that holds the answer to the task (core/gateway.py:1046). What was asked
for is never delivered, the answer to the message is delivered twice, against "Result will
be delivered to your session when complete" (tools/server.py:885).

The following were met while modelling. Where a formula is named, the module defines it
and TLC refutes it on a small instance; it has no run here because the project keeps its
runs for what holds.

*Queue.* `/stop` during the debounce sleep kills the drain task (core/queue.py:201, the
sleep is outside the try); its messages wait until a later arrival starts another, against
"Runs until the queue is empty, then exits" (192). `/stop` misses a
running call when another caller of the session has returned and popped the shared
registration (core/gateway.py:2009). In the steering modes `/stop` repeats the call it
cancelled (core/queue.py:269), also when it comes after the call's result and before the
drain task has taken it: the message is then answered by a second call. The mode read
after the await decides, so a change of mode between cancellation and its handling cancels
a batch whose futures were to "remain pending" (265-267), against "Changes take effect on
the next drain iteration" (295). The label of SUMMARIZE is consumed in COLLECT
only (221).

*Jobs.* A job that is deleted between the creation of its task (jobs/scheduler.py:254, 954)
and the task's beginning runs all the same, and so does one that was disabled there.
`remove_job` writes the file without acknowledging it, the watcher reloads, the
reload replaces Job objects (jobs/scheduler.py:763); a run that ends reschedules the object
it holds, and the registered one stays due and runs again (`AtJobRunsOnce`).
`disable_job` changes memory and flushes through a merge that takes `enabled` from the
file (937, 714-735), so after a restart the job runs (`DisabledStaysQuiet`), and after a
reload it is enabled without a next_run. A schedule changed through the API is merged away
in the same way while next_run keeps what the new schedule gave. A command job added
without an agent is in no file (core/gateway.py:1482). Jobs of one name overwrite each
other in the mapping (jobs/models.py:604). `remove_job` writes subagents into the file
(jobs/scheduler.py:886). A jobs.yaml that did not exist at start is not watched
(core/gateway.py:1294). A flush acknowledges an edit it merged, so memory does not load it
until something else does (jobs/scheduler.py:733). An unreadable file disables all jobs of
the agent (751). A job enabled by hand keeps an empty next_run (683).

*Conversation.* `_save_history` returns without writing when the runner has no `_app`
(agents/runner.py:636), which is so when someone evicted the runner in mid-turn
(`AnsweredIsSaved`). Two messages that find the same stale session both roll it over
(core/session.py:468), each into a session of its own (`OneSessionPerDay`). A runner that
was closed and opened again by a message still holding it starts with an empty log and,
because `_history_loaded` is still set, saves that over the file (agents/runner.py:1367).
Two messages that both find no `_app` initialize twice (1170). A crash between the two
renames of a save leaves the history in history_previous.json, which nothing reads (676).
A message waiting for the lock of a closed runner fails.

*Subagents.* A message sent after the executor drained the queue is accepted ("[OK]
Message queued") and discarded at the end of the run (jobs/scheduler.py:1101). The
fallback to the spawning agent's active session is not reached once the spawner's job
session left the index (core/gateway.py:1938, `JobResultTold`), and an interrupt drops
`report_to_agent`. A subagent run by hand during its run loses its handle and can no
longer be killed (`RunningIsKillable`). A docstring (core/gateway.py:1917) says the result
is cached before it is delivered; it is cached after. A kill or time-out during a
delivery that summarizes cancels the spawner's own turn. `subagent_await` calls a
function that does not exist (tools/server.py:914), so the results cached for it are never
taken.

*Vault.* The lifecycle's thread and the event loop write the same files: a pass that read a
fact before it was superseded writes it back to facts/ beside its archived copy, and a
reinforcement overwrites a crystallization. Two ingestions can each supersede the other's
fact. `retire` keeps the active copy (ingestion.py:628-639; `OneCopy`, against
docs/VAULT.md:121). Auto-links write a copy read before an awaited search over later
reinforcements (476). When the fact that an extraction reinforces or supersedes is in a
move at that moment, the new one is dropped. A near duplicate found in a stale copy of the
search reinforces the archived fact. /forget leaves the search's copy, so the fact is
still found until the next start (core/commands.py:1811, `ForgottenNotRecalled`, against
1778-1784). Facts crystallize at 7 days, so they are never 30 days old and provisional
unless the service was off. A hypothesis with two reinforcements changes between the two
states at each pass (lifecycle.py:127).

*Slots.* "at most 3 of those 5 can be in the middle of an LLM call simultaneously"
(core/concurrency.py:8-12, `CallsWithinLimit`) fails in three ways. "minimax/X" and "X" are
two semaphores with one limit (118). After a reload the turns of the old manager run beside
those of the new. And a streamed call is a task (`send_task`, agents/runner.py:1236) that
the generator's finally clause (1252) does not cancel: after /stop, a steering message or a
failing channel the call goes on when its turn has given back lock and slot; `LimitHolds`
says that without the first two nothing else exceeds a limit. A failed or cancelled turn
evicts the runner its session has in the cache (core/agent.py:689-697), also one that is not
its own, so turns that wait for the old lock run beside later ones with a new lock, against
"serialising concurrent calls" (agents/runner.py:1154). The threshold of use is tested
before the wait for
a slot (150), and the registry made by a reload throttles nothing until it has polled.

*Configuration.* The acknowledgement after a reload also covers an edit made during it,
which is then not loaded (core/gateway.py:1283; ghost `unseen`). The terminal editor
acknowledges its own save, which is never loaded (tui/dashboard.py:722). Reloads that overlap can
leave older monitors current, poll loops that nobody stops, or older agents (ghost
`overlapped`). `UsageMonitor.stop` swallows a cancellation that was meant for the
watcher's loop (core/usage.py:107-113), so `stop()` called while a reload waits there waits
for ever. A reload that is cut off leaves agents that a later comparison takes for
updated. `reload_config` forgets all runners without closing them (core/gateway.py:2679): a
turn in progress goes on with its own and saves over what a new runner has saved since.

*Elsewhere.* Telegram updates are acknowledged before they are handled
(channels/telegram_plugin.py:274). The turn counter and the bulk ingestor move one cursor
(core/agent.py:1046), so "already-processed content is never re-sent" is not so.
`cursor.get_unprocessed_sessions` and `run_catch_up` have no caller; `CompactionManager` is
never constructed and `MessageRouter` never consulted.

## 12. Not modelled

The models map about four thousand of the repository's fifty thousand implementation
lines: the parts whose state several actors change. Most of the rest is text, translation
and display:

* Presentation: the terminal interface, onboarding, the service and command line (a
  quarter of all lines) hold nothing that outlives a screen but files they write whole.
* Translation: the MCP tools server and the HTTP API turn a request into one call of
  another part; the calls that change shared state are actions of its module. About fifty
  slash commands display or set one field; /new, /reset, /stop, /queue, /forget, /reload
  are modelled.
* Adapters: channels, providers, runners of other kinds, tracing, A2A. What they share
  with control, a task per message, is the arrival of messages in `Conversation`.
* Text: extraction prompts and parsing, ranking, links, skills, reflection.
* Look-ups and single critical sections: secrets, approvals, policy, todos (a dictionary
  under a lock, written whole), file memory (read-modify-write of two small files).
* Stateless composition (workflows) and the two parts no running path reaches (router,
  compaction).

Of the parts that do have control, these are left out: the cursors of the vault (what is
ingested next), the gateway's event bus and fan-out (bounded queues, last channel,
deduplication), and the fallback models of a turn.

## 13. Plan

Written, in this order: what happens to a user's message (queue, conversation), to jobs
and subagents, to facts, to the calls of models, and to the configuration. What is left,
most important first:

1. `Conversation` with fallback models and the cancellation of a message in the hooks.
2. `VaultCursors`: the two producers and one cursor, with restarts and archived histories.
   Property: what a cursor has passed was ingested.
3. `EventBus`: bounded queues of subscribers, fan-out and the delivery of a reply to the
   channel it was asked from.
4. `SessionQueue` composed with `Conversation` under `enqueue_message`, and the order of
   the shutdown.

Proofs to come: an abstract store of facts that `Vault` implements, and the cursor's
monotonicity where it holds.
