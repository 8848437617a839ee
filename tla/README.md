# A TLA+ model of the generation platform

The repository is a web application (a Python server, `lib/` and `server/`, and a
TypeScript frontend) that turns a text into a script, images, video clips and audio with
the help of external providers. Every generation is a *task*: a row of the `tasks` table
that a worker inside the server process claims, submits to a provider, polls and closes.
Submissions cost money, take minutes, are cancelled by users and survive restarts. Around
the queue stand an assistant (an agent whose sessions browsers follow), the files of a
project, which many writers share, and the settings that say which provider is asked.
This directory models these parts in TLA+, checks them with TLC, and proves their main
promises with TLAPS.

Contents: inventory · plan · the modules · what the runs check · fairness · what is
proved · where the code departs from its documents · what is not modelled.

## Inventory

`PROJECT.json` lists every component with its files ("components"), and everything in this
code that is hard to test, each at its line ("hazards"). The parts that carry the program's
own logic:

| part | state it keeps | operations | hard because | correct when |
|---|---|---|---|---|
| task repository (`lib/db/repositories/task_repo.py`) | `tasks`, `task_events`, `worker_leases` | enqueue, claim, close, cancel, bulk cancel, lease | reads before a transaction are stale in it; cascades | one active task per resource, dependency first, a cancel wins, cascades complete |
| generation worker (`lib/generation_worker.py`) | slot and capacity tables, a coroutine per task | claim, run, cancel, resume, drain | every await lets a cancel, a crash or a coroutine in between | nothing billed twice, nothing running forgotten, cancels and restarts settle |
| lease, queue client, event stream | lease row, waiters' deadlines, cursors | renew, scan, wait, follow | time-outs race answers; ids show out of order | no scan of rows at work; waiters and browsers learn the outcome |
| media generation (`lib/media_generator.py`, `lib/version_manager.py`, `lib/usage_tracker.py`) | files, `versions.json`, `api_calls` | submit, download, record, resume, restore, upload | a crash or a cancel between any two | one job per task, ledger and files tell the truth |
| video backends (`lib/video_backends/`) | a job at a provider | clip a request, submit, poll, resume | lost answers to paid submits | one video is paid for once |
| assistant (`server/agent_runtime/`) | actors, sessions, inboxes, buffers, subscriber queues, questions, copies of files | query, interrupt, connect, evict, stream, answer, hooks | checks before an await; three sources of one message | callers are answered, sessions settle, browsers see each thing once |
| provider settings (`lib/config/`, `server/routers/providers.py`, `custom_providers.py`) | settings, providers, models, credentials, clients | create, replace, delete, activate, resolve | the same question is asked at five moments | a setting keeps its meaning; what was checked is what is called |
| project files (`lib/project_manager.py`, `server/services/project_events.py`, `lib/profile_manifest.py`) | `project.json`, scripts, agent files, channels | locked edits, syncs, watching | several files under several locks; crashes half-way | no edit lost, followers converge, a user's file is never overwritten |
| authoring (`lib/episode_planner.py`, `lib/script_generator.py`, `lib/script_editor.py`, `server/routers/`) | ledger, drafts, scripts, shots, units, assets, library | plan, write, edit, generate, upload, restore | models answer late; ids are given again | what is shown belongs to what it is shown for |
| archives (`server/services/project_archive.py`) | project directories | import, export, repair, delete | no lock; failures half-way | a name keeps a whole project; a round trip loses nothing |

How they interact. Users and agent tools call `GenerationQueue`, which opens a repository
per call; the worker polls the same table. A cancel goes to the table first and then,
through a callback injected at start (`server/app.py`), to the worker's slot table. Executors
run inside the worker's coroutine, resolve the provider, build a backend, write the job id
back to the row, and record files, versions and project entries. The event feed is a second
table that a stream reads by cursor. The assistant's tools edit the project's files under the
hooks of its session, enqueue batches and wait for them. Everything that changes a project's
files goes through the locks of `ProjectManager` or past them, and the project's channel tells
the browsers.

## Plan

Done: queue, worker, lease, feed and client; media generation and video backends; the
assistant's actor, sessions, streams, turns, gate and questions; project files, channel and
profile; credentials and routing; episodes, shots, units, assets, writing and archives; the
proofs listed below.

Left, in this order:

1. Proofs: the invariants that are only model-checked (last paragraph of *What is proved*).
2. Modules: the agent session store (contiguous batches under a unique key), the migrations
   of a project's files (each an idempotent step before the server starts).

## The modules

Every module has the code's operations as actions, its own `Init`, `Next`, `Spec` and a type
invariant. The MC modules put small instances side by side: a variable `part` chooses which
module a behaviour is about, the others keep their initial state (`OthersRest`), so that one
run answers for several independent components.

| module | what it is | instance |
|---|---|---|
| `TaskQueue` | `task_repo.py` and the table's constraints, one action per transaction | `MCTaskQueue` |
| `TaskLifecycle` | abstract: what a task may do, independent of queue, slots and restarts | – |
| `GenerationWorker` | `generation_worker.py` over `TaskQueue`, with users and the process | `MCGenerationWorker` |
| `WorkerLease` | the lease and the repeated orphan scan of two processes | `MCServices` |
| `TaskFeed` | `stream_tasks` over `task_events` | `MCServices` |
| `QueueClient` | batches of `generation_queue_client.py` over `TaskQueue` | `MCAgent` |
| `MediaGeneration` | tasks, uploads and restores of one resource: provider, ledger, versions | `MCServices` |
| `VideoBackends` | one video at any of ten families of backends | `MCServices` |
| `ProviderCredentials` | credentials, key files and the clients built from them | `MCServices` |
| `ProviderRouting` | which provider and model a task is counted for, checked against and called with | `MCServices` |
| `SessionActor` | command queue against message stream of one SDK client | `MCAgent` |
| `SessionManager` | registry, capacity, eviction, inboxes of the sessions | `MCAgent` |
| `AssistantStream` | buffer, subscriber queues and event streams of a session | `MCAgent` |
| `TurnView` | the turns a browser puts together from transcript, buffer and live messages | `MCServices` |
| `OpenQuestions` | questions of the agent to its user | `MCServices` |
| `ToolGate` | the hooks around tools that edit JSON | `MCServices` |
| `ProjectFiles` | `project.json` and scripts under their locks | `MCServices` |
| `ProjectChannel` | the watcher of a project's files and its subscribers | `MCServices` |
| `ProfileSync` | built-in agent files brought into a project | `MCServices` |
| `EpisodePlanner` | ledger and derived texts of episodes | `MCAuthoring` |
| `EpisodeWriting` | drafts, scripts and overviews written by a text model; status and export | `MCAuthoring` |
| `ShotAssets` | shots of a script, their files, tasks, grids and batch tools | `MCAuthoring` |
| `ReferenceUnits` | units by hand and derived units, their tasks, uploads and tools | `MCAuthoring` |
| `ProjectAssets` | entries, sheets, versions and the library | `MCAuthoring` |
| `ArchiveInstall` | import, creation and deletion of project directories | `MCAuthoring` |
| `ArchiveRepair` | export, import and repair of a project (over `ProjectAssets`) | `MCAuthoring` |
| `*_proofs` | theorems and proofs, see *What is proved* | – |

Three conventions hold everywhere. An action is the code between two points where others may
intervene: a transaction, the code between two awaits, or the section under a file lock. What
was read earlier is kept as state of the reader and may be out of date. Data is the number of
a version, of a writer or of a birth, never the text: a file holds *whose* bytes it has. And
variables marked *history* or *ghost* in a module's VARIABLES are read by properties only,
never by a guard.

### TaskQueue

`status`, `dep`, `cancelledBy`, `queuedAt` are columns of `tasks`; `lastEvent` is the
status of the newest `task_events` row of a task; `clock` orders enqueues. A member of
`Tasks` is one enqueue request, with the columns that never change as constants
(`KeyOf`, `ProjectOf`, `LaneOf`, `ProviderOf`).

An action is what a repository method does from its first write to its commit; the
SQL `WHERE` clause is its guard, the cascade is part of it. The reads *before* the first
write are not part of it: SQLite opens a transaction at the first write (the engine does
not ask for `BEGIN IMMEDIATE`) and PostgreSQL reads what is committed. So what a method
has read is an argument that may be out of date:

- `claim_next`: `PickNext` (SELECT) and `ClaimPicked` (UPDATE ... WHERE queued), with the
  variable `picked` between them;
- `cancel_task`: `CancelTask(t, seen)`, where `seen` is the status its SELECT returned;
- `cancel_all_queued`, `requeue_running`: the set `listed` of rows the SELECT returned.

`QueuedBelow(t)` is what the recursive cascades reach, as the least closed set; this form
needs no recursion, so that the prover can use it. `TaskQueue!Next` lets any caller issue any
method at any time, with any stale argument: it is the repository's contract, weaker than
what the program does.

### GenerationWorker and TaskLifecycle

An action is a piece of code between two awaits that give way to another coroutine, and
commits at most one transaction.

| code | model |
|---|---|
| `_run_loop` | `worker` (`top`, `drain`, `scan`, `recover`, `claim`, `window`, ...) and the actions of `LoopStep` |
| `_claim_tasks` | `laneNo`, `full`; `SelectTask`, `Claim`, then in the `window` before registration `Unsupported`, `Bounce` or `Register` |
| `SlotTable` | `held` (`pending`, `inflight`) and `pool`; other values of `held` are local variables of the loop or the dispatcher |
| `CapacityTable`, `reload_limits` | `cap`, one of `CapTables`; `ReloadLimits` |
| `_process_task`, `_process_resume_task`, `_run_one` | `co`, `resumed`; `FirstStep`, `Route`, `Submit`, `PersistJob`, `Result`, `Acquire`, `Interrupted`, `Conclude` |
| `asyncio.Task.cancel()` | `cancelReq`: requested, surfaces at the next await (`Interrupted`), or before the first line (`FirstStep`) |
| `cancel_task` and its callback | `UserCancel` or `ReadCancel` ... `WriteCancel`, then `signals` and `DeliverCancel` |
| `_handle_orphan_tasks_on_start` | `ListOrphans`, `RecoverCancelling`, `RecoverRunning`, `RecoverDone` |
| dispatcher | `Bucket(p)`; `DispatchBucket`, `RefuseBucket`, `FailRefused`, `AbandonBucket`; `semCap` is its semaphore |
| the process | `Start`, `Crash`, `RequestStop`, `Stopped`, `LoopFault` |

`bills` is a history variable: how often a task was accepted by a provider. The provider is
the environment: `Submit` and `Result`. `Underived` tasks have `provider_id` NULL on their row
and are routed by `_extract_provider` at the moment of each use (`RoutesOf`). Database calls
made by coroutines are shielded from cancellation in the code; a closing write and the end of
the coroutine are one action, and so are a write that hits no row and the
`mark_task_cancelled` that answers it.

`TaskLifecycle` is the state machine of `docs/adr/0006`, with the rule of `docs/adr/0007` that
a task is submitted at most once. `GenerationWorker` instantiates it with `life <- status`,
`after <- dep`, `submitted <- bills`, and `TaskQueue` as `TaskQueue!Spec` of its own variables.

### Around the queue

`WorkerLease` has two processes, one being stopped and one that replaces it; time is the age of
the lease in ticks and a loop may come arbitrarily late; a database error ends a loop and gives
the lease back over its coroutines (`LoopFails`); what a scan has collected to resume is `adopted` until
its slots are registered. `TaskFeed` separates the flush of an
event (where its id is taken) from the commit (where it shows), for SQLite and PostgreSQL.
`QueueClient` is `batch_enqueue_and_wait` with its online test, sequential enqueues, parallel
waits, time-outs and the offline grace.

`MediaGeneration` has one resource and its writers: a synchronous executor
(`GenerateImage` ...), a polling one that persists a job id and may be resumed, uploads and
restores. Bytes carry the name of who made them; `file`, `versions` and `current` are the
canonical file and the index; `call` is the row of `api_calls`. `SdkTasks` are the tasks at backends
that send by an SDK: they repeat a submit whose answer was lost, and `resubmits` counts how often.
`VideoBackends` refines the
submit for each family: declared capabilities, images clipped and put into the body, the
predicates that decide on a retry, what a lost answer, an expired or a forgotten job becomes.

`ProviderCredentials`: requests read, write, commit, empty the cache of clients and unlink key
files in separate steps while tasks build clients. `ProviderRouting`: settings of the
installation and of the project, providers of the user with models that come, go and are
switched off, ids given again (`serial`), and a task that is routed at enqueue, claim, build,
call and resume. The durations a clip may have are looked up per provider and model (`SecondsOf`), and
compared by the name of the model only: `UnitAskedElsewhere` is the unit whose task names another
provider than its project.

### The assistant

`SessionActor` is `_run`, `_command_loop` and `_drive_query`: two waits at once (the next
message, the next command), a command set aside, and what is done with a command at hand when
one of them raises. `SessionManager` sees the actor through its answers and models
`get_or_connect`, `send_new_session`, `send_message`, `_ensure_capacity`, `_evict_one`, `close`,
`interrupt` and the inbox processors, with the status in memory and in the database. `send_or_create`
reads the row first and passes on what it read (`Send`, then `GetOrConnect`), so that the new object
may be given a status that is out of date. `stranded` marks the sessions left as running for good.
`AssistantStream` has the buffer, bounded queues with critical messages, overflow, the replay
of a new subscriber and the snapshot cache. `TurnView` has one message three times (echo, live
or replay, transcript) and the grouping and deduplication that must show it once.

`OpenQuestions` follows `pending_questions`, their futures and what a page shows through
answers, interrupts, ends of turns, evictions and late joins. `ToolGate` follows a call through
the hook before it (a copy), the tool's write, the check after it and the restoration, next to
saves of the server; the path and command rules are evaluated for every kind of call. A path has a
name it says and a place it leads to: the hooks go by the first (`ChecksJson`), the fence by both.

### Project files

`ProjectFiles`: `update_project`, `locked_script` and `locked_episode_script` with the locks in
their order, and the binding of an episode that is read before the lock of its script is
known. `ProjectChannel`: watch and batch tasks that read files in threads, snapshots, full
queues, joins and leaves. `Undiffed` are the pairs of versions whose difference is empty although
their fingerprints differ (`_diff_episodes` has no *deleted*, `_diff_script_items` compares the scripts
that both have): a scan then moves the snapshot and tells nobody. `ProfileSync`: the decision table per file, manifest last, with users
at work, failing copies, crashes, and releases up and down.

### Authoring

`EpisodePlanner`: `plan` and `replan` of concurrent sessions; a commit checks that the ledger has
not moved, rewrites `episode_N.txt` one by one and saves `project.json` last; `Backfilled` is what
`backfill_episode_ledger` reads from the files. A project of the time before the ledger may have a
`_remaining.txt`, from which the cursor is derived (`remaining`, `CursorOf`); `splitAt` remembers where the
old splitting had stopped. `ShotAssets`: a shot has an id, as the code
knows it, and a birth number, which it does not; files, tasks, a grid and a checkpoint name the
id. `ReferenceUnits`: the same question for units, derived by grouping shots or added by hand; the shots
of an advertisement have birth numbers too, and a unit is compared, as in the code, by the ids of
its shots and the union of their references (`Merged`, `Listed`).
`ProjectAssets`: the picture on the disk first, the entry later; rows and files of the library, with a
save that stops half-way and a refresh that fails after the commit (`RequestFails`).
`ArchiveInstall`: put aside, move in, sync, delete, without a lock on the name; each may raise, the
putting aside as well, and what the handler then removes is still the old project (`doomed`).
`ArchiveRepair`: a copy directory by directory, repair before export and after import, and what
the validation refuses. Versions are found by the beginning of their names, so that those of a
namesake (`Namesakes`: "hero_v2" for "hero") stand among them.

`EpisodeWriting`: a writer reads `project.json` once (`LoadProject`), the draft later (`ReadStep`),
waits, and saves (`SaveEpisodeScript`, `SaveStep`, `SaveOverview`). Which draft a mode has is decided
in four places, which are four operators: `EditorFile`, `ToolFile`, `GeneratorFile`, `ProbedFiles`.
`VideoProgress`/`PhaseShown` and `ExportedClips` are the two counts of what is finished.

## What the runs check

| run | question | instance | states |
|---|---|---|---|
| `task_queue` | what the repository promises under any use by any caller | 4 requests, two of them for one key, chains up to 4, 2 lanes, one task without a provider | 65,753 |
| `worker_safety` | invariants under crashes, faults, capacity changes and racing cancels; `ImplementsQueue` | 2 tasks with two keys, 1 provider, capacity 1 or 0, 1 restart, 1 failing call, 1 cancel in flight | 2.4 million |
| `worker_progress` | life cycle, capacity and liveness with a healthy database | as above, 2 restarts, no faults, cancels in one transaction, fixed capacity | 75,823 |
| `agent` | the assistant: no command, gap or call is lost, everything comes to an end | five parts, below | 144,858 |
| `services` | the promises of twelve services around the queue | twelve parts, below | 1.2 million |
| `authoring` | what stands on the files of a project | seven parts, below | 0.8 million |
| `late_dependent`, `stuck_cancel`, `leaked_slot`, `blocked_lane`, `cancel_race`, `provider_lock` | documented promises that the code does not keep | one property each, see *Where the code departs* | – |

The properties, each defined and explained in its module:

- `task_queue`: `OneActivePerKey`, `RunsAfterDependency`, `CancelWins` (action), `CascadeIsComplete` (action).
- `worker_safety`: `RunningIsOwned`, `BilledOnce`, `ImplementsQueue`. `worker_progress`:
  `CapacityRespected`, `WorkIsOpen`, `ImplementsLifecycle`, `BegunCancelSettles`, `ReadyIsServed`,
  `RestartSettles`.
- `agent`: `OnlyTheGrabbedHangs` (actor), `EveryCallerIsAnswered` (actor), `SessionsSettle`
  (manager), `NoSilentGap` and `StreamsEnd` (stream), `BatchReturns` (client).
- `services`: `OneJobPerTask`, `LedgerFollows`, `QuietIsTracked` (media), `FeedConverges` (feed),
  `LeaseGuardsScan` (lease), `SyncKeepsItsWord` (profile), `FollowersAreServed` (channel),
  `NoEditIsLost` (files), `ShownOnce` (view), `ActiveIsUsed` (credentials), `OneVideoIsPaid` (video),
  `RoutingIsSound` (routing), `JsonIsKept` (gate), `QuestionsAreAnswerable` (questions).
- `authoring`: `LedgerTiles` (planner), `InstallKeepsOne` (archive), `AssetsBelong` (shots),
  `UnitsBelong` (units), `ShelvesAreTrue` (assets), `RoundTripKeeps` (repair), `EpisodeIsSound`
  (writing).

Where a property has an exception, the exception is named (`Raced`, `Lapsed`, `touched`, ...) and
says which behaviour of the code it excuses; the list is in *Where the code departs*.

### Bounds, and why they are enough

Every bound of a module is one of its constants, counts something the *environment* does
(requests, faults, crashes, edits, releases) and stands in a guard: what has begun runs to its
end. The MC modules of `services` and `authoring` add bounds of their own (`MediaBounds`, `Bounds`, ...) as
guards of every step: many services stand in one run, and they name the *combinations* that are not
followed further, with the reason in a
comment (a retry next to an upload, a save of both guarded files, a third disturbance after two).
They also stop where a property has nothing more to say because its exception has occurred
(`orphaned`, `overlap`, `Raced`). The proofs have none of these bounds.

- Queue. `ArriveInOrder` (a constraint of `task_queue`): the requests arrive in the order
  t1, t2, t3, t4. The instance keeps the roles that matter in that order: t4 repeats the key
  of t1, t2 has no provider, t3 is in the other lane, every task may depend on any earlier one.
- Worker. Two tasks suffice for the interactions its code has: they compete for one slot, one
  depends on the other, one bounces off the other, or both are resumed behind a semaphore of one
  permit. `blocked_lane` has a third task and a second provider. `MaxRestarts` counts crashes and
  stops: 2 in `worker_progress`, so that a process can be killed while it recovers what an
  earlier one left; 1 in `worker_safety`, with every other disturbance at once. `MaxFaults` = 1:
  one failing database call, anywhere. `MaxCalls` = 1: one `cancel_task` between its SELECT and
  its UPDATE. `worker_progress` has 0 on purpose: with a cancel in flight `WorkIsOpen` and
  `ImplementsLifecycle` are false, which is what `cancel_race` shows. `CapacityRespected` is
  checked with a fixed table: if a reload takes a capacity to 0 and back while orphans of the old
  process wait, a second bucket semaphore can admit more than any table allows, which the code
  documents as a choice (`_dispatch_provider_bucket`).
- Agent. Actor: three queries, an interrupt and a disconnect, each stage may raise. Manager: a send
  next to another send, a close or an interrupt of its session, or next to a new session that
  competes for the only place (nothing else fails then, `NoFaultsInContest`). Stream: queues
  of 2, a buffer of 2 and a log of 4 entries, so that both overflow; one client and one reader.
  Batch: one caller enqueues a chain of two, another the first of
  them, so that one key is requested twice; one outage of the worker.
- Services. Media: an image task, a polling task and an upload over `MaxVersions` = 2 restores, one
  fault or crash, two tries. Feed: 2 tasks, 3 events, emitted at most once ahead of what was
  delivered. Lease: two processes, a lease of 2 ticks. Profile: 2 files, 2 releases up and down,
  2 syncs, one act of a user, one fault. Channel: 2 subscribers with queues of 1, one batch, 2 changes of
  the files, the second of which no scan finds. Files: 3 editors
  on 2 scripts. View: one message, 5 emissions, 2 rounds. Credentials: 2 slots of requests taken 4
  times, one build, the first request first. Video: one clip, 2 tries (the third is like the second); `ManyRefs` stands
  for more references than a backend takes. Routing: one task, one own provider with two lives
  that lists a model of the name of a built-in one, with other durations, 2 changes (3 in
  `provider_lock`) from a new or a used database. Gate: 2 calls, one save of the
  server, one fault; a second call does not use a link the hooks overlook. Questions: 2, a queue of 2, one other message.
- Authoring. Planner: a text of 3 units, 2 sessions, 3 plans, 2 failures (the second
  meets the files the first one left), from a new project or one with a file of old, changed by the
  user or not, and a rest of old that begins anywhere in the first file. Archive: 2 requests on 2 names. Shots
  and units: 2 edits, 1 task, 2 grids or 1 tool, so that an id is given again while something that
  names it is under way, which is the shortest way to every mix-up in question. Assets: 2
  requests, 3 versions; a restore that puts an old picture back and then fails needs a third
  request, two that draw before it, and is left to the theorem. Exports: one edit or one lost file,
  and another one with one request once a script was saved, or if it is the loss of a picture next to
  the versions of a namesake; the theorem has no bound. Writing: 2
  writers, 2 changes. `ExportsGoOn`: a
  project changes after its root was copied for an export or not at all, and then the export
  is followed until it is packed.

Deadlock checking is off: a system whose requests have all ended, with no fault or restart
left, stops.

## Fairness

`GenerationWorker!FairSpec` assumes weak fairness of: the start of the process (a supervisor
restarts the server), the main loop's step, the in-flight calls, each dispatcher bucket, each
delivery of a cancel callback, each coroutine's step, and each provider call. asyncio runs ready
callbacks in FIFO order, so a step that stays enabled is taken; the loop's step is one formula
because one coroutine takes it. Provider calls end because every backend polls with a deadline
(`max_wait` in `lib/video_backends`), which turns silence into an error. `HangSpec` takes that
assumption back for one task, to ask what *others* may expect while it polls.

`ActorFair`, `ManagerFair`, `StreamFair` and `BatchFair` assume weak fairness of the tasks' own
steps, of the timers they set (idle eviction, heartbeats of a stream, the poll of
`wait_for_task`) and of answers of the SDK, which the code bounds by time-outs. In the instance
`MCAgent` one part runs at a time and every behaviour is finite but for heartbeats, so `MCFair`
asks only that the part at work goes on: weaker, and enough.

Nothing is assumed of users, crashes, faults, reloads, releases or changes of settings.

Liveness is stated for what the code really guarantees: `BegunCancelSettles` is about coroutines
past their first step, `ReadyIsServed` and `RestartSettles` make the exception of a leaked slot,
because `stuck_cancel` and `leaked_slot` show the stronger forms to be false. `EveryCallerIsAnswered`
excepts the command the actor held when it died, which `OnlyTheGrabbedHangs` shows to be the only
one.

## What is proved

TLAPS proves the following for every value of the constants: any number of tasks, keys,
projects, lanes, providers, processes, subscribers, editors, questions, credentials, and any
bound on faults, restarts and requests. The only assumptions are the ones the modules name
(`TaskAssumption`, `WorkerAssumption`, ...): the constants have their types, and the values that
mean *nothing* are none of the others. TLC evaluates each of them on the instances.

Each proof has the same plan. The property is seldom inductive; the proof module defines the
conjuncts that make it so, TLC confirmed them on the instance of the run before they were
proved, one lemma per action shows that the action keeps them, and the last theorem combines
the lemmas.

`TaskQueue_proofs`

- `TypeCorrect`: `TypeOK` is inductive.
- The cascade: `QueuedBelowQueued` (it reaches queued tasks only), `QueuedBelowClosed` (with a
  task, all that wait for it), `QueuedBelowRooted` (nothing else). All later proofs use these
  three and never the definition.
- `EveryTaskSteps`: what one transaction does to one task, whatever the transaction:
  the move is one of `Moves`, a dependency never changes, only the picked task starts, and
  `cancelled_by` is written exactly when the task is stopped. Most invariants follow from this.
- `DependencyFirst`: `RunsAfterDependency` is not inductive: between the SELECT and the UPDATE of
  a claim the picked task has a met dependency although it has not started. The strengthening
  `PickedIsReady` says so, and `DependencyStaysMet` (succeeded is final) carries it.
- `CascadeSparesRunning`: hence no cascade meets a running dependent, and the branch of
  `_cascade_cancel_dependents` for them is dead code.
- `NoDuplicateWork`, `CancelsAreAttributed`, `CancelIsFinal`, `FeedIsHonest`.
- `NothingLeftBehind`: completeness of cascades; the bulk cancel needs `DependsInProject`.

`GenerationWorker_proofs`

- `WorkerImplementsQueue`: every step of the whole system is a step of `TaskQueue` or leaves
  the table alone. By cases over the actions of the worker.
- `WorkerKeepsQueuePromises`: so all of the above holds in the running system.
- `WorkerTypeCorrect`: `WorkerTypeOK` is inductive over `TypeOK`.
- `NeverBilledTwice`: `BilledOnce` is not inductive, since nothing in it keeps a task that was
  submitted from coming before the provider again. `BillingInv` adds what does:
  `UnbilledBeforeCall` (a task in the queue is in nobody's hands and not billed; nor is a
  claimed one, nor one whose coroutine is before the call), `ResumesOnlyPoll` (a resume never
  stands where the provider can be called) and `LedgerMatchesCoroutines` (a coroutine has a
  slot, so that what the loop passes around has none). Most steps are cases of three lemmas:
  `Handover` (the loop or the dispatcher passes a task without coroutine on), `MovesOn` and
  `Leaves` (a coroutine goes on or ends). The steps that carry the argument are `Claim`, the
  bounce, which is the only way back to the queue and is taken before the coroutine exists,
  and `Submit` (`SubmitKeepsBilling`).

`WorkerLifecycle_proofs`

- `NothingRunningIsForgotten` (`RunningIsOwned`): in a process that has scanned its orphans and has met
  no failing call, a running row is in somebody's hands, whatever crashes and stops came before; rows
  in cancelling are not, as `stuck_cancel` shows. `OwnedInv` says for every point of the loop which rows the loop still holds and which the
  scan to come will find.
- `NobodyEndsATaskAtWork` (`WorkIsOpen`) and `WorkerImplementsLifecycle` (`ImplementsLifecycle`), both
  under the one hypothesis `[]NoStaleCancel`: no cancel call that saw a queued row reaches it once it
  runs. The hypothesis is the race of `cancel_race` and nothing else; `OpenInv` is inductive with it.
- `AtomicCancelsSuffice`: with cancels that read and write in one transaction
  (`MaxCalls` = 0) the hypothesis holds, and so do the two theorems. The repair of the finding
  is thereby shown to be enough.
- `PoolsAreRespected` (`CapacityRespected`): nothing is claimed before the scan (`ScannedFirst`) nor
  before what is to be dispatched (`DispatchedFirst`), a provider's orphans are dispatched at
  once (`OneDispatch`), a pool with new work is no fuller than a table allowed when the last task
  came (`RoomIsKept`), and a pool without has only resumes, each with a permit (`PermitsAreKept`).
  Two hypotheses: finitely many requests, and `VideoLanesStay`, reloads that resize pools but neither
  open nor close a video lane; see *Bounds* for what happens otherwise.

`Services_proofs`

- `LeaseTypeCorrect`, `ScanIsGuarded` (`LeaseGuardsScan`): `WorkersOwnIt` relates what a process
  believes of the lease to the row and its age, unless its loop is broken; what a scan has adopted
  counts as its own (`ScanAdopts`).
- `FeedTypeCorrect`, `StreamConverges` (`FeedConverges`): ids ascend and are unique, the reader's top is
  a row, what is behind the cursor was delivered or is excused; with SQLite the order of ids is
  the order of commits (`SqliteInOrder`).
- `JsonStaysKept` (`JsonIsKept`): every copy belongs to a call under way, a settled call has checked
  or restored its file, and what is damaged has a reason that is named, a link that no hook looks
  at included (`Admitted`).
- `EveryFollowerIsServed` (`FollowersAreServed`): a subscriber of a live channel has been told the
  latest snapshot, or a message is on its way to it, or the batch that will send one is; or what it
  was told last has become the snapshot by changes no scan finds (`BecameUnseen`, which composes).
- `WhoAsksIsHeard` (`QuestionsAreAnswerable`): a question that is pending is shown by every page that
  follows the session, or its message is in the page's queue (`PagesFollow`); needs counting of
  answers (`AnswersCount`) and that queues keep their order.
- `TheActiveOneIsUsed` (`ActiveIsUsed`): rows ascend, at most one is active, a request knows what it
  read, files of rows exist, and a cached client was built from a row that was active then.

`ProjectFiles_proofs`: `FilesTypeCorrect`, `EditsAreKept` (`NoEditIsLost`). `FilesInv` says what a holder
of a lock knows of the file under it, and that the locks are taken in an order without rings.
`ProjectAssetsTypeCorrect`, `ShelvesStayTrue` (`ShelvesAreTrue`). `ShownInv`: a picture that a request has
not written yet is nowhere (`FreshIsNew`), what a request has written is still at its path until the
entry shows it, or something newer is (`BroughtIsLatest`), a version's file is written once
(`VersionsAreListed`), and an old picture that is put back counts from then on. `LibraryInv`: each row
has an image of its own (`ImagesDiffer`), and the image a request replaces or removes is the one its
row had when it read it (`WasItsImage`), or the request that came between is on record.
`RepairTypeCorrect`, `RoundTripStays` (`RoundTripKeeps`): the parcel of a project that nobody works on is
at each stage the part of it that was copied, then its archive, repaired and pruned (`ParcelHolds`);
what the entries of a project name is where `ProjectFits` says. Over that, three facts about trees
alone: a repair changes what is shown only as the property allows (`ShownAfter`), what a repaired
tree shows goes along in either kind of archive (`NamedGoesAlong`), and in an archive that is in
order a second repair finds nothing to do (`NothingToRepair`), so that the import accepts it.

`MediaGeneration_proofs`: `MediaTypeCorrect`, `OneJobOnly` (`OneJobPerTask`), `LedgerIsTrue`
(`LedgerFollows`), `FileIsTracked` (`QuietIsTracked`). `JobInv` and `CallInv` say for each point of a
task what the provider and the ledger have of it, a job more for each repeated submit included. `VideoTypeCorrect`, `PaidOnce` (`OneVideoIsPaid`):
`JobsAreFew` counts the jobs against the lost answers, `JobIsKnown`, `SavedIsAJob` and `SoundIsAsMade`
follow the id from the reply to the row and through a resume, and `BodyTakesAll` goes through the
body of each family to show that no image is dropped.
`RoutingTypeCorrect`, `RoutingStaysSound` (`RoutingIsSound`): `Resolves` says for any payload, project and
slot that what the resolver answers for a video is of a provider that makes videos, and that a
built-in provider named by the payload is the answer; that needs `RefsFit` (a reference fits the
lane of its key), which no request breaks. `RouteInv` follows a task from one look at the
configuration to the next: while nothing has changed, its slot, its copy of the project, its
backend and the durations looked up are what the resolver would still answer. The keys keep
their meaning because `FreeIsUndefined`: an id that is given again was free, so nothing that meant it
was left without an excuse.

`Assistant_proofs`: `EveryCommandHasAPlace`, `DrainLeavesOne` (`OnlyTheGrabbedHangs`), over the places a
command can be in; `NoGapIsSilent` (`NoSilentGap`), where `Follows` says that what a client has
seen, what is in its queue and what is in the log are one interval, or an overflow is marked.
`ReleasesArrive` (`SyncKeepsItsWord`): what the manifest says of a file is true of it or its exception
is on record (`ManifestTells`), the entries a sync has collected say the same (`EntriesTell`), so
that what it has passed is done (`PassedIsDone`), and nothing comes back that a user deleted
(`StaysAway`, `NothingUnasked`).

`Authoring_proofs`: `InstallKeepsAProject` (`InstallKeepsOne`), where `Stands` follows the one directory
that may be removed only after another is in place, or is `doomed`; `WritingTypeCorrect`, `EpisodesAreSound`
(`EpisodeIsSound`), with `Knows` (what a writer has read) and `AdsHaveShots`; `ShotsTypeCorrect`,
`AssetsStayTrue` (`AssetsBelong`), with `ShotsInv`: a task, a cell of a grid and a file on the disk
are of the shot that has their id (`BoardJobsKnow`, `CellsKnow`, `DiskKnows`, `ClipJobsKnow`) or
a removed shot left them under it, and whatever a batch, its checkpoint or a report names was marked
as done or was left (`MarksInv`).
`UnitsTypeCorrect`, `UnitsStayTrue` (`UnitsBelong`): in `UnitsInv` every writer at work (a task, an upload,
the agent's tool) knows what the unit is of, or the number is marked as handed over while it was
away; numbers stay unique through every edit of the list, and an advertisement's list is its
shots in groups (`UnitsStart`, `FewerUnits`); a shot with the id of a listed one has its birth, or the
unit is `reborn`. `PlannerTypeCorrect`, `LedgerStaysTiled` (`LedgerTiles`),
with `LedgerInv`: that the episodes read are the text says nothing about the next crash, so it adds
that a plan under way keeps every episode that is read and adds some after them (`PlanAdds`), that
files without an entry come last (`FilesFollow`), that the cursor is not beyond the last episode,
and that `project.json` itself is whole while a replan rewrites files. The lemmas `LaidFacts`,
`Continued` and `FirstPart` say that cuts tile a stretch, that a ledger may be continued where it
ends, and that a first part of one, its last file cut short, is one.

Only model-checked: `ShownOnce`, and all liveness (`BegunCancelSettles`, `ReadyIsServed`, `RestartSettles`,
`EveryCallerIsAnswered`, `SessionsSettle`, `BatchReturns`, `StreamsEnd`). Liveness needs `ENABLED` and
fairness, which the prover handles neither of. `ShownOnce` relates the transcript, the buffer and the
draft through folds over their sequences (`Grouped`, `Replay` and `Drafted` of `TurnView`, as the
grouper and the draft projector loop over messages): what a fold yields for every sequence is an
induction over data, out of the prover's reach. No recursive operator occurs in a module that is proved about.

## Where the code departs from its documents

Six runs expect a violation; `PROJECT.json` quotes the documents under "findings".

- `cancel_race`: a claim that commits between the SELECT and the UPDATE of `cancel_task` makes the
  cancel end a *running* row directly. No callback is due, the coroutine goes on and the
  provider is still asked (and paid).
- `stuck_cancel`: a cancel that lands between the claim and the registration of a task that is then
  bounced or refused leaves the row in `cancelling` until the next start.
- `leaked_slot`: a resumed orphan cancelled before its first step keeps its slot.
- `blocked_lane`: a task without a persisted provider, bounced from a full pool, keeps the lane from
  reaching the tasks of idle providers.
- `late_dependent`: a dependent enqueued after its dependency was cancelled waits for ever.
- `provider_lock`: the resume of a job at a user's own provider asks the provider that the settings
  name now.

What follows is modelled as the code does it and excused by name in the properties. It is
listed so that a change of the code can be told from a change of the model.

Lease and worker. A database error ends `_run_loop`, which has a `finally` and no `except`: the lease is
given back while coroutines go on, and the scan of a successor judges rows at work
(`generation_worker.py:453`); `LeaseGuardsScan` excepts the loop that is `broken`.

Scripts and status (`EpisodeWriting`). A draft saved while it is normalized is lost; normalize
writes `step1_normalized_script.md` whatever the mode; the status `segmented` looks only at the
content mode; DELETE of a draft falls back to the file of another mode; an invalid script is
accepted over an invalid one; a regeneration overwrites edits by hand and drops
`generated_assets` while tasks record into the same ids; an overview is written over a newer
edit; `ledger_status` `stale` is never cleared (`CONTEXT.md:217`, ADR 0031); a completed episode of
reference videos cannot be exported to Jianying (`docs/jianying-export-guide.md:3`); after a replan
the old draft meets the new hook.

Planner. A left-over `episode_2.txt` is taken by the backfill (`episode_planner.py:781` says that a
crash heals by running again). So is a file that was cut short: a plan dies after it wrote files
the ledger does not record, the next one rewrites all of them with `write_text`
(`episode_planner.py:838`) and dies in the first; the text it lost is then in no episode, because
the next call goes on after the last file. A replan over such files is lost in the same way.
`Damaged` names both cases and `LedgerTiles` excuses them; a shorter list of excuses fails under
two failures. In a project with a `_remaining.txt` whose first file the user has changed, the next
episode begins where the old splitting had stopped, and what lies before it is in no episode that is
anchored (`episode_ledger.py:224`, `Joins`). `consumed` is set only by the backfill (`CONTEXT.md:217`).

Assistant. A message flushed between `_subscribe`'s copy of the buffer and its read of the
transcript is shown twice; `task_started` and progress messages survive `_prune_transient_buffer`;
the sentinel of an image-only message swallows the first tool result; a snapshot built while the
flush lags lacks messages and is cached. A command in the actor's hands when it dies hangs. An
eviction pops `_connect_locks`, so that two connects may overlap. A session may be left as running
(`stranded`): closing it in the midst of a turn ends as *closed*, which is not persisted although the
comment at `session_manager.py:1979` says that the actor's end persists a terminal state; the next
connect restores it as running with an idle actor, and it refuses messages until the next start. The
same comes of an eviction that cuts a write of the inbox processor short, of a failing write there,
and of a row that is created after the call for it gave up. An overflowed subscriber
is removed silently; one that joins while the last one leaves follows a channel that ends.

Questions and gate. `ask_user_question` can be dropped by a full queue; two questions at once
hide one another; a failed interrupt leaves later questions unanswerable; the response to an
answer may clear a newer question. The hook after a tool may restore a copy older than another
writer's edit; writes by Bash are not checked; a turn cut between the tool and the hook leaves
damage unreported. The hooks ask whether the *name* of a path is JSON (`session_manager.py:947`), while
the fence resolves it (`session_manager.py:2343`): what is written through a link `notes.txt` to a JSON
file is never checked.

Ids that are given again (`ShotAssets`, `ReferenceUnits`). A new shot or unit with the id of a removed
one adopts its result under way, its grid cell and its left-over file (ADR 0003, docstring of
`remove_segment`); a unit made by hand counts as done if a file is there; a derived unit keeps the video of a removed
shot whose id was given again, since members are compared by id (`ad_units.py:120`); a storyboard that is
deduplicated onto an active task loses the batch's dependency.

Credentials and routing. Four races, named at `ActiveIsUsed`. `execute_video_task` (its comment near
line 1005) fails for a disabled model of the user's; a full update of a provider cleans no
settings, a replacement of models the global ones only, a deletion the projects after the commit
and at best effort; settings may name absent providers; the provider recorded at enqueue may not
be the one asked; a unit's length may be checked against the durations of another provider whose model
has the same name (`reference_video_tasks.py:331`); `get_media_generator` does not do what its docstring says for both backends.

Video. The SDK backends (ark, gemini, openai, grok; for images gemini and openai) retry a submit whose
answer was lost, contrary to `AmbiguousSubmitError`, and may make a second job; the clients of openai
also retry inside the SDK, which the model does not tell from the backend's own tries; kling and minimax never report an expired resume
(`base.py:445`), v2 reports it as a failure; dashscope drops the storyboard of a text-to-video call;
vidu declares what its endpoint refuses; an accepted reply without an id loses a paid job.

Assets and archives. After a jpg over a png the repair resets the sheet to the old file
(`files.py:236`); a `current` sheet that names a version of another asset makes an archive that the
import refuses although it is reported clean; a new ad project exports to an archive the import
refuses; REST accepts empty descriptions that the validator refuses; `delete_asset` unlinks before
its commit; two overwrites of a library row leave an orphan; `apply_to_project` decides names
before the lock; uploads of sheets add no version; an export copies a live project without a
lock; two archive requests on one name can lose a project; so can an import to overwrite whose first
rename fails (`project_archive.py:1564`: the handler removes the directory it has not put aside). A
refresh that fails after the commit removes the file of a library row that is there
(`routers/assets.py:230`), a save that fails half-way leaves a file without a row (lines 72, 329). A
repair may take the version of "hero_v2" for one of "hero" (`project_archive.py:1154`).

Media. Two writers of one resource can overwrite bytes that have no version; a resume that ends
with another error than *expired* leaves its call pending. Channel and profile: a rebuild absorbs
changes of others without announcing them, and a scan those whose difference is empty
(`project_events.py:344`); a first scan that fails yields no snapshot; a built-in
file that was taken back and released again stays withheld.

## What is not modelled

- The worker lease is always held in `GenerationWorker`; `WorkerLease` is about the flap. `CONTEXT.md`
  says that one worker lives in one process.
- `requeue_running` is a transaction of `TaskQueue` but nobody calls it in `GenerationWorker`, as in
  the code. The audio lane has the code path of the image lane.
- Payloads, prompts, results, failure texts, prices, statistics, paging, wording of events.
- The rate limiter (a sliding window in one process), the image, text and audio backends (one
  request and one answer each), the session store, migrations, the source loader, thumbnails and
  covers, authentication, the start of the application, and the frontend; `PROJECT.json` gives
  each with its reason.
