# stemsmith in TLA+

A verification project for stemsmith, the C++ library and HTTP service that
splits a WAV file into stems with Demucs models. Paths below are relative to the
repository.

The interesting part of stemsmith is not the signal processing, which is a call
of a library, but who does what in which order: clients that submit and cancel,
worker threads, callbacks that run on either, futures, a registry that an HTTP
client polls, a cache directory that several of them use at once, a process that
starts and stops around all that, and a configuration that is checked in one place
and used in another. That is what the modules model.

## 1. The system

| component | source | state | operations | talks to |
|---|---|---|---|---|
| worker pool | `src/worker_pool.*` | `queue_`, `running_`, `shutting_down_`, `next_id_`, a stop flag and reason per job | `enqueue`, `cancel`, `shutdown`, `worker_loop` | calls `processor_` and `callback_` of its owner with no lock held |
| job runner, job handle | `src/job_runner.*` | `contexts_` by path, `paths_by_id_`, `pending_events_`; per job a promise and observers; per handle `cancel_requested` | `submit`, `process_job`, `handle_event`, `job_handle::cancel`, `set_observer` | is the pool's processor and callback; calls catalog, engine, observers |
| job catalog | `src/job_catalog.*` | `jobs_`, `seen_paths_` (no lock of its own) | `add_file`, `release` | called by the runner, partly under its mutex |
| separation engine | `src/separation_engine.*` | none but the session pool | `process` | loader, session pool, session, writer |
| session pool | `src/model_session_pool.*` | idle sessions per profile | `acquire`, `recycle` (by the handle's destructor) | session factory |
| model session | `src/model_session.*` | the loaded model | `separate`, `ensure_model_loaded` | model cache, Demucs |
| model cache | `src/model_cache.*` | files under `cache_root`, one mutex per profile | `ensure_ready`, `purge`, `purge_all` | weight fetcher, file system |
| weight fetcher | `src/http_weight_fetcher.*` | none | `fetch_weights` | libcurl |
| manifest | `src/model_manifest.*` | constant after load | `load_default`, `find` | - |
| job config | `src/job_config.cpp` | none | profile lookup, JSON to `job_template`, `resolved_stems` | used by catalog, session, POST |
| audio I/O | `src/audio_io.*` | none | load, write | libsndfile |
| service | `src/service.cpp` | owns cache and runner | `create`, `submit`, `purge_models`, `ensure_model_ready`, the destructor | forwards |
| HTTP server | `src/http/server.*` | `job_registry`, `running_`, the server thread, crow's app | POST, GET, DELETE, download, `start`, `run`, `stop` | service; crow; observers update the registry |
| daemon | `src/http/stemsmithd.cpp` | options, the signal flag | `parse_args`, `main` | server |
| frontend | `frontend/src` | the job it polls | upload, poll, cancel, download | the HTTP server |

`thirdparty/`, `examples/`, build files and data are not modelled.

### What is hard

* **Callbacks outside locks.** The pool reports `queued` after it has released
  its mutex, and notifies after that; the runner, being that callback, does not
  know the id of a job until `enqueue` has returned, and keeps its events to
  replay them later, again outside its mutex.
* **Handing a job over.** At most one of worker, `cancel` and `shutdown` may end
  a job, one of them must, and each moves it between containers and locals with
  code that runs outside the lock.
* **Flags and data that are set apart.** The stop flag is set before its reason;
  `cancel` looks a job up and sets its flag in two steps.
* **Shared state with no lock.** The catalog in `submit`, the map of profile
  mutexes and the files of the model cache.
* **Lifetimes.** Destructors that join threads which still call back; the order
  in which `server` and `job_runner` declare their members.
* **Starting and stopping.** `stop` on the main thread meets `run` on the server's
  at any point of its set-up, with handlers and jobs in the way.
* **Checked here, used there.** A template is validated when it is read, changed
  when a job is submitted, and used when the job runs; directories are named after
  ids that begin anew in each process, or by the client.
* **Views of a state kept elsewhere.** The HTTP registry is a copy of the status
  made of callbacks, and DELETE writes to it too.

`PROJECT.json` lists each of these as a hazard at its line, with the properties
that cover it or the reason why none does yet.

### What makes each component correct

* worker pool: no job lost or ended twice; the statuses of a job are `queued`,
  `running` and its end, in that order; no lost wake-up; shutdown stops everything, returns, and leaves nothing
  running; the first cancellation reason is the one that stays, and the one that is
  reported.
* job runner: events and results reach the call that made the job; a future gets
  exactly one result, its job's, and gets it; catalog and maps agree, so that a
  path is free again once its job is done.
* session pool and engine: a session is used by one job at a time and is of its
  profile, none is lost, and there are never more than workers; a directory that
  is returned holds the job's own stems.
* model cache: no file that was not checked takes the place of the weights; a path
  that `ensure_ready` returns stays good until somebody purges it; nothing is
  downloaded twice; no `.tmp` file is left; calls do not fail one another.
* HTTP server: the status a client polls becomes terminal when the job does, is
  true of the job, and never leaves a terminal status; a download is offered for
  every completed job; the upload is kept for as long as the job may read it, and
  no longer; `stop` returns, and no member is destroyed under a thread that uses it.
* job config: a job that was accepted does not fail for its stems; a download has
  exactly the stems that were asked for, all written by its own job.
* daemon: whatever `parse_args` is given, the pool gets a number of workers it can have; a signal ends the process.

## 2. Modules

| module | models | state in the code |
|---|---|---|
| `JobLifecycle` | what a pool promises of its jobs, with no threads: accepted in order, started in order while open, ended once; a withdrawn job never starts | abstract |
| `WorkerPool` | `worker_pool`, line by line: each critical section of `mutex_` an action, every callback, compare-and-swap and access to a reason outside it an action of its own | `queue`, `running`, `shutting_down`, `next_id` are the members; `requested`, `reason` the `cancellation_state` of a job; `worker`, `caller` program counters and locals; `cancelled_jobs` the local of `shutdown`; `events`, `reported` are history |
| `JobRunner` | `job_runner`, the catalog and `job_handle::cancel`, on the pool as `JobLifecycle` describes it | `contexts`, `paths_by_id`, `pending`, `seen_paths`, `jobs` are the members; `promise` the contexts' promises; `submit`, `owner`, `handler`, `canceller` program counters and locals; `status`, `open` are the variables of `JobLifecycle`; `observed` is history |
| `HttpServer` | `job_registry`, the handlers of POST, GET and DELETE and the browser's poller, on `JobRunner` | `registry` is `registry_` (the status in `last_event`); `uploads` the upload files; `post`, `deleter`, `removing` program counters; `view` what the poller has; the rest are the variables of `JobRunner` |
| `ModelCache` | `model_cache` for one profile, its fetcher, `purge`, and the end of the process | `target`, `staging` what the two paths name; `locked`, `inserted` the profile's mutex and its place in `profile_states_`; `pc` program counter of `ensure_ready`; the rest is history |
| `SeparationEngine` | `separation_engine::process` as the workers call it, with `model_session_pool` and the lazy load of `model_session` | `idle` is `buckets_`; `session` what a call's handle holds; `made`, `loaded` the sessions and which have a `model_`; `pc`, `call`, `left` locals of `process`; `files` the output directories |
| `JobConfig` | `job_template`, the config part of a POST, `apply_overrides`, `resolve_stem_indices`, the directory of a job and `make_zip`, with restarts | `base` is `base_config_`, `next_id` that of the registry; `jobs` the descriptors of accepted jobs, with what was asked for; `files` the stems on disk, with who wrote them; `epoch` counts processes |
| `CommandLine` | `parse_args` of `stemsmithd` as a fold over the arguments | - |
| `Daemon` | `main` with its signals, `server::start`, `run`, `stop`, the destructors, and what crow's app and server do in `run` and `stop` | `main`, `thread` program counters of the two threads; `running`, `svc` members of the server; `server`, `listening`, `shutting_down`, `created`, `stopped`, `io_stopped` crow's; `request`, `job` work in progress; `destroyed` the members that are gone |
| `MCWorkerPool`, `MCJobRunner`, `MCHttpServer`, `MCModelCache`, `MCSeparationEngine`, `MCJobConfig`, `MCDaemon` | symmetry, or values of constants, for the instances TLC checks | |
| `WorkerPoolProofs`, `WorkerPoolEventProofs` | theorems about `WorkerPool` | |
| `JobRunnerProofs`, `HttpServerProofs`, `ModelCacheProofs`, `SeparationEngineProofs`, `JobConfigProofs`, `DaemonProofs` | theorems about the module of that name | |

`HttpServer` extends `JobRunner`, whose variables it adds its own to: the two steps
of the runner that call an observer are joined with the registry's update
(`ServerNotify`, `ServerProgress`), the others leave the server alone. That it gives
the runner its own behaviour, step by step, is a theorem (`RunnerImplemented`).
`ModelCache` and `SeparationEngine` stand by themselves and are used as one step each by
what calls them: `SeparationEngine` takes `ensure_ready` as a step that may fail, `JobRunner` the
engine as `EngineReturns`. `JobConfig` and `Daemon` are the other way round: they
have a whole `submit`, a whole `process` or a whole job as one step, and the data or
the life around it. `Daemon` extends `CommandLine`.

`JobRunner` uses `JobLifecycle` as its pool (`Pool == INSTANCE JobLifecycle`):
its steps take the pool's actions as conjuncts. `WorkerPool` is shown to
implement `JobLifecycle` (`ImplementsLifecycle`), so the two modules meet in
that contract and need not be multiplied. Three facts of `WorkerPool` are used
besides it: a job has one owner at a time (`OneOwner`), which is why `JobRunner`
has one process per job for all events but `queued`; the `queued` event comes
from the enqueuing thread at any time after acceptance; and every accepted job
is got to (`EveryJobEnds`), which is the fairness of `Start`.

### WorkerPool in detail

A thread of `workers_` goes `poll` -> (`blocked` ->) `poll` -> `emit_running` ->
`process` -> `erase` -> `check` -> `emit_result`, or `read_reason` ->
`emit_cancelled`, and back. `cv_.wait` is the pair of `Block` and a
notification; `WakeSpuriously` is always possible. A caller goes through
`enqueue` (`Enqueue`, `EmitQueued`, `NotifyOne`), `cancel` (`Cancel`,
`RequestCancel`, `WriteReason`, `EmitCancelled`) or `shutdown` (`Shutdown`,
`NotifyAll`, `Join`, `EmitDrained`). Calls that change nothing (an `enqueue` or
a second `shutdown` on a closed pool, a `cancel` that finds no job) are
stuttering. `request_cancel` is one step inside `shutdown`, where the mutex keeps
the workers from looking at the flag, and two steps in `cancel`.

Not modelled: a callback that throws (it would end the process, or leave
`enqueue` before `notify_one`; the callback the runner passes for `queued` only
stores the event), and a call of `shutdown` from one of the pool's own threads.

### JobRunner in detail

`submit` is `Submit` (validation and the duplicate check), `PushJob`,
`InsertSeen` (catalog), `AddContext`, `Enqueue`, `EmitQueued`, `Register`,
`Replay`. `handle_event` is `Lookup`, `Notify`, `Fulfil` and runs on `Threads`:
one per call of submit and one per job. `process_job` is `BeginProcess`,
`Progress`, `ObserveProgress`, `EngineReturns`. `Destroy` is the destructor.

Not modelled: the branch of `submit` for a closed pool (the pool closes only in
the runner's destructor, which no call may overlap), the handle's own observer
and `set_observer`, the output directory and error text of a result, more than
one progress callback per job.

### HttpServer in detail

A POST is `SaveUpload`, `SubmitJob`, the runner's own steps of `submit`
(`ContinueSubmit`), and `AddEntry` or `Refuse`. The observer it passes with the job is
`job_registry::update`: a critical section (`Update`, inside `ServerNotify`,
`ServerProgress` and `EndDelete`), and the removal of the upload after a terminal
event, outside the lock (`RemoveUpload`). A DELETE is `BeginDelete` (the look at
the entry), `CancelJob` (`job_handle::cancel`) and `EndDelete`, which writes a
`cancelled` event of its own. `Poll` is a GET of the browser, which stops at a
terminal status.

An upload's path starts with the POST's id, so no two POSTs share a path, and
one constant stands for the call, its path and its entry (`Posts` are the runner's
`Requests`, and are among its `Paths`).

Not modelled: parsing of the request and the checks of its file part, what the stream
of an upload holds back (it is open until the handler returns, after `submit`, while
`SaveUpload` has the whole file on disk), and more than one DELETE of a job that gets as far as `cancel`. The zip of a download is in
`JobConfig`; `start`, `stop` and the destructor are in `Daemon`.

### ModelCache in detail

`ensure_ready` is `Call`, then `file_ready` with no lock (`Exists`, `Size`,
`Checksum`, `RemoveMismatch`), `state_for` (`FindState`, `InsertState`), `Lock`,
`file_ready` again, and `download_and_stage` (`CreateDirectories`,
`RemoveOldStaging`, `OpenStaging`, `Fetch`, `Verify`, `DropTarget`, `Rename`,
`DiscardStaging`). Every access to the disk is a step of its own. `BeginPurge`
and `PurgeFile` are `purge` and `purge_all`, which take no lock and remove the two
files one after the other. `Restart` ends the process at any point; another one
starts with the disk as it is.

Two exclusions are stated in the properties themselves. `raced`: when a
thread inserts the profile in `profile_states_` while another is in `state_for`, to look
for it or to insert it too, which is undefined
behaviour, the model lets every thread into the critical section from then on and the
properties say nothing more; without the exclusion, TLC shows a file that is
still being downloaded put in the place of the weights. `began = "corrupt"` in
`HandleStaysGood` (and any bad file in `NoErrorAlone`): a process that starts with
a corrupt file of the right size may lose good weights, because a call that has
read the corrupt file with no lock removes what a second call has put there in
the meantime.

Not modelled: other profiles, which share only the map, and progress callbacks
of a download.

### SeparationEngine in detail

A call of `process` is `Process`, `LoadAudio`, `Acquire` (the critical section of
`acquire`), `Construct` (the factory, outside it), `CheckInput`, `ResolveWeights`
and `LoadModel` (only where the session has no model yet), `Infer`,
`CreateDirectories`, `WriteStem` per stem, `EndOfLoop`, and `Release`, the
destructor of the handle. Every call of something outside may fail. An error and
an exception of the progress callback leave `process` in the same way. Workers
call again and again; `shared` records that another call has named the same
directory, of which `OutputWritten` says nothing.

Not modelled: the audio, the order of stems and stems named twice, and the pool's
own move operations, which run before it is used.

### JobConfig in detail

`Post` is a POST whose config part is the document: `from_json_string`, then
`PostRequest` (the two fields that the handler passes on), the id it takes
(`NextId`), and `submit` with its checks (`Accepted`, `apply_overrides`). `Submit` is
`service::submit` of a program that has created the service with a base template of
its own; `base` is then any template `from_json_string` could return, and the HTTP
server's is the default. `Run` is what the engine does with the template:
`resolve_stem_indices`, and the files, which replace those of the same name in the
directory. `make_zip` is the directory's content. `Restart` is a new process: a new
registry, the old disk. Documents are records of the three fields with every kind
of value each may have; a directory is the output root, one a client names, one
that begins with an id, or one named after an input.

`Submit` has two input names, so that two inputs may or may not share theirs.
A job that fails for another reason than its stems never leaves `queued` here.

Not modelled: the text of the JSON and `from_file`; directories within directories
other than the root; the uploads, which lie under the root too and would be in the
zip of a job whose directory is the root.

### Daemon in detail

`main` goes `ParseArgs`, `EnsureDirs`, `StartServer`, `InstallHandlers`, waits
(`SeeSignal`), and then `StopServer`; crow's `stop` is `RaiseShuttingDown`,
`CloseAcceptor`, `StopPool`, `StopIo`, because each of them meets the other thread;
then `JoinThread`, `DestroyMember` per member in the reverse of their declaration,
and `DestroyService`. The server's thread goes `CreateService`, `ReadAddress`,
`Bind`, `FillPool` per context, `ReadPort`, `Accept`, `LeaveIo`, `EndThread`. crow is
third-party code, and of it the model has the steps that `run` and `stop` share.
A signal kills the process until the handlers are installed.

A word on the command line is a number, `Text`, or a request for help. The values of
`--cache-root`, `--output-root` and `--bind-address` are taken as they are. After
`EnsureDirs` nothing looks at the command line any more and `argv` is forgotten, so
that states do not differ in it for nothing.

Not modelled: undefined behaviour of the vector of contexts while both threads use
it (the model takes it as it was at one moment, so the code can only do worse), a
job's events after the registry is destroyed, and a second server in one process.

## 3. What TLC checks

| run | bounds | shows |
|---|---|---|
| `pool` | 2 workers, 2 callers, 2 jobs, one reason to pass | `OneOwner`, `StatusesInOrder`, `NoLostWakeup`, `StopReachesEveryJob`, `ShutdownComplete`, `ReasonReported`; `WorkerPool` implements `JobLifecycle`; `ShutdownReturns`, `CancelledJobEnds`, `EveryJobEnds`, with the `Fairness` of `ScheduledSpec` |
| `pool_queued`, `pool_reason` | 1 worker, 1 caller, 1 job | violated; see below |
| `runner_safety` | 2 paths, 2 calls of submit, one at a time | `OwnContext`, `MapsAgree`, `NoTerminalStranded`, `ResultIsJobsOwn`; `FutureResolved`, with the runner's `Fairness` |
| `http_jobs` | 1 POST, with a DELETE and a poller | `StatusTruthful`, `UploadKept`, `UploadCleared`, `EndStays`; `PollerStops` with `ServerFairSpec` |
| `model_cache` | 3 threads, 1 profile, any file on disk | `TargetSound`, `NoNeedlessDownload`, `StagingCleared`, `HandleStaysGood`, `NoErrorAlone` |
| `engine_sessions` | 2 workers, 2 profiles, 2 stems, 1 directory | `SessionsAccounted`, `SessionsBounded`, `OutputWritten` |
| `job_config` | 2 jobs, 6 lists of stems, 5 directories, 1 restart | `RunsAsConfigured`, `DownloadAsAsked` |
| `daemon` | 2 arguments, 2 contexts, 0 or 2 hardware threads, 1 request and 1 job at a time | `WorkersInRange`, `MembersOutliveUsers`; `StopsOnceUp` with the daemon's `FairSpec` |
| `runner_concurrent`, `http_download`, `daemon_stop` | as above; `runner_concurrent` with two calls of submit at once | violated; see below |

`MaxJobs` bounds the number of accepted jobs (`next_id_`), `Texts` the reasons a
caller may pass, `Requests` the calls of submit, `MaxSubmitters` how many of
them overlap. Two jobs and two callers are what the races need: one job queued
while another runs, a cancel beside a shutdown or an enqueue, an event delivered
beside its replay. Two workers add that a notification wakes the wrong one or
that both take. The second call of submit may name the same path again, after
the first has released it. Nothing in the code depends on there being more of
either, and the safety properties are proved for any number.

`Posts`, that is `Requests`, bounds the requests to the server. One is enough for the properties of
`http_jobs`: an entry is touched only by the POST, the DELETE and the events of
its own job, and the way events find their job is what the runs of `JobRunner`
check with two. (The same invariants were checked once with two POSTs, 7.4
million states, too many to keep as a run, and are proved for any number.) `MaxSubmitters = 1` leaves out
the race of finding 3. `Threads` of `ModelCache` is three: one that reads with no
lock, one that downloads, one that waits for the mutex.

`runner_safety` and `pool` check liveness properties too, which TLC cannot do under its
own symmetry; `NamedSpec` of `MCJobRunner` and of `MCWorkerPool` takes its place. The
one asks that the call of submit that begins first be one that is given, and name a path
that is given; the other that the thread that enqueues the first job, and the worker
that is the first to take one, be given. Paths and calls, workers and callers are
interchangeable, so every other behaviour is one of these with other names. The one of
`MCWorkerPool` has two bounds besides: the processor throws on the first job only,
and the thread that closes the pool is not the one that enqueued the first job. Without
it, and under TLC's symmetry in place of the names, the invariants and the refinement
were checked too (269,531 states), and they are proved for any instance.

`JobConfig` has lists with a stem of both models, of the larger only, of none, in
another order than the model's, and twice; two jobs are what it takes to share a
directory, and a restart between them what it takes to share an id.
`Daemon` has two arguments, an option and its value; numbers on either side of each
boundary, and `UlongSize` in the place of 2^64; two contexts, so that one can be
there and the other not yet when `stop` comes.

`SeparationEngine` has two profiles so that a session can be in the wrong bucket,
two stems so that one write can fail after another, and one directory so that
every call finds what an earlier one has left. `MaxSessions` is five, one more
than `SessionsBounded` allows for two workers and two profiles, so that the bound
never stands in for the property.

Deadlock is checked for `ModelCache` and `SeparationEngine` only: after a shutdown every thread of the
pool has really stopped, a server whose jobs have ended has nothing to do, a
process that has exited takes no step, and no more jobs than `MaxJobs` are
configured.

TLC's symmetry, of calls of POST, threads, profiles and stems, is used for safety only.

### Fairness

`ScheduledSpec`: every thread inside the pool's code keeps running (weak
fairness of each thread's step: mutexes are only held for a moment, and a
thread that can run is scheduled); `processor_` returns once its stop flag is
set, as `process_job` does at its next progress callback. Callers are never
obliged to call, and spurious wake-ups never have to happen. `EveryJobEnds` has
the further premise that `processor_` always returns. `FairSpec` of `JobRunner` is the same for
its threads, with the pool's promise that it gets to every job. `ServerFairSpec` of
`HttpServer` adds the handlers' threads and the poller, which repeats its request
until it sees an end; nobody is obliged to POST or DELETE. `FairSpec` of `Daemon`:
both threads are scheduled, a handler returns (it does no more than `submit`, a copy
or a zip), and a job that was told to stop ends. Nobody is obliged to send a signal
or a request, and a job that was not told to stop need not end.

### Where the code does not do what it says

Each is a run that TLC must find violated; `PROJECT.json` quotes the line.

1. `QueuedFirst`: `worker_pool_test.cpp` expects the statuses of a job to begin with
   `queued`, and `job_runner_test.cpp` those an observer is told. `enqueue` reports
   `queued` after it has released the mutex, so that the worker may report `running`,
   and the end, before it. The tests pass as long as the enqueuing thread is quicker.
2. `ReasonAsGiven`: `worker_pool_test.cpp` expects a job that is cancelled while it runs
   to be reported with the reason `cancel` was given. `request_cancel` sets the flag
   first and writes the reason then; a processor that watches the flag, as the one of
   the test does, may return and the worker find no reason yet, and report the default.
3. `OwnContext` with two overlapping calls of `submit`: the catalog is shared
   with no lock, and the HTTP server submits from several threads. The model
   takes every access to a container as atomic, which the standard does not
   promise, so the code can only do worse.
4. `DownloadWhenDone`: the registry entry is added after `submit` has returned, so
   the end of a short job may find no entry; it then stays `queued` for the
   client and its download is refused for good.
5. `CtrlCStops`: a signal that is seen while the server is still being set up is
   lost. If crow's server is not there yet (it is made after the service, which reads
   a manifest and makes directories), `app_.stop()` does nothing and the join waits
   for ever, with the server up and its handlers run; if it is half made, a context
   may be missed by the loop that stops them, or the port asked of a closed acceptor,
   which throws out of the thread.

What does hold in each case is a property of a passing run, which says nothing where the
violated one fails:

* of the order, `StatusesInOrder`: each status is reported once at most, there is one end,
  and it comes after `running`, wherever `queued` comes;
* of the reason, `ReasonReported`: a job that never ran, and one that shutdown told to
  stop, is reported with the reason it was cancelled for, and one that a cancel met while
  it ran with that or the default, never with another's. That a reason stays once it is
  written is `FirstReasonStays`, which is proved;
* `OwnContext` with one submit at a time;
* `PollerStops` and `StatusTruthful`: a job that ends after its entry was added does
  reach the client, with a status that is true of it;
* `StopsOnceUp`: a signal that is seen after the set-up ends the process.

A cancel may return true and the job complete: nothing in the repository says
otherwise, and `ResultIsJobsOwn` says that the future has the end the pool has reported
and that the observers were told of it, once.

One more was met while modelling and has no run: `parse_value` answers the same to an
option with no value in it and to a word that is not the option, so that an option and
its value as two arguments, which the usage line and the README show, is refused as an
unknown argument. `CommandLine` has the branches as they are.

### Mutants

Every property has a mutant in `PROJECT.json`: a variant of a definition, written
right before it in its module, as a plausible slip would leave the code, under
which TLC finds the property violated.

## 4. What is proved

Every theorem says `Spec => []P` for a property `P` that a run checks, or that `Spec`
implies an action property or the abstract specification, for every value of the
constants that their assumptions allow. Each rests on an inductive invariant: a
conjunction of named parts, which was model-checked on the instance of the run before
it was proved. The proofs go by the actions, and within an action by the parts that it
can disturb. No theorem is about a fairness condition.

### WorkerPool

`WorkerPoolProofs` and `WorkerPoolEventProofs`, for every finite non-empty set of workers, every set of callers and reasons, and every
`MaxJobs`; the only assumptions are `WorkersAssumption` and `MaxJobsAssumption`.

* `TypeCorrect`: `Spec => []TypeOK`. The invariant is `TypeInv`, which adds that a
  thread past the start of an operation has a job (`LocalsOK`), without which
  `worker[w].job` could not be used as an id.
* `OneOwnerCorrect`: `Spec => []OneOwner`. `OneOwner` is not inductive. The
  inductive invariant `OwnerInv` adds:
  * `QueueInv`: ids in `queue` and in `cancelled_jobs` increase, so that no id is
    there twice; the queue is empty once the pool is closed;
  * `Exclusive` and `Kept`: `OneOwner` by pairs of owners, which is the form
    each step can be argued about;
  * `EndsOnce`: one terminal event at most;
  * `Requests`: why the compare-and-swap of a `cancel` that took its job off the
    queue cannot fail, so that `return false` in `worker_pool.cpp:91` never drops
    a job: a queued job is not requested, and any other target of a
    request has been started.

  The proof goes by the actions. Those that move no job (`QuietStep`,
  `WorkerQuietStep`, `CallerQuietStep`) are done once; each handover
  (`Enqueue`, `Take`, `Cancel`, `Shutdown`, the three that emit an end) has a
  case of its own, on lemmas about `Append`, `Tail` and `RemoveAt` on a queue of
  increasing ids. `OwnerIsOne` turns the pairs back into `OneOwner`.

* `StopReachesCorrect`: `Spec => []StopReachesEveryJob`. The invariant (`StopInv`) says
  that a job in `processor_` is in `running_`, where `shutdown` finds it, and that its flag
  is set once the pool is closed; that a closed pool has an empty queue, so that no worker
  takes a job afterwards, is a conjunct of `OwnerInv`.
* `FirstReasonCorrect`: `Spec => FirstReasonStays`, an action property. Only the one
  thread whose compare-and-swap has set a flag writes the reason behind it, and at most one
  is between the two (`ReasonInv`).
* `StatusesInOrderCorrect`: `Spec => []StatusesInOrder`. `OneOwner` leaves no room for
  two ends; that `queued` and `running` are not said twice takes who is still to say
  them (`EventsInv`): one caller at most has the `queued` of a job to report
  (`AnnouncedInv`), and a job is said to run only by the worker that took it
  (`BegunInv`).
* `ReasonReportedCorrect`: a reason that is written was given by a caller
  (`GivenInv`), what a thread has read is that or the default (`ReadInv`), and what it
  reports is what it has read (`ToldInv`).
* `ShutdownCompleteCorrect`: the `shutdown` that closed the pool reports what it took
  off the queue only after every worker has gone, and returns after both (`DoneInv`).
* `NoLostWakeupCorrect`: while a worker sleeps, the queued jobs are no more than the
  workers that are awake on their way to the queue and the threads that are about to
  notify. The property counts, and is inductive with what makes counting possible
  (`WakeInv`): there are finitely many of both. It is the one place where the finiteness
  of `Workers` counts.
* `LifecycleImplemented`: `Spec => ImplementsLifecycle`, the refinement. `StatusInv`
  says which abstract status goes with which place of a job; then each action is one
  step of `JobLifecycle`, with a lemma per abstract step, or a stutter.

### JobRunner

`JobRunnerProofs`, for every set of paths and every finite set of calls of submit;
the assumptions are `RequestsAssumption` and `NoneAssumption` (`None` is no call, no
path and no event).

* `RunnerTypeCorrect`: `Spec => []TypeOK`, however many calls of submit overlap. Its
  invariant (`AnyInv`) has the locals of each program counter, the one job per call
  (`JobsInv`), and that no thread begins with an event before it is done with the last
  (`ThreadsInv`).
* `OwnContextCorrect`, `MapsAgreeCorrect`, `NoTerminalStrandedCorrect` and
  `ResultIsJobsOwnCorrect` have the hypothesis `MaxSubmitters = 1`: calls of submit do
  not overlap. It is needed: `runner_concurrent` has two, and violates `OwnContext`. It
  is used in one place, that of two calls in submit at once (`OneInv`), from which follows
  that `submit` reads from the catalog the job it has put there, so that a context is
  under its own path.

The invariant of the four (`RunnerInv`) follows an end from the pool to the future:

  * `MapsInv` and `CatalogInv`: what is in `contexts_` and `paths_by_id_` is of the call
    that has put it there and has not been taken away; and the catalog agrees;
  * `PlaceInv`: the end of a job is in at most one place (`OneEnd`): with the pool's
    thread, in `pending_events_`, in what `submit` replays, with the thread of submit, or
    in the promise;
  * `KeptInv`: once the id is registered, it is not in `pending_events_`, since
    `Register` takes what was kept and registers the id under one lock;
  * `TakenInv` and `ContextInv`: the maps forget a job when its end is looked up, and not
    before; and whoever has looked a context up has that of its job;
  * `ObservedInv`: the observers have been told of an end exactly if it is on its way
    from them to the promise, or there.

### HttpServer

`HttpServerProofs`, for any finite set of POSTs; the assumptions are those of
`JobRunner` and `PostsAssumption` (a POST has a path of its own).

* `RunnerImplemented`: `ServerSpec => Spec`. Every step of the server is one of
  `JobRunner` or leaves its variables alone, so that what is proved of the runner
  holds in the server, and its lemmas serve here.
* `ServerTypeCorrect` and `UploadClearedCorrect` hold however many calls of submit
  overlap. A POST has an entry only once it is accepted (`EntryInv`), so that a new
  upload is none a client was told the end of; every update that writes an end leaves
  its thread with the upload to remove.
* `StatusTruthfulCorrect`, `UploadKeptCorrect` and `EndStaysCorrect` have the
  hypothesis `MaxSubmitters = 1`, as the runner's theorems on which they rest: an
  event that reaches the registry is of the job of that entry (`NotifiedJob`, from
  `ContextInv` and `PlaceInv`). The invariant (`ServerInv`) adds:
  * `PostInv`: which points of a POST go with which of its call of submit;
  * `CancelInv`: a `cancel` that answers true has withdrawn the job or told it to
    stop, and neither is taken back (`OverStays`): this is why the event DELETE
    writes of its own is true, whatever has happened to the job since;
  * `TrueInv` and `UploadInv`: an entry is true of its job, and an upload is removed,
    or about to be, only for a job that is over;
  * `LastInv`: the pool's thread has nothing but the end to tell of a job that has
    ended. With `PostInv`, by which `submit` has nothing left to replay once there is
    an entry, this is `EndStays`: an update is over an end only if it is one.

### ModelCache

`ModelCacheProofs`, for any set of threads and with no assumption. The invariant
(`CacheInv`) gives the type invariant and the five properties of the run:

  * `MutexInv`: at most one thread is in the critical section, unless threads have raced in
    `state_for`;
  * `StagingInv`: a staging file belongs to the thread that downloads under the mutex, or
    was left by a process that has ended; what has been verified stays good until it is
    renamed, or is purged;
  * `TargetInv`: weights that are there were checked, or were there when the process
    started; nobody downloads while good ones are there; and where the process
    did not begin with a corrupt file, nobody removes them for their checksum;
  * `AloneInv`: without failures of the outside, purges or bad files, what a call
    expects to find is there.

### SeparationEngine

`SeparationEngineProofs`, for every finite set of workers and any profiles, stems,
directories and `MaxSessions`; the assumptions are `WorkersAssumption` and
`MaxSessionsAssumption`. The invariant (`EngineInv`):

  * `HeldInv`, `IdleInv`, `KeptInv`: each session is held by one call of its profile,
    or once in its profile's bucket, and never neither; they give
    `SessionsAccountedCorrect`;
  * `BoundInv`: the sessions of a profile and the calls that are about to make one are
    together no more than the workers. A call goes to make one when it has found none
    idle, so that all there are were held by other calls, each by one: there are fewer
    of them than workers. This gives `SessionsBoundedCorrect`, which looks at the end of
    two steps that are not atomic;
  * `SharedInv`, `WrittenInv`: of two calls in one directory, the one that may be
    written over is in `shared`; what any other has written is still there; they give
    `OutputWrittenCorrect`.

### Daemon

`DaemonProofs`, for any command line within `MaxArguments`, any numbers of contexts
and hardware threads; the assumptions are `CommandLineAssumption` and
`DaemonAssumption`.

* `MembersOutliveUsersCorrect`: members are destroyed after the join (`JoinedInv`),
  handlers run while the thread does (`RequestInv`), the service goes last
  (`ServiceInv`); nothing makes a thread that has ended run again.
* `WorkersInRangeCorrect` and `DaemonTypeCorrect` need to know that `parse_args` leaves
  `--workers` a natural number, whatever the command line. `parse_args` is a fold;
  `FoldReads` is proved by induction on the number of arguments: on the set of numbers
  for which the claim holds (`InductionInSets`, from the library's theorem that a
  well-founded relation has minimal elements), after `FoldExists` has shown that the
  function the fold is defined by exists. `TakeReads` is the step: any argument keeps
  the options well-formed.

### JobConfig

`JobConfigProofs`, for every set of lists of stems, every set of base templates that
are valid for their own profile, and every `MaxJobs`; the only assumption is
`JobConfigAssumption`. One inductive invariant, `ConfigInv`, gives the three theorems
`ConfigTypeCorrect`, `RunsAsConfiguredCorrect` and `DownloadCorrect`:

* `JobsInv`: the template of an accepted job has stems of its profile, or the excuse
  that `RunsAsConfigured` names; and the stems that were asked for are those that
  `resolved_stems` gives;
* `IdsInv` and `ApartInv`: in one process, jobs that name no directory have those of
  ids below `next_id`, all different;
* `FilesInv`: a file lies where its job puts it and is one its job writes, and all
  that a completed job writes is there, by it or by another job.

`DownloadAsAsked` follows, because a file in the directory of a job that shares it
with no other can only be its own. The lemmas under it are about the operators:
`PostRequestType` (what a document asks for is what its request has),
`OverridesApplied`, and `ResolvedAsAnnounced`: the indices that
`resolve_stem_indices` picks out of the model's outputs are exactly the stems that
`resolved_stems` announces, and it fails exactly where a stem is not the profile's.

### Only model-checked

* All liveness: `ShutdownReturns`, `CancelledJobEnds`, `EveryJobEnds`, `FutureResolved`,
  `PollerStops`, `StopsOnceUp`. It takes fairness, and `ENABLED`, which the proof
  system does not have.
* The properties of the runner and the server where calls of submit overlap, other
  than their types and `UploadCleared`: those of the runner do not hold there, and those
  of the server rest on them.

## 5. Plan

In order of importance:

1. `JobRunner`: `set_observer` and the handle's observer, which is called under a
   mutex.
2. The frontend's poller with requests that fail.

Not planned: `audio_io` and the inference of `model_session` (numeric code),
`http_weight_fetcher` beyond its outcomes (libcurl), `model_manifest`, `json_utils`,
`bootstrap`, the frontend's rendering, vendored code (crow but for what `Daemon` has
of it).
