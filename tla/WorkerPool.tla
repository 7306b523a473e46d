----------------------------- MODULE WorkerPool -----------------------------
(***************************************************************************)
(* stemsmith::worker_pool (src/src/worker_pool.cpp): threads that take     *)
(* jobs from a queue guarded by mutex_ and cv_, and callers that enqueue,  *)
(* cancel and shut down concurrently.                                      *)
(*                                                                         *)
(* A critical section of mutex_ calls no code of the pool's user, so each  *)
(* is one action.  Everything done outside it is a step of its own: the    *)
(* callback invocations, the compare-and-swap on a job's stop flag, the    *)
(* write of the reason under reason_mutex, and the worker's reads of both. *)
(*                                                                         *)
(* A definition with no comment that stands directly before the one it     *)
(* varies (AcceptsUnchecked before Accepts) is a mutant: PROJECT.json puts *)
(* it in the other's place to show that a property depends on it.          *)
(***************************************************************************)
EXTENDS Integers, Sequences, FiniteSets, SequencesExt

CONSTANTS
    Workers,   \* the threads of workers_
    Callers,   \* threads that call enqueue, cancel and shutdown
    Texts,     \* the reasons callers pass to cancel; "" is its default
    MaxJobs    \* bound on next_id_

NoReason == ""
DefaultReason == "Job cancelled"
ShutdownReason == "Worker pool shutting down"

ASSUME WorkersAssumption == IsFiniteSet(Workers) /\ Workers # {}
ASSUME MaxJobsAssumption == MaxJobs \in Nat

VARIABLES
    queue,           \* queue_: ids in the order they will be taken
    running,         \* the keys of running_
    shutting_down,   \* shutting_down_
    next_id,         \* next_id_
    requested,       \* cancellation_state::requested, one per job
    reason,          \* cancellation_state::reason, one per job
    worker,          \* program counter and locals of worker_loop
    caller,          \* program counter and locals of a call
    cancelled_jobs,  \* local of the shutdown() that won
    events,          \* history: the statuses callback_ was given, per job
    reported         \* history: the error text of the job's cancelled event

vars == <<queue, running, shutting_down, next_id, requested, reason,
          worker, caller, cancelled_jobs, events, reported>>

jobVars == <<requested, reason>>
poolVars == <<queue, running, shutting_down, next_id>>
eventVars == <<events, reported>>

JobIds == 0 .. MaxJobs - 1
NoJob == -1        \* static_cast<std::size_t>(-1)

Terminal == {"completed", "failed", "cancelled"}
Statuses == {"queued", "running"} \union Terminal
AllReasons == Texts \union {NoReason, DefaultReason, ShutdownReason}

WorkerPc == {"poll", "blocked", "emit_running", "process", "erase", "check",
             "read_reason", "emit_cancelled", "emit_result", "exited"}
CallerPc == {"idle", "emit_queued", "notify_one", "request", "write_reason",
             "emit_cancelled", "notify_all", "join", "emit_drained"}

(* A worker's `next` lives from the moment it is taken to its last event.  *)
HoldsJob(w) == worker[w].pc \notin {"poll", "blocked", "exited"}

(* Between running_.emplace and running_.erase.                            *)
InRunning(w) == worker[w].pc \in {"emit_running", "process", "erase"}

(* The caller has moved its job out of queue_, which is now its to finish. *)
Withdrew(c) == caller[c].withdrew

InQueue(j) == \E i \in DOMAIN queue : queue[i] = j

WorkerLocals ==
    [pc : WorkerPc, job : JobIds \union {NoJob}, threw : BOOLEAN, reason : AllReasons]

CallerLocals ==
    [pc : CallerPc, job : JobIds \union {NoJob}, withdrew : BOOLEAN, reason : AllReasons]

(* The values of the variables, and that ids are only ever those given out *)
(* by next_id_.                                                            *)
TypeOK ==
    /\ queue \in Seq(JobIds)
    /\ running \in SUBSET JobIds
    /\ shutting_down \in BOOLEAN
    /\ next_id \in 0 .. MaxJobs
    /\ requested \in [JobIds -> BOOLEAN]
    /\ reason \in [JobIds -> AllReasons]
    /\ worker \in [Workers -> WorkerLocals]
    /\ caller \in [Callers -> CallerLocals]
    /\ cancelled_jobs \in Seq(JobIds)
    /\ events \in [JobIds -> Seq(Statuses)]
    /\ reported \in [JobIds -> AllReasons]

FreshWorker == [pc |-> "poll", job |-> NoJob, threw |-> FALSE, reason |-> NoReason]
IdleCaller == [pc |-> "idle", job |-> NoJob, withdrew |-> FALSE, reason |-> NoReason]

Init ==
    /\ queue = <<>>
    /\ running = {}
    /\ shutting_down = FALSE
    /\ next_id = 0
    /\ requested = [j \in JobIds |-> FALSE]
    /\ reason = [j \in JobIds |-> NoReason]
    /\ worker = [w \in Workers |-> FreshWorker]
    /\ caller = [c \in Callers |-> IdleCaller]
    /\ cancelled_jobs = <<>>
    /\ events = [j \in JobIds |-> <<>>]
    /\ reported = [j \in JobIds |-> NoReason]

(* emit_event: the callback runs on the emitting thread, no lock held.     *)
Emit(j, status) == events' = [events EXCEPT ![j] = Append(@, status)]

(* emit_cancelled: the event's error text is the reason.                   *)
EmitReason(j, text) ==
    /\ Emit(j, "cancelled")
    /\ reported' = [reported EXCEPT ![j] = text]

Call(c, pc, j, withdrew, text) ==
    caller' = [caller EXCEPT ![c] =
                 [pc |-> pc, job |-> j, withdrew |-> withdrew, reason |-> text]]

GoWorker(w, pc) == worker' = [worker EXCEPT ![w].pc = pc]
GoCaller(c, pc) == caller' = [caller EXCEPT ![c].pc = pc]
Return(c) == caller' = [caller EXCEPT ![c] = IdleCaller]

-----------------------------------------------------------------------------
(* enqueue                                                                 *)

(* A pool that does not accept makes enqueue return -1, changing nothing.  *)
AcceptsUnchecked == TRUE
Accepts == ~shutting_down

Enqueue(c) ==
    /\ caller[c].pc = "idle"
    /\ Accepts
    /\ next_id < MaxJobs
    /\ next_id' = next_id + 1
    /\ queue' = Append(queue, next_id)
    /\ Call(c, "emit_queued", next_id, FALSE, NoReason)
    /\ UNCHANGED <<running, shutting_down, jobVars, worker, cancelled_jobs, eventVars>>

EmitQueued(c) ==
    /\ caller[c].pc = "emit_queued"
    /\ Emit(caller[c].job, "queued")
    /\ GoCaller(c, "notify_one")
    /\ UNCHANGED <<poolVars, jobVars, worker, cancelled_jobs, reported>>

Blocked == {w \in Workers : worker[w].pc = "blocked"}

(* cv_.notify_one wakes one sleeper; with none asleep it does nothing.     *)
NotifiesIfFirst == Blocked # {} /\ Len(queue) = 1
Notifies == Blocked # {}

NotifyOne(c) ==
    /\ caller[c].pc = "notify_one"
    /\ IF Notifies THEN \E w \in Blocked : GoWorker(w, "poll")
                   ELSE UNCHANGED worker
    /\ Return(c)
    /\ UNCHANGED <<poolVars, jobVars, cancelled_jobs, eventVars>>

-----------------------------------------------------------------------------
(* cancel                                                                  *)

QueueKept(i) == queue
QueueWithout(i) == RemoveAt(queue, i)

(* The lookup under mutex_.  A job found in neither place makes cancel     *)
(* return false, which changes nothing.                                    *)
Cancel(c, j, text) ==
    /\ caller[c].pc = "idle"
    /\ \/ \E i \in DOMAIN queue : /\ queue[i] = j
                                 /\ queue' = QueueWithout(i)
       \/ /\ ~InQueue(j)
          /\ j \in running
          /\ UNCHANGED queue
    /\ Call(c, "request", j, InQueue(j), text)
    /\ UNCHANGED <<running, shutting_down, next_id, jobVars, worker,
                   cancelled_jobs, eventVars>>

AlreadyRequested(j) == requested[j]

(* The compare-and-swap of request_cancel; the loser's cancel returns      *)
(* false, from either of its two branches.                                 *)
RequestCancel(c) ==
    /\ caller[c].pc = "request"
    /\ LET j == caller[c].job IN
       IF AlreadyRequested(j)
       THEN /\ Return(c)
            /\ UNCHANGED requested
       ELSE /\ requested' = [requested EXCEPT ![j] = TRUE]
            /\ GoCaller(c, "write_reason")
    /\ UNCHANGED <<poolVars, reason, worker, cancelled_jobs, eventVars>>

GivenReason(text) == IF text = NoReason THEN DefaultReason ELSE text

(* Mutant: the cancel of a queued job returns without its event.           *)
WriteReason_NoEvent(c) ==
    /\ caller[c].pc = "write_reason"
    /\ reason' = [reason EXCEPT ![caller[c].job] = GivenReason(caller[c].reason)]
    /\ Return(c)
    /\ UNCHANGED <<poolVars, requested, worker, cancelled_jobs, eventVars>>

WriteReason(c) ==
    /\ caller[c].pc = "write_reason"
    /\ reason' = [reason EXCEPT ![caller[c].job] = GivenReason(caller[c].reason)]
    /\ IF Withdrew(c) THEN GoCaller(c, "emit_cancelled") ELSE Return(c)
    /\ UNCHANGED <<poolVars, requested, worker, cancelled_jobs, eventVars>>

(* cancellation_reason                                                     *)
ReadDefault(j) == DefaultReason
ReadReason(j) == IF reason[j] = NoReason THEN DefaultReason ELSE reason[j]

EmitCancelled(c) ==
    /\ caller[c].pc = "emit_cancelled"
    /\ EmitReason(caller[c].job, ReadReason(caller[c].job))
    /\ Return(c)
    /\ UNCHANGED <<poolVars, jobVars, worker, cancelled_jobs>>

-----------------------------------------------------------------------------
(* shutdown                                                                *)

StoppedIfQueued(j) == InQueue(j) /\ ~requested[j]
Stopped(j) == (InQueue(j) \/ j \in running) /\ ~requested[j]

(* The critical section: close, move the queue to cancelled_jobs, and set  *)
(* the stop flag and reason of every queued and running job that has none. *)
(* A second shutdown returns at once and changes nothing.                  *)
Shutdown(c) ==
    /\ caller[c].pc = "idle"
    /\ ~shutting_down
    /\ shutting_down' = TRUE
    /\ cancelled_jobs' = queue
    /\ queue' = <<>>
    /\ requested' = [j \in JobIds |-> requested[j] \/ Stopped(j)]
    /\ reason' = [j \in JobIds |-> IF Stopped(j) THEN ShutdownReason ELSE reason[j]]
    /\ GoCaller(c, "notify_all")
    /\ UNCHANGED <<running, next_id, worker, eventVars>>

(* Mutant: no notification.                                                *)
NotifyAll_None(c) ==
    /\ caller[c].pc = "notify_all"
    /\ GoCaller(c, "join")
    /\ UNCHANGED <<poolVars, jobVars, worker, cancelled_jobs, eventVars>>

NotifyAll(c) ==
    /\ caller[c].pc = "notify_all"
    /\ worker' = [w \in Workers |-> IF w \in Blocked
                                    THEN [worker[w] EXCEPT !.pc = "poll"]
                                    ELSE worker[w]]
    /\ GoCaller(c, "join")
    /\ UNCHANGED <<poolVars, jobVars, cancelled_jobs, eventVars>>

OneExited == \E w \in Workers : worker[w].pc = "exited"
AllExited == \A w \in Workers : worker[w].pc = "exited"

Join(c) ==
    /\ caller[c].pc = "join"
    /\ AllExited
    /\ GoCaller(c, "emit_drained")
    /\ UNCHANGED <<poolVars, jobVars, worker, cancelled_jobs, eventVars>>

EmitDrained(c) ==
    /\ caller[c].pc = "emit_drained"
    /\ IF cancelled_jobs = <<>>
       THEN /\ Return(c)
            /\ UNCHANGED <<cancelled_jobs, eventVars>>
       ELSE /\ EmitReason(Head(cancelled_jobs), ReadReason(Head(cancelled_jobs)))
            /\ cancelled_jobs' = Tail(cancelled_jobs)
            /\ UNCHANGED caller
    /\ UNCHANGED <<poolVars, jobVars, worker>>

-----------------------------------------------------------------------------
(* worker_loop                                                             *)

WaitForShutdown == shutting_down
WaitPredicate == shutting_down \/ queue # <<>>

(* cv_.wait with a false predicate releases mutex_ and sleeps.             *)
Block(w) ==
    /\ worker[w].pc = "poll"
    /\ ~WaitPredicate
    /\ GoWorker(w, "blocked")
    /\ UNCHANGED <<poolVars, jobVars, caller, cancelled_jobs, eventVars>>

WakeSpuriously(w) ==
    /\ worker[w].pc = "blocked"
    /\ GoWorker(w, "poll")
    /\ UNCHANGED <<poolVars, jobVars, caller, cancelled_jobs, eventVars>>

Exit(w) ==
    /\ worker[w].pc = "poll"
    /\ queue = <<>>
    /\ shutting_down
    /\ GoWorker(w, "exited")
    /\ UNCHANGED <<poolVars, jobVars, caller, cancelled_jobs, eventVars>>

StaleId(w) == worker[w].job
TakenId(w) == Head(queue)

Take(w) ==
    /\ worker[w].pc = "poll"
    /\ queue # <<>>
    /\ queue' = Tail(queue)
    /\ running' = running \union {TakenId(w)}
    /\ worker' = [worker EXCEPT ![w] = [pc |-> "emit_running", job |-> Head(queue),
                                        threw |-> FALSE, reason |-> NoReason]]
    /\ UNCHANGED <<shutting_down, next_id, jobVars, caller, cancelled_jobs, eventVars>>

EmitRunning(w) ==
    /\ worker[w].pc = "emit_running"
    /\ Emit(worker[w].job, "running")
    /\ GoWorker(w, "process")
    /\ UNCHANGED <<poolVars, jobVars, caller, cancelled_jobs, reported>>

(* processor_ returns or throws; it may or may not look at the stop flag.  *)
Process(w) ==
    /\ worker[w].pc = "process"
    /\ \E threw \in BOOLEAN :
         worker' = [worker EXCEPT ![w] = [@ EXCEPT !.pc = "erase", !.threw = threw]]
    /\ UNCHANGED <<poolVars, jobVars, caller, cancelled_jobs, eventVars>>

Erase(w) ==
    /\ worker[w].pc = "erase"
    /\ running' = running \ {worker[w].job}
    /\ GoWorker(w, "check")
    /\ UNCHANGED <<queue, shutting_down, next_id, jobVars, caller, cancelled_jobs, eventVars>>

CheckRequested(w) ==
    /\ worker[w].pc = "check"
    /\ GoWorker(w, IF requested[worker[w].job] THEN "read_reason" ELSE "emit_result")
    /\ UNCHANGED <<poolVars, jobVars, caller, cancelled_jobs, eventVars>>

ReadReasonStep(w) ==
    /\ worker[w].pc = "read_reason"
    /\ worker' = [worker EXCEPT ![w] = [@ EXCEPT !.pc = "emit_cancelled",
                                                 !.reason = ReadReason(worker[w].job)]]
    /\ UNCHANGED <<poolVars, jobVars, caller, cancelled_jobs, eventVars>>

(* Mutant: no `continue` after emit_cancelled.                             *)
EmitWorkerCancelled_FallThrough(w) ==
    /\ worker[w].pc = "emit_cancelled"
    /\ EmitReason(worker[w].job, worker[w].reason)
    /\ GoWorker(w, "emit_result")
    /\ UNCHANGED <<poolVars, jobVars, caller, cancelled_jobs>>

EmitWorkerCancelled(w) ==
    /\ worker[w].pc = "emit_cancelled"
    /\ EmitReason(worker[w].job, worker[w].reason)
    /\ worker' = [worker EXCEPT ![w] = FreshWorker]
    /\ UNCHANGED <<poolVars, jobVars, caller, cancelled_jobs>>

EmitResult(w) ==
    /\ worker[w].pc = "emit_result"
    /\ Emit(worker[w].job, IF worker[w].threw THEN "failed" ELSE "completed")
    /\ worker' = [worker EXCEPT ![w] = FreshWorker]
    /\ UNCHANGED <<poolVars, jobVars, caller, cancelled_jobs, reported>>

-----------------------------------------------------------------------------

CallerStep(c) ==
    \/ Enqueue(c)
    \/ EmitQueued(c)
    \/ NotifyOne(c)
    \/ \E j \in JobIds, text \in Texts : Cancel(c, j, text)
    \/ RequestCancel(c)
    \/ WriteReason(c)
    \/ EmitCancelled(c)
    \/ Shutdown(c)
    \/ NotifyAll(c)
    \/ Join(c)
    \/ EmitDrained(c)

WorkerStep(w) ==
    \/ Block(w)
    \/ WakeSpuriously(w)
    \/ Exit(w)
    \/ Take(w)
    \/ EmitRunning(w)
    \/ Process(w)
    \/ Erase(w)
    \/ CheckRequested(w)
    \/ ReadReasonStep(w)
    \/ EmitWorkerCancelled(w)
    \/ EmitResult(w)

Next ==
    \/ \E c \in Callers : CallerStep(c)
    \/ \E w \in Workers : WorkerStep(w)

Spec == Init /\ [][Next]_vars

(* Every thread inside the pool's code keeps being scheduled.  Nobody has  *)
(* to call the pool, no wake-up has to be spurious, and of processor_ it   *)
(* is only assumed that it returns once its stop flag is set.              *)
InCall(c) ==
    \/ EmitQueued(c)
    \/ NotifyOne(c)
    \/ RequestCancel(c)
    \/ WriteReason(c)
    \/ EmitCancelled(c)
    \/ NotifyAll(c)
    \/ Join(c)
    \/ EmitDrained(c)

InLoop(w) ==
    \/ Block(w)
    \/ Exit(w)
    \/ Take(w)
    \/ EmitRunning(w)
    \/ Process(w) /\ requested[worker[w].job]
    \/ Erase(w)
    \/ CheckRequested(w)
    \/ ReadReasonStep(w)
    \/ EmitWorkerCancelled(w)
    \/ EmitResult(w)

Fairness ==
    /\ \A c \in Callers : WF_vars(InCall(c))
    /\ \A w \in Workers : WF_vars(InLoop(w))

ScheduledSpec == Spec /\ Fairness

-----------------------------------------------------------------------------
(* Properties                                                              *)

Ended(j) == \E i \in DOMAIN events[j] : events[j][i] \in Terminal

(* Everyone who still has to finish job j, and every terminal event of it. *)
Claims(j) ==
    {<<"queue", i>> : i \in {i \in DOMAIN queue : queue[i] = j}}
        \union {<<"worker", w>> : w \in {w \in Workers : HoldsJob(w) /\ worker[w].job = j}}
        \union {<<"caller", c>> : c \in {c \in Callers : Withdrew(c) /\ caller[c].job = j}}
        \union {<<"shutdown", i>> : i \in {i \in DOMAIN cancelled_jobs : cancelled_jobs[i] = j}}
        \union {<<"ended", i>> : i \in {i \in DOMAIN events[j] : events[j][i] \in Terminal}}

(* An accepted job is at every moment either waiting in one place, or in   *)
(* the hands of one thread, or ended by one terminal event: the handovers  *)
(* between enqueue, worker_loop, cancel and shutdown neither lose a job    *)
(* nor let two threads end it.                                             *)
OneOwner ==
    \A j \in JobIds :
        IF j < next_id THEN \E a \in Claims(j) : Claims(j) = {a}
                       ELSE Claims(j) = {}

(* The order that tests/worker_pool_test.cpp expects begins with queued:   *)
(* whatever else a job is reported as, it was reported queued before.  The *)
(* code does not keep it, since enqueue reports after its unlock.          *)
QueuedFirst ==
    \A j \in JobIds : events[j] # <<>> => Head(events[j]) = "queued"

(* The rest of that order, which the code does keep, whichever thread ends *)
(* a job and whenever the enqueuing thread gets to report it queued: no    *)
(* status is reported twice, the one terminal status comes after running,  *)
(* and a job that never ran can only be cancelled.  Of where queued comes  *)
(* it says nothing: that is QueuedFirst.                                   *)
StatusesInOrder ==
    \A j \in JobIds :
        LET seen == events[j] IN
        /\ \A a, b \in DOMAIN seen :
             seen[a] = seen[b] \/ (seen[a] \in Terminal /\ seen[b] \in Terminal) => a = b
        /\ \A a, b \in DOMAIN seen : seen[a] = "running" /\ seen[b] \in Terminal => a < b
        /\ \A b \in DOMAIN seen : seen[b] \in {"completed", "failed"} =>
             \E a \in DOMAIN seen : seen[a] = "running"

(* No job waits behind a sleeping worker: while some worker sleeps in      *)
(* cv_.wait, every queued job has a worker on its way to the queue or a    *)
(* thread that is about to notify.  notify_one comes after the callback    *)
(* and outside mutex_, so that a wake-up could be lost here.               *)
NoLostWakeup ==
    Blocked # {} =>
        Len(queue) <= Cardinality({w \in Workers : worker[w].pc = "poll"})
                      + Cardinality({c \in Callers :
                                       caller[c].pc \in {"emit_queued", "notify_one"}})

(* From the moment shutdown has closed the pool, every job still in        *)
(* processor_ sees its stop flag set, also one that was taken just before, *)
(* and nothing is queued.                                                  *)
StopReachesEveryJob ==
    shutting_down =>
        /\ queue = <<>>
        /\ \A w \in Workers : InRunning(w) => requested[worker[w].job]

InShutdown(c) == caller[c].pc \in {"notify_all", "join", "emit_drained"}

(* When the shutdown that won has returned, no worker is left to call      *)
(* processor_ or callback_, and every accepted job has had its terminal    *)
(* event, but for one that a cancel still in progress took off the queue.  *)
ShutdownComplete ==
    shutting_down /\ ~(\E c \in Callers : InShutdown(c)) =>
        /\ AllExited
        /\ running = {}
        /\ \A j \in JobIds :
             j < next_id => \/ Ended(j)
                            \/ \E c \in Callers : Withdrew(c) /\ caller[c].job = j

(* The reason of the one successful request is final: neither a later      *)
(* cancel nor shutdown replaces it.                                        *)
FirstReasonStays ==
    [][\A j \in JobIds : reason[j] # NoReason => reason'[j] = reason[j]]_vars

(* What cancel makes of the reason it is given.                            *)
ReasonsOfCancel == {NoReason, DefaultReason} \union Texts

(* Once the reason of a cancelled job is written, the event that reported  *)
(* the end had it, as tests/worker_pool_test.cpp expects of a job that is  *)
(* cancelled while it runs.  The code does not keep it, since the worker   *)
(* can see the flag, and report, before the reason is there.               *)
ReasonAsGiven ==
    \A j \in JobIds :
        "cancelled" \in ToSet(events[j]) /\ reason[j] # NoReason => reported[j] = reason[j]

(* What it does keep: a job that never ran is reported with the reason it  *)
(* was cancelled for, and so is every job that shutdown told to stop.  A   *)
(* job that a cancel met while it ran is reported with that reason or the  *)
(* default one, and never with another's.                                  *)
ReasonReported ==
    \A j \in JobIds : "cancelled" \in ToSet(events[j]) =>
        \/ reported[j] = reason[j]
        \/ /\ "running" \in ToSet(events[j])
           /\ reported[j] = DefaultReason /\ reason[j] \in ReasonsOfCancel

StatusOf(j) ==
    CASE j >= next_id -> "none"
      [] InQueue(j) -> "queued"
      [] \E w \in Workers : HoldsJob(w) /\ worker[w].job = j -> "running"
      [] Ended(j) -> CHOOSE status \in Terminal : status \in ToSet(events[j])
      [] OTHER -> "withdrawn"

(* The pool implements JobLifecycle: jobs are accepted and start in id     *)
(* order and only before shutdown, one that cancel or shutdown took off    *)
(* the queue never starts, and each ends once.                             *)
Lifecycle == INSTANCE JobLifecycle WITH
    status <- [j \in JobIds |-> StatusOf(j)],
    open <- ~shutting_down

ImplementsLifecycle == Lifecycle!Spec

(* The call of shutdown that closes the pool returns if processor_ honours *)
(* its stop flag, however long it would run otherwise.                     *)
ShutdownReturns ==
    (\E c \in Callers : InShutdown(c)) ~> ~(\E c \in Callers : InShutdown(c))

(* Under the same assumption a job whose cancellation was requested ends:  *)
(* jobs are requested once, and are finitely many, so that each has ended  *)
(* if there is a time when all have.                                       *)
CancelledJobEnds ==
    (\E j \in JobIds : requested[j] /\ ~Ended(j)) ~> (\A j \in JobIds : requested[j] => Ended(j))

(* Every accepted job gets its terminal event if, further, processor_      *)
(* always returns.                                                         *)
EveryJobEnds ==
    (\A w \in Workers : WF_vars(Process(w))) =>
        (\E j \in JobIds : j < next_id /\ ~Ended(j)) ~> (\A j \in JobIds : j < next_id => Ended(j))

=============================================================================
