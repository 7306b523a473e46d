------------------------------ MODULE JobRunner ------------------------------
(***************************************************************************)
(* stemsmith::job_runner (src/src/job_runner.cpp) with its job_catalog and *)
(* the job_handle given to the client, on top of the pool that JobLifecycle*)
(* specifies and WorkerPool implements.                                    *)
(*                                                                         *)
(* handle_event, the pool's callback, runs on whatever thread the pool     *)
(* calls it from: `queued` on the thread inside submit, everything else on *)
(* the one thread that owns the job at that moment (WorkerPool's OneOwner),*)
(* which is here one process per job.  A critical section of mutex_ is one *)
(* action, and so is each call of an observer and of the promise.  submit  *)
(* uses the catalog with no lock, so each access to it is an action too.   *)
(*                                                                         *)
(* The pool closes only in the destructor of the runner, which no call may *)
(* overlap; the branch of submit for a pool that refuses the job is dead.  *)
(* A job makes at most one progress callback, which stands for them all.   *)
(*                                                                         *)
(* A definition with no comment that stands directly before the one it     *)
(* varies is a mutant of it.                                               *)
(***************************************************************************)
EXTENDS Integers, Sequences, FiniteSets, SequencesExt

CONSTANTS
    Paths,          \* normalized input paths
    Requests,       \* calls of submit; a call is also the name of its context
    None,           \* end() of the maps
    MaxSubmitters   \* how many calls of submit may be in progress together

Terminal == {"completed", "failed", "cancelled"}
Events == {"queued", "running"} \union Terminal

ASSUME RequestsAssumption == IsFiniteSet(Requests)
ASSUME NoneAssumption == None \notin Requests \union Paths \union Events

MaxJobs == Cardinality(Requests)

VARIABLES
    status,         \* the pool's jobs, as in JobLifecycle
    open,           \* ditto: the destructor has not begun
    stop,           \* the pool's stop flag per job
    seen_paths,     \* catalog_.seen_paths_
    jobs,           \* catalog_.jobs_, reduced to input_path
    contexts,       \* contexts_: the context registered for a path
    paths_by_id,    \* paths_by_id_
    pending,        \* pending_events_
    promise,        \* the result set in the context's promise
    submit,         \* program counter and locals of submit
    owner,          \* program counter and locals of the pool's thread for a job
    handler,        \* program counter and locals of handle_event, per thread
    canceller,      \* program counter of job_handle::cancel
    observed        \* history: the events the observers of a context were given

runnerVars == <<seen_paths, jobs, contexts, paths_by_id, pending>>
poolVars == <<status, open, stop>>
threadVars == <<submit, owner, canceller>>
vars == <<poolVars, runnerVars, promise, threadVars, handler, observed>>

Pool == INSTANCE JobLifecycle

JobIds == 0 .. MaxJobs - 1
NoJob == -1

(* The threads that run handle_event.                                      *)
Submitting(r) == <<"submit", r>>
Owning(j) == <<"pool", j>>
Threads == {Submitting(r) : r \in Requests} \union {Owning(j) : j \in JobIds}

SubmitLocals ==
    [pc : {"idle", "push", "insert", "context", "enqueue", "queued", "register", "replay",
           "returned", "rejected"},
     request : Paths \union {None}, path : Paths \union {None}, job : JobIds \union {NoJob},
     todo : Seq(Events)]

OwnerLocals ==
    [pc : {"none", "withdrawn", "begin", "progress", "observe", "result", "check", "emit", "ended"},
     path : Paths \union {None}, context : Requests \union {None},
     threw : BOOLEAN, result : Terminal \union {None}]

HandlerLocals ==
    [pc : {"idle", "lookup", "notify", "fulfil"}, job : JobIds \union {NoJob},
     event : Events \union {None}, context : Requests \union {None}]

(* The values of the variables.                                            *)
TypeOK ==
    /\ Pool!LifecycleTypeOK
    /\ stop \in [JobIds -> BOOLEAN]
    /\ seen_paths \in SUBSET Paths
    /\ jobs \in Seq(Paths)
    /\ contexts \in [Paths -> Requests \union {None}]
    /\ paths_by_id \in [JobIds -> Paths \union {None}]
    /\ pending \in [JobIds -> Seq(Events)]
    /\ promise \in [Requests -> Terminal \union {None}]
    /\ submit \in [Requests -> SubmitLocals]
    /\ owner \in [JobIds -> OwnerLocals]
    /\ handler \in [Threads -> HandlerLocals]
    /\ canceller \in [Requests -> {"idle", "lookup", "request", "true", "false"}]
    /\ observed \in [Requests -> Seq(Events)]

NoCall == [pc |-> "idle", job |-> NoJob, event |-> None, context |-> None]

Init ==
    /\ Pool!Init
    /\ stop = [j \in JobIds |-> FALSE]
    /\ seen_paths = {}
    /\ jobs = <<>>
    /\ contexts = [p \in Paths |-> None]
    /\ paths_by_id = [j \in JobIds |-> None]
    /\ pending = [j \in JobIds |-> <<>>]
    /\ promise = [r \in Requests |-> None]
    /\ submit = [r \in Requests |->
                   [pc |-> "idle", request |-> None, path |-> None, job |-> NoJob, todo |-> <<>>]]
    /\ owner = [j \in JobIds |->
                  [pc |-> "none", path |-> None, context |-> None, threw |-> FALSE, result |-> None]]
    /\ handler = [t \in Threads |-> NoCall]
    /\ canceller = [r \in Requests |-> "idle"]
    /\ observed = [r \in Requests |-> <<>>]

GoSubmit(r, pc) == submit' = [submit EXCEPT ![r].pc = pc]
GoOwner(j, pc) == owner' = [owner EXCEPT ![j].pc = pc]

Handling(t) == handler[t].pc # "idle"

Observe_NotEnd(r, event) ==
    observed' = IF event \in Terminal THEN observed ELSE [observed EXCEPT ![r] = Append(@, event)]
Observe(r, event) == observed' = [observed EXCEPT ![r] = Append(@, event)]

-----------------------------------------------------------------------------
(* handle_event                                                            *)

HandleEvent(t, j, event) ==
    handler' = [handler EXCEPT ![t] =
                  [pc |-> "lookup", job |-> j, event |-> event, context |-> None]]

ForgetsCompleted(t) == handler[t].event = "completed"
ForgetsJob(t) == handler[t].event \in Terminal

(* The critical section.                                                   *)
Lookup(t) ==
    /\ handler[t].pc = "lookup"
    /\ LET j == handler[t].job
           p == paths_by_id[j] IN
       \/ /\ p = None
          /\ pending' = [pending EXCEPT ![j] = Append(@, handler[t].event)]
          /\ handler' = [handler EXCEPT ![t] = NoCall]
          /\ UNCHANGED <<seen_paths, contexts, paths_by_id>>
       \/ /\ p # None
          /\ handler' = [handler EXCEPT ![t] =
                           IF contexts[p] = None THEN NoCall
                           ELSE [@ EXCEPT !.pc = "notify", !.context = contexts[p]]]
          /\ IF ForgetsJob(t)
             THEN /\ paths_by_id' = [paths_by_id EXCEPT ![j] = None]
                  /\ contexts' = [contexts EXCEPT ![p] = None]
                  /\ seen_paths' = seen_paths \ {p}
             ELSE UNCHANGED <<seen_paths, contexts, paths_by_id>>
          /\ UNCHANGED pending
    /\ UNCHANGED <<poolVars, jobs, promise, threadVars, observed>>

FulfilsAlways(t) == TRUE
Fulfils(t) == handler[t].event \in Terminal

(* notify_observers: the service's callback, the request's and the handle's.*)
Notify(t) ==
    /\ handler[t].pc = "notify"
    /\ Observe(handler[t].context, handler[t].event)
    /\ handler' = [handler EXCEPT ![t] =
                     IF Fulfils(t) THEN [@ EXCEPT !.pc = "fulfil"] ELSE NoCall]
    /\ UNCHANGED <<poolVars, runnerVars, promise, threadVars>>

(* promise.set_value, which throws if the promise already has a value.     *)
Fulfil(t) ==
    /\ handler[t].pc = "fulfil"
    /\ promise' = [promise EXCEPT ![handler[t].context] = handler[t].event]
    /\ handler' = [handler EXCEPT ![t] = NoCall]
    /\ UNCHANGED <<poolVars, runnerVars, threadVars, observed>>

-----------------------------------------------------------------------------
(* submit                                                                  *)

Returned(r) == submit[r].pc \in {"returned", "rejected"}
InSubmit(r) == submit[r].pc # "idle" /\ ~Returned(r)

SeenUnchecked(p) == FALSE
AlreadySeen(p) == p \in seen_paths

(* The validation of the request, and catalog_.add_file up to its check    *)
(* for a duplicate; the request may also be invalid.                       *)
Submit(r, p) ==
    /\ submit[r].pc = "idle"
    /\ open
    /\ Cardinality({q \in Requests : InSubmit(q)}) < MaxSubmitters
    /\ \E pc \in IF AlreadySeen(p) THEN {"rejected"} ELSE {"push", "rejected"} :
         submit' = [submit EXCEPT ![r].pc = pc, ![r].request = p]
    /\ UNCHANGED <<poolVars, runnerVars, promise, owner, canceller, handler, observed>>

(* jobs_.push_back                                                         *)
PushJob(r) ==
    /\ submit[r].pc = "push"
    /\ jobs' = Append(jobs, submit[r].request)
    /\ GoSubmit(r, "insert")
    /\ UNCHANGED <<poolVars, seen_paths, contexts, paths_by_id, pending, promise, owner,
                   canceller, handler, observed>>

(* seen_paths_.insert; the index returned is that of the last job now in   *)
(* jobs_, and everything that follows reads the path from there.           *)
InsertSeen(r) ==
    /\ submit[r].pc = "insert"
    /\ seen_paths' = seen_paths \union {submit[r].request}
    /\ submit' = [submit EXCEPT ![r].pc = "context", ![r].path = Last(jobs)]
    /\ UNCHANGED <<poolVars, jobs, contexts, paths_by_id, pending, promise, owner,
                   canceller, handler, observed>>

AddContext(r) ==
    /\ submit[r].pc = "context"
    /\ contexts' = [contexts EXCEPT ![submit[r].path] = r]
    /\ GoSubmit(r, "enqueue")
    /\ UNCHANGED <<poolVars, seen_paths, jobs, paths_by_id, pending, promise, owner,
                   canceller, handler, observed>>

(* pool_.enqueue, up to its callback.                                      *)
Enqueue(r) ==
    /\ submit[r].pc = "enqueue"
    /\ \E j \in JobIds :
         /\ Pool!Accept(j)
         /\ submit' = [submit EXCEPT ![r].pc = "queued", ![r].job = j]
         /\ owner' = [owner EXCEPT ![j].path = submit[r].path]
    /\ UNCHANGED <<stop, runnerVars, promise, canceller, handler, observed>>

EmitQueued(r) ==
    /\ submit[r].pc = "queued"
    /\ HandleEvent(Submitting(r), submit[r].job, "queued")
    /\ GoSubmit(r, "register")
    /\ UNCHANGED <<poolVars, runnerVars, promise, owner, canceller, observed>>

TakenNothing(j) == <<>>
TakenPending(j) == pending[j]

LeftAll(j) == pending[j]
LeftPending(j) == <<>>

(* The critical section that makes the id known and takes what arrived     *)
(* before.                                                                 *)
Register(r) ==
    /\ submit[r].pc = "register"
    /\ ~Handling(Submitting(r))
    /\ LET j == submit[r].job IN
       /\ paths_by_id' = [paths_by_id EXCEPT ![j] = submit[r].path]
       /\ pending' = [pending EXCEPT ![j] = LeftPending(j)]
       /\ submit' = [submit EXCEPT ![r].pc = "replay", ![r].todo = TakenPending(j)]
    /\ UNCHANGED <<poolVars, seen_paths, jobs, contexts, promise, owner, canceller, handler,
                   observed>>

Replay(r) ==
    /\ submit[r].pc = "replay"
    /\ ~Handling(Submitting(r))
    /\ IF submit[r].todo = <<>>
       THEN /\ GoSubmit(r, "returned")
            /\ UNCHANGED handler
       ELSE /\ HandleEvent(Submitting(r), submit[r].job, Head(submit[r].todo))
            /\ submit' = [submit EXCEPT ![r].todo = Tail(@)]
    /\ UNCHANGED <<poolVars, runnerVars, promise, owner, canceller, observed>>

-----------------------------------------------------------------------------
(* The pool's thread for job j, and process_job                            *)

Start(j) ==
    /\ Pool!Start(j)
    /\ HandleEvent(Owning(j), j, "running")
    /\ GoOwner(j, "begin")
    /\ UNCHANGED <<stop, runnerVars, promise, submit, canceller, observed>>

(* A set stop flag ends process_job before it does anything.               *)
BeginProcess(j) ==
    /\ owner[j].pc = "begin"
    /\ ~Handling(Owning(j))
    /\ \E pc \in IF stop[j] THEN {"check"} ELSE {"progress", "result"} : GoOwner(j, pc)
    /\ UNCHANGED <<poolVars, runnerVars, promise, submit, canceller, handler, observed>>

(* context_for, for the progress callback.                                 *)
Progress(j) ==
    /\ owner[j].pc = "progress"
    /\ owner' = [owner EXCEPT ![j].pc = "observe", ![j].context = contexts[owner[j].path]]
    /\ UNCHANGED <<poolVars, runnerVars, promise, submit, canceller, handler, observed>>

(* The progress event, of which no property counts the number, and the     *)
(* exception that stops the engine.                                        *)
ObserveProgress(j) ==
    /\ owner[j].pc = "observe"
    /\ owner' = [owner EXCEPT ![j].pc = IF stop[j] THEN "check" ELSE "result",
                              ![j].threw = stop[j], ![j].context = None]
    /\ UNCHANGED <<poolVars, runnerVars, promise, submit, canceller, handler, observed>>

(* engine_.process has returned; its failure is rethrown.                  *)
EngineReturns(j) ==
    /\ owner[j].pc = "result"
    /\ \E failed \in BOOLEAN :
         owner' = [owner EXCEPT ![j].pc = "check", ![j].threw = failed /\ ~stop[j]]
    /\ UNCHANGED <<poolVars, runnerVars, promise, submit, canceller, handler, observed>>

(* The pool takes the job out of running_ and looks at the stop flag.      *)
CheckStop(j) ==
    /\ owner[j].pc = "check"
    /\ owner' = [owner EXCEPT ![j].pc = "emit",
                   ![j].result = CASE stop[j] -> "cancelled"
                                   [] ~stop[j] /\ owner[j].threw -> "failed"
                                   [] OTHER -> "completed"]
    /\ UNCHANGED <<poolVars, runnerVars, promise, submit, canceller, handler, observed>>

End(j) ==
    /\ owner[j].pc = "emit"
    /\ Pool!Move(j, "running", owner[j].result)
    /\ HandleEvent(Owning(j), j, owner[j].result)
    /\ GoOwner(j, "ended")
    /\ UNCHANGED <<stop, runnerVars, promise, submit, canceller, observed>>

(* The event of a job that cancel or the destructor took off the queue.    *)
EndWithdrawn(j) ==
    /\ owner[j].pc = "withdrawn"
    /\ Pool!CancelWithdrawn(j)
    /\ HandleEvent(Owning(j), j, "cancelled")
    /\ GoOwner(j, "ended")
    /\ UNCHANGED <<stop, runnerVars, promise, submit, canceller, observed>>

-----------------------------------------------------------------------------
(* job_handle::cancel and the destructor                                   *)

InRunning(j) == status[j] = "running" /\ owner[j].pc \notin {"emit", "ended"}

HandleCancel(r) ==
    /\ submit[r].pc = "returned"
    /\ open
    /\ canceller[r] = "idle"
    /\ canceller' = [canceller EXCEPT ![r] = "lookup"]
    /\ UNCHANGED <<poolVars, runnerVars, promise, submit, owner, handler, observed>>

(* The lookup of pool_.cancel.                                             *)
CancelLookup(r) ==
    /\ canceller[r] = "lookup"
    /\ LET j == submit[r].job IN
       \/ /\ Pool!Withdraw(j)
          /\ GoOwner(j, "withdrawn")
          /\ canceller' = [canceller EXCEPT ![r] = "true"]
       \/ /\ status[j] # "queued"
          /\ canceller' = [canceller EXCEPT ![r] = IF InRunning(j) THEN "request" ELSE "false"]
          /\ UNCHANGED <<status, open, owner>>
    /\ UNCHANGED <<stop, runnerVars, promise, submit, handler, observed>>

CancelRequest(r) ==
    /\ canceller[r] = "request"
    /\ stop' = [stop EXCEPT ![submit[r].job] = TRUE]
    /\ canceller' = [canceller EXCEPT ![r] = "true"]
    /\ UNCHANGED <<status, open, runnerVars, promise, submit, owner, handler, observed>>

Destroy ==
    /\ \A r \in Requests : ~InSubmit(r) /\ canceller[r] \notin {"lookup", "request"}
    /\ Pool!Close
    /\ stop' = [j \in JobIds |-> stop[j] \/ InRunning(j)]
    /\ owner' = [j \in JobIds |-> IF status[j] = "queued" THEN [owner[j] EXCEPT !.pc = "withdrawn"]
                                                          ELSE owner[j]]
    /\ UNCHANGED <<runnerVars, promise, submit, canceller, handler, observed>>

-----------------------------------------------------------------------------

HandlerStep(t) == Lookup(t) \/ Notify(t) \/ Fulfil(t)

InSubmitStep(r) ==
    \/ PushJob(r)
    \/ InsertSeen(r)
    \/ AddContext(r)
    \/ Enqueue(r)
    \/ EmitQueued(r)
    \/ Register(r)
    \/ Replay(r)

OwnerStep(j) ==
    \/ Start(j)
    \/ BeginProcess(j)
    \/ Progress(j)
    \/ ObserveProgress(j)
    \/ EngineReturns(j)
    \/ CheckStop(j)
    \/ End(j)
    \/ EndWithdrawn(j)

CancelStep(r) == CancelLookup(r) \/ CancelRequest(r)

Next ==
    \/ \E t \in Threads : HandlerStep(t)
    \/ \E r \in Requests : \/ \E p \in Paths : Submit(r, p)
                           \/ InSubmitStep(r)
                           \/ HandleCancel(r)
                           \/ CancelStep(r)
    \/ \E j \in JobIds : OwnerStep(j)
    \/ Destroy

Spec == Init /\ [][Next]_vars

(* Every thread that runs the runner's code keeps being scheduled, and the *)
(* pool gets to every job (WorkerPool's EveryJobEnds). No client has to    *)
(* call anything.                                                          *)
Fairness ==
    /\ \A t \in Threads : WF_vars(HandlerStep(t))
    /\ \A r \in Requests : WF_vars(InSubmitStep(r))
    /\ \A j \in JobIds : WF_vars(OwnerStep(j))

FairSpec == Spec /\ Fairness

-----------------------------------------------------------------------------
(* Properties                                                              *)

(* Events, progress and results go to the context of the call that         *)
(* enqueued the job, although contexts_ is keyed by path, a path may be    *)
(* submitted again as soon as it is released, and events are replayed; and *)
(* a running job always finds its context.                                 *)
OwnContext ==
    /\ \A t \in Threads :
         handler[t].pc \in {"notify", "fulfil"} =>
             submit[handler[t].context].job = handler[t].job
    /\ \A j \in JobIds :
         owner[j].pc = "observe" =>
             /\ owner[j].context # None
             /\ submit[owner[j].context].job = j

(* The catalog and the two maps change in different critical sections, the *)
(* catalog outside any, and still agree: a path is taken exactly while its *)
(* job has a context, or its submit is about to add one, an id leads to    *)
(* the context of its own job, and whoever waited for a future can submit  *)
(* its path again.                                                         *)
MapsAgree ==
    /\ \A p \in Paths :
         p \in seen_paths <=> \/ contexts[p] # None
                              \/ \E r \in Requests : /\ submit[r].pc = "context"
                                                     /\ submit[r].path = p
    /\ \A j \in JobIds :
         paths_by_id[j] # None =>
             /\ contexts[paths_by_id[j]] # None
             /\ submit[contexts[paths_by_id[j]]].job = j
    /\ \A p \in Paths : contexts[p] # None => promise[contexts[p]] = None

(* Once submit has registered an id, the terminal event of the job is not  *)
(* left in pending_events_, from where nobody would take it again.         *)
NoTerminalStranded ==
    \A r \in Requests : submit[r].pc \in {"replay", "returned"} =>
        \A event \in ToSet(pending[submit[r].job]) : event \notin Terminal

(* A future has the result of its own job, and whoever waited for it finds *)
(* that the observers were told of that end, once.                         *)
ResultIsJobsOwn ==
    \A r \in Requests : promise[r] # None =>
        /\ status[submit[r].job] = promise[r]
        /\ \E i \in DOMAIN observed[r] :
             {k \in DOMAIN observed[r] : observed[r][k] \in Terminal} = {i}
        /\ promise[r] \in ToSet(observed[r])

(* The future of every handle submit returns gets a result, also when the  *)
(* runner is destroyed first.                                              *)
FutureResolved == \A r \in Requests : submit[r].pc = "returned" ~> promise[r] # None

=============================================================================
