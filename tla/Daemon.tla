------------------------------- MODULE Daemon -------------------------------
(***************************************************************************)
(* The life of a stemsmithd process (src/src/http/stemsmithd.cpp): main,   *)
(* with stemsmith::http::server's start, stop and destructor, and the      *)
(* server's thread, with run and the part of crow's app and server that    *)
(* run and stop share (src/thirdparty/crow/include/crow_all.h).            *)
(*                                                                         *)
(* `threads of crow' are its worker threads, one per io_context of its     *)
(* pool; a request is handled on one of them and may submit a job, which   *)
(* a worker of the service runs.  One request and one job at a time are    *)
(* enough to be in the way.  The server's address and port decide only     *)
(* whether it can listen, which it may also fail to for other reasons.     *)
(*                                                                         *)
(* A definition with no comment that stands directly before the one it     *)
(* varies is a mutant of it.                                               *)
(***************************************************************************)
EXTENDS CommandLine, FiniteSets

CONSTANTS
    MaxArguments,       \* bound on argc - 1
    HardwareThreads,    \* what hardware_concurrency may return: 0 if unknown
    Contexts            \* how many io_contexts crow's pool gets

ASSUME DaemonAssumption ==
    /\ HardwareThreads \subseteq Nat
    /\ MaxArguments \in Nat /\ Contexts \in Nat \ {0}

VARIABLES
    argv, hardware,
    workers,        \* cfg.worker_count
    main,           \* program counter of main
    signalled,      \* g_signal_status
    running,        \* running_
    thread,         \* program counter of the server's thread
    server,         \* crow's server_ is set
    listening,      \* its acceptor is open
    shutting_down, io_stopped,      \* its flag, and its io_context_ was stopped
    created, stopped,   \* io_context_pool_: how many there are, the stopped ones
    svc,            \* svc_ is set
    pool_workers,   \* the size of the worker pool, 0 when there is none
    request,        \* a handler is running
    job,            \* a job is with the worker pool
    destroyed       \* the members of the server that are destroyed

crow == <<server, listening, shutting_down, io_stopped, created, stopped>>
work == <<request, job>>
arguments == <<argv, hardware, workers>>
vars == <<arguments, main, signalled, running, thread, crow, svc, pool_workers, work, destroyed>>

Members == {"thread_", "app_", "registry_", "svc_"}

Over == {"exited", "failed", "killed", "terminated"}

(* The values of the variables.                                            *)
TypeOK ==
    /\ argv \in BoundedSeq(Arguments, MaxArguments)
    /\ hardware \in HardwareThreads /\ workers \in Nat
    /\ main \in {"parse", "directories", "start", "install", "wait", "stop", "app_stop",
                 "close", "stop_pool", "stop_io", "join", "destroy", "shutdown"} \union Over
    /\ signalled \in BOOLEAN /\ running \in BOOLEAN
    /\ thread \in {"none", "create", "address", "bind", "fill", "port", "accept", "serve",
                   "drain", "ended"}
    /\ server \in BOOLEAN /\ listening \in BOOLEAN
    /\ shutting_down \in BOOLEAN /\ io_stopped \in BOOLEAN
    /\ created \in 0 .. Contexts /\ stopped \subseteq 1 .. created
    /\ svc \in BOOLEAN /\ pool_workers \in Nat
    /\ request \in BOOLEAN /\ job \in BOOLEAN
    /\ destroyed \subseteq Members

Init ==
    /\ argv \in BoundedSeq(Arguments, MaxArguments)
    /\ hardware \in HardwareThreads /\ workers = 0
    /\ main = "parse" /\ thread = "none" /\ destroyed = {}
    /\ signalled = FALSE /\ running = FALSE
    /\ server = FALSE /\ listening = FALSE /\ shutting_down = FALSE /\ io_stopped = FALSE
    /\ created = 0 /\ stopped = {}
    /\ svc = FALSE /\ pool_workers = 0
    /\ request = FALSE /\ job = FALSE

Alive == main \notin Over

-----------------------------------------------------------------------------
(* main                                                                    *)

GoMain(from, to) == main = from /\ main' = to

ParseArgs ==
    /\ main = "parse"
    /\ LET result == parse_args(argv, hardware) IN
       /\ main' = CASE result.verdict = "refused" -> "failed"
                    [] result.verdict = "help" -> "exited"
                    [] OTHER -> "directories"
       /\ workers' = result.opts["--workers"]
    /\ UNCHANGED <<argv, hardware, signalled, running, thread, crow, svc, pool_workers, work,
                   destroyed>>

(* The two calls of ensure_dir; the command line is not looked at again.   *)
EnsureDirs ==
    /\ main = "directories"
    /\ main' \in {"start", "failed"}
    /\ argv' = <<>>
    /\ UNCHANGED <<hardware, workers, signalled, running, thread, crow, svc, pool_workers, work,
                   destroyed>>

(* server::start                                                           *)
StartServer ==
    /\ GoMain("start", "install")
    /\ running' = TRUE
    /\ thread' = "create"
    /\ UNCHANGED <<arguments, signalled, crow, svc, pool_workers, work, destroyed>>

InstallHandlers ==
    /\ GoMain("install", "wait")
    /\ UNCHANGED <<arguments, signalled, running, thread, crow, svc, pool_workers, work, destroyed>>

(* SIGINT or SIGTERM, from outside: the process is killed as long as its   *)
(* handlers are not installed.                                             *)
Signal ==
    /\ Alive /\ ~signalled
    /\ IF main \in {"parse", "directories", "start", "install"}
       THEN main' = "killed" /\ UNCHANGED signalled
       ELSE signalled' = TRUE /\ UNCHANGED main
    /\ UNCHANGED <<arguments, running, thread, crow, svc, pool_workers, work, destroyed>>

(* The loop ends.                                                          *)
SeeSignal ==
    /\ signalled
    /\ GoMain("wait", "stop")
    /\ UNCHANGED <<arguments, signalled, running, thread, crow, svc, pool_workers, work, destroyed>>

-----------------------------------------------------------------------------
(* server::stop, with App::stop and Server::stop of crow                   *)

StopTarget == IF server THEN "app_stop" ELSE "join"

(* running_ was true; app_.stop does nothing if server_ is not set yet.    *)
StopServer ==
    /\ GoMain("stop", StopTarget)
    /\ running' = FALSE
    /\ UNCHANGED <<arguments, signalled, thread, crow, svc, pool_workers, work, destroyed>>

RaiseShuttingDown ==
    /\ GoMain("app_stop", "close")
    /\ shutting_down' = TRUE
    /\ UNCHANGED <<arguments, signalled, running, thread, server, listening, io_stopped, created,
                   stopped, svc, pool_workers, work, destroyed>>

CloseAcceptor ==
    /\ GoMain("close", "stop_pool")
    /\ listening' = FALSE
    /\ UNCHANGED <<arguments, signalled, running, thread, server, shutting_down, io_stopped,
                   created, stopped, svc, pool_workers, work, destroyed>>

StoppedContexts_ButLast == 1 .. created - 1
StoppedContexts == 1 .. created

(* The loop over io_context_pool_ reaches the contexts there are; that the *)
(* vector may be growing meanwhile, on the other thread, can only make it  *)
(* worse.                                                                  *)
StopPool ==
    /\ GoMain("stop_pool", "stop_io")
    /\ stopped' = StoppedContexts
    /\ UNCHANGED <<arguments, signalled, running, thread, server, listening, shutting_down,
                   io_stopped, created, svc, pool_workers, work, destroyed>>

StopIo ==
    /\ GoMain("stop_io", "join")
    /\ io_stopped' = TRUE
    /\ UNCHANGED <<arguments, signalled, running, thread, server, listening, shutting_down,
                   created, stopped, svc, pool_workers, work, destroyed>>

Joinable_Never == TRUE
Joinable == thread = "ended"

JoinThread ==
    /\ Joinable
    /\ GoMain("join", "destroy")
    /\ UNCHANGED <<arguments, signalled, running, thread, crow, svc, pool_workers, work, destroyed>>

-----------------------------------------------------------------------------
(* server::~server: stop finds running_ false; then the members go in the  *)
(* reverse of the order in which server.h declares them.                   *)

DestroyedNext ==
    CASE "thread_" \notin destroyed -> "thread_"
      [] "thread_" \in destroyed /\ "app_" \notin destroyed -> "app_"
      [] OTHER -> "registry_"

DestroyMember ==
    /\ main = "destroy"
    /\ destroyed' = destroyed \union {DestroyedNext}
    /\ main' = IF DestroyedNext = "registry_" THEN "shutdown" ELSE "destroy"
    /\ UNCHANGED <<arguments, signalled, running, thread, crow, svc, pool_workers, work>>

(* ~service: the pool's shutdown tells the job to stop and joins the       *)
(* workers.                                                                *)
DestroyService ==
    /\ GoMain("shutdown", "exited")
    /\ ~job
    /\ destroyed' = Members
    /\ UNCHANGED <<arguments, signalled, running, thread, crow, svc, pool_workers, work>>

MainStep ==
    \/ ParseArgs \/ EnsureDirs \/ StartServer \/ InstallHandlers \/ SeeSignal
    \/ StopServer \/ RaiseShuttingDown \/ CloseAcceptor \/ StopPool \/ StopIo \/ JoinThread
    \/ DestroyMember \/ DestroyService

-----------------------------------------------------------------------------
(* The server's thread: server::run                                        *)

GoThread(from, to) == thread = from /\ thread' = to

Clamp(n, low, high) == IF n < low THEN low ELSE IF n > high THEN high ELSE n

AtLeastOne(n) == IF n > 1 THEN n ELSE 1

compute_worker_count_Unclamped(desired) == desired
compute_worker_count(desired) == Clamp(desired, 1, AtLeastOne(hardware))

(* service::create, which fails if a directory cannot be made or the       *)
(* manifest cannot be loaded; a pool of no workers would throw.            *)
create(worker_count) ==
    {[svc |-> FALSE, pool_workers |-> 0], [svc |-> TRUE, pool_workers |-> worker_count]}

CreateService ==
    /\ thread = "create"
    /\ \E outcome \in create(compute_worker_count(workers)) :
         svc' = outcome.svc /\ pool_workers' = outcome.pool_workers
    /\ thread' = "address"
    /\ UNCHANGED <<arguments, main, signalled, running, crow, work, destroyed>>

(* App::run up to the construction of crow's server: an address that is    *)
(* none ends it.                                                           *)
ReadAddress ==
    /\ thread = "address"
    /\ thread' \in {"bind", "ended"}
    /\ UNCHANGED <<arguments, main, signalled, running, crow, svc, pool_workers, work, destroyed>>

(* server_ is set; if it could not bind or listen, its run returns at once.*)
Bind ==
    /\ thread = "bind"
    /\ server' = TRUE
    /\ \/ listening' = TRUE /\ thread' = "fill"
       \/ listening' = FALSE /\ thread' = "ended"
    /\ UNCHANGED <<arguments, main, signalled, running, shutting_down, io_stopped, created,
                   stopped, svc, pool_workers, work, destroyed>>

(* Server::run                                                             *)
FillPool ==
    /\ thread = "fill"
    /\ created' = created + 1
    /\ thread' = IF created' = Contexts THEN "port" ELSE "fill"
    /\ UNCHANGED <<arguments, main, signalled, running, server, listening, shutting_down,
                   io_stopped, stopped, svc, pool_workers, work, destroyed>>

(* acceptor_.port() of an acceptor that stop has closed throws, out of the *)
(* thread's function.                                                      *)
ReadPort ==
    /\ thread = "port"
    /\ IF listening
       THEN thread' = "accept" /\ UNCHANGED main
       ELSE main' = "terminated" /\ UNCHANGED thread
    /\ UNCHANGED <<arguments, signalled, running, crow, svc, pool_workers, work, destroyed>>

(* do_accept and the start of the thread that runs io_context_.            *)
Accept ==
    /\ GoThread("accept", "serve")
    /\ UNCHANGED <<arguments, main, signalled, running, crow, svc, pool_workers, work, destroyed>>

(* io_context_.run has returned.                                           *)
LeaveIo ==
    /\ io_stopped
    /\ GoThread("serve", "drain")
    /\ UNCHANGED <<arguments, main, signalled, running, crow, svc, pool_workers, work, destroyed>>

Drained == stopped = 1 .. created /\ ~request

(* The futures of crow's threads are waited for as run returns.            *)
EndThread ==
    /\ Drained
    /\ GoThread("drain", "ended")
    /\ UNCHANGED <<arguments, main, signalled, running, crow, svc, pool_workers, work, destroyed>>

ThreadStep ==
    /\ Alive
    /\ \/ CreateService \/ ReadAddress \/ Bind \/ FillPool \/ ReadPort \/ Accept
       \/ LeaveIo \/ EndThread

-----------------------------------------------------------------------------
(* The threads of crow and of the worker pool                              *)

(* A connection that was accepted; nothing is begun once shutting_down_    *)
(* and the contexts are stopped.                                           *)
BeginRequest ==
    /\ Alive /\ ~request
    /\ thread = "serve" /\ stopped # 1 .. created
    /\ request' = TRUE
    /\ UNCHANGED <<arguments, main, signalled, running, thread, crow, svc, pool_workers, job,
                   destroyed>>

(* The handler returns; it may have submitted a job.                       *)
EndRequest ==
    /\ Alive /\ request
    /\ request' = FALSE
    /\ job' \in IF svc THEN {job, TRUE} ELSE {job}
    /\ UNCHANGED <<arguments, main, signalled, running, thread, crow, svc, pool_workers, destroyed>>

EndJob ==
    /\ Alive /\ job
    /\ job' = FALSE
    /\ UNCHANGED <<arguments, main, signalled, running, thread, crow, svc, pool_workers, request,
                   destroyed>>

-----------------------------------------------------------------------------

Next == MainStep \/ Signal \/ ThreadStep \/ BeginRequest \/ EndRequest \/ EndJob

Spec == Init /\ [][Next]_vars

(* The threads are scheduled, handlers return, and a job ends once it was  *)
(* told to stop. Nobody has to send a request or a signal.                 *)
FairSpec ==
    /\ Spec
    /\ WF_vars(MainStep) /\ WF_vars(ThreadStep) /\ WF_vars(EndRequest)
    /\ WF_vars(main = "shutdown" /\ EndJob)

-----------------------------------------------------------------------------
(* Properties                                                              *)

(* The worker pool is made with at least one worker and no more than the   *)
(* machine has threads, whatever --workers says (none, 0, a negative       *)
(* number that wraps around) and though hardware_concurrency may not know. *)
WorkersInRange == svc => pool_workers \in 1 .. AtLeastOne(hardware)

(* Nothing the server's thread or a handler uses is destroyed before both  *)
(* are done, and no job outlives the service; the registry is the one      *)
(* member that a job's last events may come too late for.                  *)
MembersOutliveUsers ==
    /\ destroyed # {} => thread = "ended" /\ ~request
    /\ "svc_" \in destroyed => ~job

(* A signal seen once crow's server has got past the set-up it shares with *)
(* stop, or has given up, ends the process, also while a request is        *)
(* handled and a job runs.                                                 *)
StopsOnceUp ==
    signalled /\ main = "wait" /\ thread \in {"accept", "serve", "ended"} ~> main = "exited"

(* "Press Ctrl+C to stop" (stemsmithd.cpp:258).                            *)
CtrlCStops == signalled ~> main = "exited"

=============================================================================
