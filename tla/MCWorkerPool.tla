---------------------------- MODULE MCWorkerPool ----------------------------
(* Small instances of WorkerPool.  Workers are interchangeable, and so are *)
(* callers; liveness cannot be checked with TLC's symmetry, so NamedSpec   *)
(* has one of the behaviours that differ in names only: FirstCaller        *)
(* enqueues the first job, and FirstWorker is the first to take one.       *)
EXTENDS WorkerPool, TLC

CONSTANTS FirstCaller, FirstWorker

NoneTaken ==
    /\ \A w \in Workers : ~HoldsJob(w)
    /\ \A j \in JobIds : "running" \notin ToSet(events[j])

(* Two bounds besides: the thread that closes the pool is not FirstCaller, *)
(* and the processor may throw on the first job only.                      *)
NamedCallerStep(c) ==
    \/ (next_id = 0 => c = FirstCaller) /\ Enqueue(c)
    \/ \E j \in JobIds, text \in Texts : Cancel(c, j, text)
    \/ c # FirstCaller /\ Shutdown(c)
    \/ InCall(c)

NamedWorkerStep(w) ==
    \/ Block(w)
    \/ WakeSpuriously(w)
    \/ Exit(w)
    \/ (NoneTaken => w = FirstWorker) /\ Take(w)
    \/ EmitRunning(w)
    \/ Process(w) /\ (worker'[w].threw => worker[w].job = 0)
    \/ Erase(w)
    \/ CheckRequested(w)
    \/ ReadReasonStep(w)
    \/ EmitWorkerCancelled(w)
    \/ EmitResult(w)

NamedNext ==
    \/ \E c \in Callers : NamedCallerStep(c)
    \/ \E w \in Workers : NamedWorkerStep(w)

NamedSpec == Init /\ [][NamedNext]_vars /\ Fairness

=============================================================================
