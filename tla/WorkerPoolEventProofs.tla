------------------------ MODULE WorkerPoolEventProofs ------------------------
(* Proofs about what WorkerPool promises its owner: the order of a job's   *)
(* statuses and the reason of a cancelled one, what shutdown leaves behind,*)
(* that no wake-up is lost, and the refinement of JobLifecycle.            *)
EXTENDS WorkerPoolProofs, FiniteSetTheorems

Seen(j, status) == \E i \in DOMAIN events[j] : events[j][i] = status

(* A job reported running, and not ended yet.                              *)
Begun(w) == HoldsJob(w) /\ worker[w].pc # "emit_running"

(* A caller that is about to report its job queued.                        *)
Announces(c, j) == caller[c].pc = "emit_queued" /\ caller[c].job = j

(* A worker past emit_event(running) has made it, and it was one of those  *)
(* that have the job, or have ended it, that did.                          *)
BegunInv ==
    /\ \A w \in Workers : Begun(w) => Seen(worker[w].job, "running")
    /\ \A j \in JobIds : Seen(j, "running") =>
         Ended(j) \/ \E w \in Workers : Begun(w) /\ worker[w].job = j

(* Only the thread that was given the id reports it queued.                *)
AnnouncedInv ==
    /\ \A c \in Callers, j \in JobIds : Announces(c, j) => j < next_id
    /\ \A c, d \in Callers, j \in JobIds : Announces(c, j) /\ Announces(d, j) => c = d
    /\ \A j \in JobIds : Seen(j, "queued") => j < next_id /\ \A c \in Callers : ~Announces(c, j)

EventsInv == BegunInv /\ AnnouncedInv /\ StatusesInOrder

-----------------------------------------------------------------------------
(* Threads                                                                 *)

(* A worker's step is its own.                                             *)
LEMMA OthersWork ==
    ASSUME TypeInv, NEW w \in Workers, WorkerStep(w)
    PROVE  /\ \A v \in Workers : v # w => worker'[v] = worker[v]
           /\ UNCHANGED <<next_id, shutting_down, requested, reason, caller, cancelled_jobs>>
<1>1. UNCHANGED <<next_id, shutting_down, requested, reason, caller, cancelled_jobs>>
    BY DEF WorkerStep, Block, WakeSpuriously, Exit, Take, EmitRunning, Process, Erase,
           CheckRequested, ReadReasonStep, EmitWorkerCancelled, EmitResult, jobVars, poolVars
<1>2. \A v \in Workers : v # w => worker'[v] = worker[v]
    BY DEF WorkerStep, Block, WakeSpuriously, Exit, Take, EmitRunning, Process, Erase,
           CheckRequested, ReadReasonStep, EmitWorkerCancelled, EmitResult, GoWorker,
           TypeInv, TypeOK
<1> QED BY <1>1, <1>2

(* Where a worker's step takes it.                                         *)
LEMMA WorkerMoves ==
    ASSUME TypeInv, NEW w \in Workers
    PROVE  /\ Block(w) => worker'[w].pc = "blocked"
           /\ WakeSpuriously(w) => worker'[w].pc = "poll"
           /\ Exit(w) => worker'[w].pc = "exited"
           /\ Take(w) => worker'[w].pc = "emit_running"
           /\ EmitRunning(w) => worker'[w].pc = "process"
           /\ Process(w) => worker'[w].pc = "erase"
           /\ Erase(w) => worker'[w].pc = "check"
           /\ CheckRequested(w) => worker'[w].pc \in {"read_reason", "emit_result"}
           /\ ReadReasonStep(w) => worker'[w].pc = "emit_cancelled"
           /\ EmitWorkerCancelled(w) \/ EmitResult(w) => worker'[w].pc = "poll"
<1> USE DEF TypeInv
<1>1. /\ Block(w) => worker'[w].pc = "blocked"
      /\ WakeSpuriously(w) => worker'[w].pc = "poll"
      /\ Exit(w) => worker'[w].pc = "exited"
      /\ EmitRunning(w) => worker'[w].pc = "process"
      /\ Erase(w) => worker'[w].pc = "check"
      /\ CheckRequested(w) => worker'[w].pc \in {"read_reason", "emit_result"}
    BY GoWorkerType DEF Block, WakeSpuriously, Exit, EmitRunning, Erase, CheckRequested, WorkerPc
<1>2. Take(w) => worker'[w].pc = "emit_running"
    BY DEF Take, TypeOK
<1>3. Process(w) => worker'[w].pc = "erase"
    BY DEF Process, TypeOK, WorkerLocals
<1>4. ReadReasonStep(w) => worker'[w].pc = "emit_cancelled"
    BY DEF ReadReasonStep, TypeOK, WorkerLocals
<1>5. EmitWorkerCancelled(w) \/ EmitResult(w) => worker'[w].pc = "poll"
    BY DEF EmitWorkerCancelled, EmitResult, FreshWorker, TypeOK
<1> QED BY <1>1, <1>2, <1>3, <1>4, <1>5

(* A caller's step is its own, but that it may wake sleeping workers.      *)
LEMMA OthersCall ==
    ASSUME TypeInv, NEW c \in Callers, CallerStep(c)
    PROVE  /\ \A d \in Callers : d # c => caller'[d] = caller[d]
           /\ \A w \in Workers :
                \/ worker'[w] = worker[w]
                \/ worker[w].pc = "blocked" /\ worker'[w].pc = "poll"
<1> USE DEF TypeInv
<1>1. CASE NotifyOne(c)
    <2>1. \A d \in Callers : d # c => caller'[d] = caller[d]
        BY <1>1, ReturnType DEF NotifyOne
    <2>2. CASE UNCHANGED worker
        BY <2>1, <2>2
    <2>3. CASE \E w \in Blocked : GoWorker(w, "poll")
        BY <2>1, <2>3, GoWorkerType DEF Blocked, WorkerPc
    <2> QED BY <1>1, <2>2, <2>3 DEF NotifyOne
<1>2. CASE NotifyAll(c)
    <2>1. \A d \in Callers : d # c => caller'[d] = caller[d]
        BY <1>2, GoCallerType DEF NotifyAll, CallerPc
    <2>2. ASSUME NEW w \in Workers
          PROVE  worker'[w] = worker[w] \/ (worker[w].pc = "blocked" /\ worker'[w].pc = "poll")
        <3>1. CASE w \in Blocked
            BY <1>2, <3>1 DEF NotifyAll, Blocked, TypeOK, WorkerLocals
        <3>2. CASE w \notin Blocked
            BY <1>2, <3>2 DEF NotifyAll
        <3> QED BY <3>1, <3>2
    <2> QED BY <2>1, <2>2
<1>3. CASE ~NotifyOne(c) /\ ~NotifyAll(c)
    <2>1. UNCHANGED worker
        BY <1>3 DEF CallerStep, Enqueue, EmitQueued, Cancel, RequestCancel, WriteReason,
                    EmitCancelled, Shutdown, Join, EmitDrained
    <2>2. UNCHANGED caller \/ \E v : caller' = [caller EXCEPT ![c] = v]
        BY <1>3 DEF CallerStep, Enqueue, EmitQueued, Cancel, RequestCancel, WriteReason,
                    EmitCancelled, Shutdown, Join, EmitDrained, Call, GoCaller, Return
    <2>3. \A d \in Callers : d # c => caller'[d] = caller[d]
        BY <2>2, OthersStay
    <2> QED BY <2>1, <2>3
<1> QED BY <1>1, <1>2, <1>3

(* Where a caller's step takes it.                                         *)
LEMMA CallerMoves ==
    ASSUME TypeInv, NEW c \in Callers
    PROVE  /\ Enqueue(c) => caller'[c].pc = "emit_queued"
           /\ EmitQueued(c) => caller'[c].pc = "notify_one"
           /\ NotifyOne(c) \/ EmitCancelled(c) => caller'[c].pc = "idle"
           /\ \A j \in JobIds, text \in Texts : Cancel(c, j, text) => caller'[c].pc = "request"
           /\ RequestCancel(c) => caller'[c].pc \in {"idle", "write_reason"}
           /\ WriteReason(c) => caller'[c].pc \in {"idle", "emit_cancelled"}
           /\ Shutdown(c) => caller'[c].pc = "notify_all"
           /\ NotifyAll(c) => caller'[c].pc = "join"
           /\ Join(c) => caller'[c].pc = "emit_drained"
           /\ EmitDrained(c) => IF cancelled_jobs = <<>> THEN caller'[c].pc = "idle"
                                                        ELSE caller'[c].pc = "emit_drained"
<1> USE DEF TypeInv
<1>1. /\ EmitQueued(c) => caller'[c].pc = "notify_one"
      /\ Shutdown(c) => caller'[c].pc = "notify_all"
      /\ NotifyAll(c) => caller'[c].pc = "join"
      /\ Join(c) => caller'[c].pc = "emit_drained"
    BY GoCallerType DEF EmitQueued, Shutdown, NotifyAll, Join, CallerPc
<1>2. /\ Enqueue(c) => caller'[c].pc = "emit_queued"
      /\ \A j \in JobIds, text \in Texts : Cancel(c, j, text) => caller'[c].pc = "request"
    BY DEF Enqueue, Cancel, Call, TypeOK
<1>3. NotifyOne(c) \/ EmitCancelled(c) => caller'[c].pc = "idle"
    BY ReturnType DEF NotifyOne, EmitCancelled
<1>4. RequestCancel(c) => caller'[c].pc \in {"idle", "write_reason"}
    BY ReturnType, GoCallerType DEF RequestCancel, CallerPc
<1>5. WriteReason(c) => caller'[c].pc \in {"idle", "emit_cancelled"}
    BY ReturnType, GoCallerType DEF WriteReason, CallerPc
<1>6. EmitDrained(c) => IF cancelled_jobs = <<>> THEN caller'[c].pc = "idle"
                                               ELSE caller'[c].pc = "emit_drained"
    BY ReturnType DEF EmitDrained
<1> QED BY <1>1, <1>2, <1>3, <1>4, <1>5, <1>6

-----------------------------------------------------------------------------
(* Order                                                                   *)

(* One status more of one job.                                             *)
LEMMA EmitSeen ==
    ASSUME TypeOK, NEW j \in JobIds, NEW status \in Statuses, Emit(j, status)
    PROVE  \A k \in JobIds, s \in Statuses : Seen(k, s)' <=> Seen(k, s) \/ (k = j /\ s = status)
<1>1. /\ events'[j] = Append(events[j], status) /\ events[j] \in Seq(Statuses)
      /\ \A k \in JobIds : k # j => events'[k] = events[k]
    BY EmitType DEF TypeOK
<1> DEFINE n == Len(events[j])
<1>2. /\ n \in Nat /\ DOMAIN events[j] = 1 .. n /\ DOMAIN events'[j] = 1 .. n + 1
      /\ events'[j][n + 1] = status
      /\ \A i \in 1 .. n : events'[j][i] = events[j][i]
      /\ n + 1 \in 1 .. n + 1
      /\ \A i \in 1 .. n + 1 : i = n + 1 \/ i \in 1 .. n
      /\ \A i \in 1 .. n : i \in 1 .. n + 1
    BY <1>1, AppendProperties, LenProperties
<1> HIDE DEF n
<1> SUFFICES ASSUME NEW k \in JobIds, NEW s \in Statuses
             PROVE  Seen(k, s)' <=> Seen(k, s) \/ (k = j /\ s = status)
    OBVIOUS
<1>3. CASE k = j
    BY <1>2, <1>3 DEF Seen
<1>4. CASE k # j
    BY <1>1, <1>4 DEF Seen
<1> QED BY <1>3, <1>4

(* What a status must not come after.                                      *)
LEMMA EmitInOrder ==
    ASSUME TypeOK, StatusesInOrder, NEW j \in JobIds, NEW status \in Statuses, Emit(j, status),
           ~Seen(j, status),
           status \in Terminal \union {"running"} => ~Ended(j),
           status \in {"completed", "failed"} => Seen(j, "running")
    PROVE  StatusesInOrder'
<1>1. /\ events'[j] = Append(events[j], status) /\ events[j] \in Seq(Statuses)
      /\ \A k \in JobIds : k # j => events'[k] = events[k]
    BY EmitType DEF TypeOK
<1> DEFINE n == Len(events[j])
           InOrder(seen) ==
             /\ \A a, b \in DOMAIN seen :
                  seen[a] = seen[b] \/ (seen[a] \in Terminal /\ seen[b] \in Terminal) => a = b
             /\ \A a, b \in DOMAIN seen : seen[a] = "running" /\ seen[b] \in Terminal => a < b
             /\ \A b \in DOMAIN seen : seen[b] \in {"completed", "failed"} =>
                  \E a \in DOMAIN seen : seen[a] = "running"
<1>2. /\ n \in Nat /\ DOMAIN events[j] = 1 .. n /\ DOMAIN events'[j] = 1 .. n + 1
      /\ events'[j][n + 1] = status
      /\ \A i \in 1 .. n : events'[j][i] = events[j][i]
      /\ n + 1 \in 1 .. n + 1
      /\ \A i \in 1 .. n + 1 : i = n + 1 \/ i \in 1 .. n
      /\ \A i \in 1 .. n : i \in 1 .. n + 1 /\ i < n + 1
    BY <1>1, AppendProperties, LenProperties
<1> HIDE DEF n
<1>3. /\ \A i \in 1 .. n : events[j][i] # status
      /\ status \in Terminal \union {"running"} => \A i \in 1 .. n : events[j][i] \notin Terminal
    BY <1>2 DEF Seen, Ended
<1>4. InOrder(events[j])
    BY DEF StatusesInOrder
<1>5. \A a, b \in 1 .. n + 1 :
        \/ events'[j][a] = events'[j][b]
        \/ events'[j][a] \in Terminal /\ events'[j][b] \in Terminal
        => a = b
    BY <1>2, <1>3, <1>4
<1>6. \A a, b \in 1 .. n + 1 :
        events'[j][a] = "running" /\ events'[j][b] \in Terminal => a < b
    <2>1. "running" \notin Terminal
        BY DEF Terminal
    <2> QED BY <1>2, <1>3, <1>4, <2>1
<1>7. \A b \in 1 .. n + 1 : events'[j][b] \in {"completed", "failed"} =>
        \E a \in 1 .. n + 1 : events'[j][a] = "running"
    <2>1. status \in {"completed", "failed"} => \E a \in 1 .. n : events[j][a] = "running"
        BY <1>2 DEF Seen
    <2> QED BY <1>2, <1>4, <2>1
<1>8. InOrder(events'[j])
    <2> DEFINE seen == events'[j]
    <2>1. DOMAIN seen = 1 .. n + 1
        BY <1>2
    <2> HIDE DEF seen
    <2>2. /\ \A a, b \in 1 .. n + 1 :
               seen[a] = seen[b] \/ (seen[a] \in Terminal /\ seen[b] \in Terminal) => a = b
          /\ \A a, b \in 1 .. n + 1 : seen[a] = "running" /\ seen[b] \in Terminal => a < b
          /\ \A b \in 1 .. n + 1 : seen[b] \in {"completed", "failed"} =>
               \E a \in 1 .. n + 1 : seen[a] = "running"
        BY <1>5, <1>6, <1>7 DEF seen
    <2>3. InOrder(seen)
        BY <2>1, <2>2
    <2> QED BY <2>3 DEF seen
<1>9. \A k \in JobIds : k # j => InOrder(events'[k])
    BY <1>1 DEF StatusesInOrder
<1> QED BY <1>8, <1>9 DEF StatusesInOrder

(* Steps that report nothing, and begin no processing and no announcement. *)
LEMMA EventsQuietStep ==
    ASSUME TypeInv, EventsInv, UNCHANGED <<next_id, events>>,
           \A w \in Workers : /\ Begun(w)' <=> Begun(w)
                              /\ Begun(w) => worker'[w].job = worker[w].job,
           \A c \in Callers, j \in JobIds : Announces(c, j)' => Announces(c, j)
    PROVE  EventsInv'
<1>1. BegunInv'
    BY DEF EventsInv, BegunInv, Seen, Ended
<1>2. AnnouncedInv'
    BY DEF EventsInv, AnnouncedInv, Seen
<1>3. StatusesInOrder'
    BY DEF EventsInv, StatusesInOrder
<1> QED BY <1>1, <1>2, <1>3 DEF EventsInv

(* A worker's step keeps the order of events.                              *)
LEMMA EventsWorkerStep ==
    ASSUME OwnerInv, EventsInv, NEW w \in Workers, WorkerStep(w)
    PROVE  EventsInv'
<1> TypeInv
    BY DEF OwnerInv
<1> DEFINE j == worker[w].job
<1>1. /\ \A v \in Workers : v # w => worker'[v] = worker[v]
      /\ UNCHANGED <<next_id, caller>>
    BY OthersWork
<1>2. \A c \in Callers, k \in JobIds : Announces(c, k)' <=> Announces(c, k)
    BY <1>1 DEF Announces
<1>3. CASE Block(w) \/ WakeSpuriously(w) \/ Exit(w) \/ Take(w)
    <2>1. ~Begun(w) /\ ~Begun(w)' /\ UNCHANGED events
        BY <1>3 DEF Block, WakeSpuriously, Exit, Take, GoWorker, eventVars, Begun, HoldsJob,
                    TypeInv, TypeOK, WorkerLocals
    <2> QED BY <1>1, <1>2, <2>1, EventsQuietStep DEF Begun, HoldsJob
<1>4. CASE Process(w) \/ Erase(w) \/ CheckRequested(w) \/ ReadReasonStep(w)
    <2>1. Begun(w) /\ Begun(w)' /\ worker'[w].job = worker[w].job /\ UNCHANGED events
        <3>1. CASE Erase(w) \/ CheckRequested(w)
            BY <3>1 DEF Erase, CheckRequested, GoWorker, eventVars, Begun, HoldsJob, TypeInv,
                        TypeOK, WorkerLocals
        <3>2. CASE Process(w)
            BY <3>2 DEF Process, eventVars, Begun, HoldsJob, TypeInv, TypeOK, WorkerLocals
        <3>3. CASE ReadReasonStep(w)
            BY <3>3 DEF ReadReasonStep, eventVars, Begun, HoldsJob, TypeInv, TypeOK, WorkerLocals
        <3> QED BY <1>4, <3>1, <3>2, <3>3
    <2> QED BY <1>1, <1>2, <2>1, EventsQuietStep DEF Begun, HoldsJob
<1>5. CASE EmitRunning(w)
    <2>1. /\ j \in JobIds /\ WorkerHas(w, j) /\ ~Begun(w)
          /\ Emit(j, "running") /\ "running" \in Statuses
        BY <1>5 DEF EmitRunning, TypeInv, LocalsOK, HoldsJob, WorkerHas, Begun, Statuses
    <2>2. worker'[w].job = j /\ Begun(w)'
        BY <1>5 DEF EmitRunning, GoWorker, Begun, HoldsJob, TypeInv, TypeOK, WorkerLocals
    <2>3. ~Ended(j) /\ ~Seen(j, "running")
        BY <2>1 DEF OwnerInv, Exclusive, WorkerHas, EventsInv, BegunInv, Begun
    <2>4. \A k \in JobIds, s \in Statuses :
            Seen(k, s)' <=> Seen(k, s) \/ (k = j /\ s = "running")
        BY <2>1, EmitSeen DEF TypeInv
    <2>5. \A k \in JobIds : Ended(k)' <=> Ended(k)
        BY <2>1, EmitEnds DEF TypeInv, Terminal
    <2>6. StatusesInOrder'
        BY <2>1, <2>3, EmitInOrder DEF TypeInv, EventsInv
    <2>7. BegunInv'
        <3>1. ASSUME NEW v \in Workers, Begun(v)' PROVE Seen(worker[v].job, "running")'
            <4>1. CASE v = w
                BY <2>1, <2>2, <2>4, <4>1
            <4>2. CASE v # w
                <5>1. worker'[v] = worker[v] /\ Begun(v) /\ worker[v].job \in JobIds
                    BY <1>1, <3>1, <4>2 DEF Begun, HoldsJob, TypeInv, LocalsOK
                <5> QED BY <2>1, <2>4, <5>1 DEF EventsInv, BegunInv
            <4> QED BY <4>1, <4>2
        <3>2. ASSUME NEW k \in JobIds, Seen(k, "running")'
              PROVE  Ended(k)' \/ \E v \in Workers : Begun(v)' /\ worker'[v].job = k
            <4>1. CASE k = j
                BY <2>2, <4>1
            <4>2. CASE k # j
                <5>1. Ended(k) \/ \E v \in Workers : Begun(v) /\ worker[v].job = k
                    BY <2>1, <2>4, <3>2, <4>2 DEF EventsInv, BegunInv
                <5>2. \A v \in Workers : Begun(v) => Begun(v)' /\ worker'[v].job = worker[v].job
                    BY <1>1, <2>1 DEF Begun, HoldsJob
                <5> QED BY <2>5, <5>1, <5>2
            <4> QED BY <4>1, <4>2
        <3> QED BY <3>1, <3>2 DEF BegunInv
    <2>8. AnnouncedInv'
        BY <1>1, <1>2, <2>1, <2>4 DEF EventsInv, AnnouncedInv, Statuses
    <2> QED BY <2>6, <2>7, <2>8 DEF EventsInv
<1>6. CASE EmitWorkerCancelled(w) \/ EmitResult(w)
    <2>1. PICK status \in Terminal : Emit(j, status) /\ (status # "cancelled" => EmitResult(w))
        BY <1>6 DEF EmitWorkerCancelled, EmitReason, EmitResult, Terminal
    <2>2. /\ j \in JobIds /\ WorkerHas(w, j) /\ Begun(w) /\ ~Begun(w)' /\ status \in Statuses
        BY <1>6 DEF EmitWorkerCancelled, EmitResult, FreshWorker, TypeInv, TypeOK, LocalsOK,
                    HoldsJob, WorkerHas, Begun, Statuses
    <2>3. ~Ended(j) /\ ~Seen(j, status)
        BY <2>1, <2>2 DEF OwnerInv, Exclusive, Ended, Seen
    <2>4. Seen(j, "running") /\ status # "running" /\ status # "queued"
        BY <2>1, <2>2 DEF EventsInv, BegunInv, Terminal
    <2>5. \A k \in JobIds, s \in Statuses : Seen(k, s)' <=> Seen(k, s) \/ (k = j /\ s = status)
        BY <2>1, <2>2, EmitSeen DEF TypeInv
    <2>6. \A k \in JobIds : Ended(k)' <=> Ended(k) \/ k = j
        BY <2>1, <2>2, EmitEnds DEF TypeInv
    <2>7. StatusesInOrder'
        BY <2>1, <2>2, <2>3, <2>4, EmitInOrder DEF TypeInv, EventsInv
    <2>8. BegunInv'
        <3>1. ASSUME NEW v \in Workers, Begun(v)' PROVE Seen(worker[v].job, "running")'
            <4>1. worker'[v] = worker[v] /\ Begun(v) /\ worker[v].job \in JobIds
                BY <1>1, <2>2, <3>1 DEF Begun, HoldsJob, TypeInv, LocalsOK
            <4> QED BY <2>5, <4>1 DEF EventsInv, BegunInv, Statuses
        <3>2. ASSUME NEW k \in JobIds, Seen(k, "running")'
              PROVE  Ended(k)' \/ \E v \in Workers : Begun(v)' /\ worker'[v].job = k
            <4>1. CASE k = j
                BY <2>6, <4>1
            <4>2. CASE k # j
                <5>1. Ended(k) \/ \E v \in Workers : Begun(v) /\ worker[v].job = k
                    BY <2>5, <3>2, <4>2 DEF EventsInv, BegunInv, Statuses
                <5>2. \A v \in Workers : v # w /\ Begun(v) => Begun(v)' /\ worker'[v].job = worker[v].job
                    BY <1>1 DEF Begun, HoldsJob
                <5> QED BY <2>6, <4>2, <5>1, <5>2
            <4> QED BY <4>1, <4>2
        <3> QED BY <3>1, <3>2 DEF BegunInv
    <2>9. AnnouncedInv'
        BY <1>1, <1>2, <2>4, <2>5 DEF EventsInv, AnnouncedInv, Statuses
    <2> QED BY <2>7, <2>8, <2>9 DEF EventsInv
<1> QED BY <1>3, <1>4, <1>5, <1>6 DEF WorkerStep

(* A caller's step keeps the order of events: queued is reported once, by  *)
(* the thread that has the id, at whatever time, and who reports cancelled *)
(* owns the job.                                                           *)
LEMMA EventsCallerStep ==
    ASSUME OwnerInv, EventsInv, NEW c \in Callers, CallerStep(c)
    PROVE  EventsInv'
<1> TypeInv
    BY DEF OwnerInv
<1>1. /\ \A d \in Callers : d # c => caller'[d] = caller[d]
      /\ \A w \in Workers : /\ Begun(w)' <=> Begun(w)
                            /\ Begun(w) => worker'[w].job = worker[w].job
    BY OthersCall DEF Begun, HoldsJob
<1>2. CASE Enqueue(c)
    <2>1. /\ next_id \in JobIds /\ next_id' = next_id + 1 /\ UNCHANGED events
          /\ caller[c].pc = "idle" /\ caller'[c].job = next_id
        BY <1>2, MaxJobsAssumption DEF Enqueue, Call, eventVars, TypeInv, TypeOK, JobIds
    <2>2. \A k \in JobIds : k < next_id => k < next_id' /\ k # next_id
        BY <2>1, MaxJobsAssumption DEF JobIds
    <2>3. next_id < next_id'
        BY <2>1, MaxJobsAssumption DEF JobIds
    <2>4. \A d \in Callers, k \in JobIds : Announces(d, k)' =>
            (Announces(d, k) /\ d # c) \/ (d = c /\ k = next_id)
        BY <1>1, <2>1 DEF Announces
    <2>5. \A k \in JobIds, s \in Statuses : Seen(k, s)' <=> Seen(k, s)
        BY <2>1 DEF Seen
    <2>6. AnnouncedInv'
        BY <2>1, <2>2, <2>3, <2>4, <2>5 DEF EventsInv, AnnouncedInv, Statuses
    <2>7. BegunInv' /\ StatusesInOrder'
        BY <1>1, <2>1 DEF EventsInv, BegunInv, Seen, Ended, StatusesInOrder
    <2> QED BY <2>6, <2>7 DEF EventsInv
<1>3. CASE EmitQueued(c) \/ EmitCancelled(c) \/ (EmitDrained(c) /\ cancelled_jobs # <<>>)
    <2>1. PICK j \in JobIds, status \in {"queued", "cancelled"} :
            /\ Emit(j, status) /\ ~Seen(j, status)
            /\ status = "cancelled" => ~Ended(j)
            /\ status = "queued" => Announces(c, j) /\ caller'[c].pc # "emit_queued"
        <3>1. CASE EmitQueued(c)
            BY <3>1, GoCallerType
               DEF EmitQueued, TypeInv, LocalsOK, HasTarget, Announces, EventsInv, AnnouncedInv, CallerPc
        <3>2. CASE EmitCancelled(c)
            <4> DEFINE j == caller[c].job
            <4>1. j \in JobIds /\ CallerHas(c, j) /\ Emit(j, "cancelled")
                BY <3>2 DEF EmitCancelled, EmitReason, OwnerInv, TypeInv, LocalsOK, HasTarget,
                            CallerHas, Requests
            <4>2. ~Ended(j) /\ ~Seen(j, "cancelled")
                BY <4>1 DEF OwnerInv, Exclusive, Ended, Seen, Terminal
            <4> QED BY <4>1, <4>2
        <3>3. CASE EmitDrained(c) /\ cancelled_jobs # <<>>
            <4> DEFINE j == Head(cancelled_jobs)
            <4>1. j \in JobIds /\ InDrained(j) /\ Emit(j, "cancelled")
                BY <3>3, TailQueue DEF EmitDrained, EmitReason, OwnerInv, QueueInv, TypeInv,
                   TypeOK,
                                       InDrained
            <4>2. ~Ended(j) /\ ~Seen(j, "cancelled")
                BY <4>1 DEF OwnerInv, Exclusive, Ended, Seen, Terminal
            <4> QED BY <4>1, <4>2
        <3> QED BY <1>3, <3>1, <3>2, <3>3
    <2>2. UNCHANGED next_id
        BY <1>3 DEF EmitQueued, EmitCancelled, EmitDrained, poolVars
    <2>3. \A d \in Callers, k \in JobIds : Announces(d, k)' => Announces(d, k)
        <3>1. CASE EmitQueued(c)
            BY <1>1, <3>1, GoCallerType DEF EmitQueued, Announces, CallerPc, TypeInv
        <3>2. CASE EmitCancelled(c)
            BY <1>1, <3>2, ReturnType DEF EmitCancelled, Announces, TypeInv
        <3>3. CASE EmitDrained(c) /\ cancelled_jobs # <<>>
            BY <3>3 DEF EmitDrained, Announces
        <3> QED BY <1>3, <3>1, <3>2, <3>3
    <2>4. status \in Statuses /\ status # "running" /\ (status \in Terminal <=> status = "cancelled")
        BY DEF Statuses, Terminal
    <2>5. \A k \in JobIds, s \in Statuses : Seen(k, s)' <=> Seen(k, s) \/ (k = j /\ s = status)
        BY <2>1, <2>4, EmitSeen DEF TypeInv
    <2>6. \A k \in JobIds : Ended(k) => Ended(k)'
        BY <2>1, <2>4, EmitEnds DEF TypeInv
    <2>7. StatusesInOrder'
        BY <2>1, <2>4, EmitInOrder DEF TypeInv, EventsInv
    <2>8. BegunInv'
        <3>1. \A k \in JobIds : Seen(k, "running")' <=> Seen(k, "running")
            BY <2>4, <2>5 DEF Statuses
        <3>2. ASSUME NEW w \in Workers, Begun(w)' PROVE Seen(worker[w].job, "running")'
            <4> worker[w].job \in JobIds
                BY <1>1, <3>2 DEF Begun, TypeInv, LocalsOK
            <4> QED BY <1>1, <3>1, <3>2 DEF EventsInv, BegunInv
        <3> QED BY <1>1, <2>6, <3>1, <3>2 DEF EventsInv, BegunInv
    <2>9. AnnouncedInv'
        <3>1. ASSUME NEW k \in JobIds, Seen(k, "queued")'
              PROVE  k < next_id /\ \A d \in Callers : ~Announces(d, k)'
            <4>1. CASE Seen(k, "queued")
                BY <2>3, <4>1 DEF EventsInv, AnnouncedInv
            <4>2. CASE ~Seen(k, "queued")
                <5>1. k = j /\ status = "queued"
                    BY <2>5, <3>1, <4>2 DEF Statuses
                <5>2. /\ Announces(c, k) /\ ~Announces(c, k)'
                    BY <2>1, <5>1 DEF Announces
                <5> QED BY <2>3, <5>2 DEF EventsInv, AnnouncedInv
            <4> QED BY <4>1, <4>2
        <3> QED BY <2>2, <2>3, <3>1 DEF EventsInv, AnnouncedInv
    <2> QED BY <2>7, <2>8, <2>9 DEF EventsInv
<1>4. CASE \/ NotifyOne(c) \/ NotifyAll(c) \/ Join(c) \/ Shutdown(c) \/ RequestCancel(c)
           \/ WriteReason(c) \/ (EmitDrained(c) /\ cancelled_jobs = <<>>)
           \/ \E j \in JobIds, text \in Texts : Cancel(c, j, text)
    <2>1. UNCHANGED <<next_id, events>>
        BY <1>4 DEF NotifyOne, NotifyAll, Join, Shutdown, RequestCancel, WriteReason, EmitDrained,
                    Cancel, poolVars, eventVars
    <2>2. caller'[c].pc # "emit_queued"
        <3>1. CASE Return(c)
            BY <3>1, ReturnType DEF TypeInv
        <3>2. CASE \E pc \in CallerPc \ {"emit_queued"} : GoCaller(c, pc)
            BY <3>2, GoCallerType DEF TypeInv
        <3>3. CASE \E j \in JobIds, text \in Texts : Cancel(c, j, text)
            BY <3>3 DEF Cancel, Call, TypeInv, TypeOK
        <3> QED BY <1>4, <3>1, <3>2, <3>3 DEF NotifyOne, NotifyAll, Join, Shutdown, RequestCancel,
                    WriteReason, EmitDrained, CallerPc
    <2>3. \A d \in Callers, k \in JobIds : Announces(d, k)' => Announces(d, k)
        BY <1>1, <2>2 DEF Announces
    <2> QED BY <1>1, <2>1, <2>3, EventsQuietStep
<1> QED BY <1>2, <1>3, <1>4 DEF CallerStep

(* EventsInv is inductive relative to OwnerInv.                            *)
LEMMA EventsNext == OwnerInv /\ EventsInv /\ [Next]_vars => EventsInv'
<1> SUFFICES ASSUME OwnerInv, EventsInv, [Next]_vars PROVE EventsInv'
    OBVIOUS
<1>1. CASE UNCHANGED vars
    BY <1>1, EventsQuietStep DEF vars, OwnerInv, Begun, HoldsJob, Announces
<1> QED BY <1>1, EventsCallerStep, EventsWorkerStep DEF Next

(* No event was reported at the start.                                     *)
LEMMA EventsInit == Init => EventsInv
<1> SUFFICES ASSUME Init PROVE EventsInv
    OBVIOUS
<1>1. \A j \in JobIds : DOMAIN events[j] = {}
    BY DEF Init
<1>2. \A w \in Workers : ~Begun(w)
    BY DEF Init, Begun, HoldsJob, FreshWorker
<1>3. \A c \in Callers : caller[c].pc = "idle"
    BY DEF Init, IdleCaller
<1> QED BY <1>1, <1>2, <1>3
        DEF EventsInv, BegunInv, AnnouncedInv, StatusesInOrder, Seen, Announces

(* In every state a job has one owner and its events are in order.         *)
LEMMA EventsAlways == Spec => [](OwnerInv /\ EventsInv)
BY OwnerInit, OwnerNext, EventsInit, EventsNext, PTL DEF Spec

(* Every job's statuses are in order, although its queued event comes at   *)
(* any time and its end from any of four places.                           *)
THEOREM StatusesInOrderCorrect == Spec => []StatusesInOrder
<1>1. EventsInv => StatusesInOrder
    BY DEF EventsInv
<1> QED BY <1>1, EventsAlways, PTL

-----------------------------------------------------------------------------
(* Reasons                                                                 *)

(* What may be told of a job whose cancellation was requested: the reason  *)
(* written for it, or the default while a cancel has yet to write one.     *)
Fits(text, j) ==
    \/ text = reason[j] /\ text # NoReason
    \/ text = DefaultReason /\ reason[j] \in ReasonsOfCancel

(* A job taken off the queue, by cancel or by shutdown, has its reason     *)
(* before it is reported cancelled.                                        *)
GivenInv ==
    /\ \A c \in Callers : caller[c].pc \in {"request", "write_reason"} => caller[c].reason \in Texts
    /\ \A c \in Callers : caller[c].pc = "emit_cancelled" => reason[caller[c].job] # NoReason
    /\ \A j \in JobIds : InDrained(j) => reason[j] # NoReason

(* A worker finds the flag set before it reads the reason.                 *)
ReadInv ==
    /\ \A w \in Workers : worker[w].pc \in {"read_reason", "emit_cancelled"} => requested[worker[w].job]
    /\ \A w \in Workers : worker[w].pc = "emit_cancelled" => Fits(worker[w].reason, worker[w].job)

(* The same of what was reported; only a job that ran may have been        *)
(* reported before its reason was written.                                 *)
ToldInv ==
    \A j \in JobIds : Seen(j, "cancelled") =>
        /\ requested[j] /\ Fits(reported[j], j)
        /\ reported[j] # reason[j] => Seen(j, "running")

(* Flags stay set, reasons stay written, and only a cancel writes the      *)
(* reason of a job whose flag was set earlier.                             *)
ReasonMove ==
    \A j \in JobIds :
        /\ requested[j] => requested'[j]
        /\ reason[j] # NoReason => reason'[j] = reason[j]
        /\ requested[j] /\ reason[j] = NoReason => reason'[j] \in ReasonsOfCancel

(* Every step is one of these; the reason a cancel writes is its own.      *)
LEMMA ReasonMoves == TypeInv /\ ReasonInv /\ GivenInv /\ [Next]_vars => ReasonMove
<1> SUFFICES ASSUME TypeInv, ReasonInv, GivenInv, [Next]_vars PROVE ReasonMove
    OBVIOUS
<1>1. FirstReasonStep
    BY ReasonNext
<1>2. CASE UNCHANGED <<requested, reason>>
    BY <1>2 DEF ReasonMove, ReasonsOfCancel
<1>3. ASSUME NEW c \in Callers, RequestCancel(c) PROVE ReasonMove
    <2>1. UNCHANGED reason /\ \A j \in JobIds : requested[j] => requested'[j]
        BY <1>3 DEF RequestCancel, TypeInv, TypeOK
    <2> QED BY <2>1 DEF ReasonMove, ReasonsOfCancel
<1>4. ASSUME NEW c \in Callers, WriteReason(c) PROVE ReasonMove
    <2>1. caller[c].reason \in Texts
        BY <1>4 DEF WriteReason, GivenInv
    <2>2. GivenReason(caller[c].reason) \in ReasonsOfCancel
        BY <2>1 DEF GivenReason, ReasonsOfCancel
    <2>3. \A j \in JobIds : reason'[j] = reason[j] \/ reason'[j] \in ReasonsOfCancel
        BY <1>4, <2>2 DEF WriteReason, TypeInv, TypeOK
    <2>4. UNCHANGED requested
        BY <1>4 DEF WriteReason
    <2> QED BY <1>1, <2>3, <2>4 DEF ReasonMove, FirstReasonStep, ReasonsOfCancel
<1>5. ASSUME NEW c \in Callers, Shutdown(c) PROVE ReasonMove
    <2>1. \A j \in JobIds : requested[j] => requested'[j] /\ reason'[j] = reason[j]
        BY <1>5 DEF Shutdown, Stopped, TypeInv, TypeOK
    <2> QED BY <1>1, <2>1 DEF ReasonMove, FirstReasonStep, ReasonsOfCancel
<1>6. ASSUME NEW c \in Callers, CallerStep(c),
             ~RequestCancel(c), ~WriteReason(c), ~Shutdown(c)
      PROVE  UNCHANGED <<requested, reason>>
    BY <1>6 DEF CallerStep, Enqueue, EmitQueued, NotifyOne, Cancel, EmitCancelled, NotifyAll,
                Join, EmitDrained, jobVars
<1>7. ASSUME NEW w \in Workers, WorkerStep(w) PROVE UNCHANGED <<requested, reason>>
    BY <1>7, OthersWork
<1>8. CASE UNCHANGED vars
    BY <1>2, <1>8 DEF vars
<1> QED BY <1>2, <1>3, <1>4, <1>5, <1>6, <1>7, <1>8 DEF Next

(* What fits a requested job fits it for good.                             *)
LEMMA FitsStays ==
    ASSUME ReasonMove, NEW j \in JobIds, requested[j], NEW text, Fits(text, j)
    PROVE  requested'[j] /\ Fits(text, j)'
BY DEF ReasonMove, Fits, ReasonsOfCancel

(* Cancel, shutdown and the steps between keep GivenInv.                   *)
LEMMA GivenCallerStep ==
    ASSUME OwnerInv, GivenInv, ReasonMove, NEW c \in Callers, CallerStep(c)
    PROVE  GivenInv'
<1> TypeInv
    BY DEF OwnerInv
<1>1. \A d \in Callers : d # c => caller'[d] = caller[d]
    BY OthersCall
<1>2. /\ caller'[c].pc \in {"request", "write_reason"} => caller'[c].reason \in Texts
      /\ caller'[c].pc = "emit_cancelled" =>
           /\ caller[c].job \in JobIds /\ caller'[c].job = caller[c].job
           /\ reason'[caller[c].job] # NoReason
    <2>1. CASE \E j \in JobIds, text \in Texts : Cancel(c, j, text)
        BY <2>1 DEF Cancel, Call, TypeInv, TypeOK
    <2>2. CASE RequestCancel(c)
        <3>1. CASE Return(c)
            BY <3>1, ReturnType DEF TypeInv
        <3>2. CASE caller' = [caller EXCEPT ![c].pc = "write_reason"]
            BY <2>2, <3>2 DEF RequestCancel, TypeInv, TypeOK, CallerLocals, GivenInv
        <3> QED BY <2>2, <3>1, <3>2 DEF RequestCancel, GoCaller
    <2>3. CASE WriteReason(c)
        <3>1. caller[c].job \in JobIds
            BY <2>3 DEF WriteReason, TypeInv, LocalsOK, HasTarget
        <3>2. GivenReason(caller[c].reason) # NoReason
            BY DEF GivenReason, DefaultReason, NoReason
        <3>3. reason'[caller[c].job] # NoReason
            BY <2>3, <3>1, <3>2 DEF WriteReason, TypeInv, TypeOK
        <3>4. CASE Return(c)
            BY <3>4, ReturnType DEF TypeInv
        <3>5. CASE GoCaller(c, "emit_cancelled")
            BY <3>1, <3>3, <3>5, GoCallerType DEF TypeInv, CallerPc
        <3> QED BY <2>3, <3>4, <3>5 DEF WriteReason
    <2>4. CASE Enqueue(c)
        BY <2>4 DEF Enqueue, Call, TypeInv, TypeOK
    <2>5. CASE EmitQueued(c) \/ Shutdown(c) \/ NotifyAll(c) \/ Join(c)
        <3>1. PICK pc \in {"notify_one", "notify_all", "join", "emit_drained"} : GoCaller(c, pc)
            BY <2>5 DEF EmitQueued, Shutdown, NotifyAll, Join
        <3> QED BY <3>1, GoCallerType DEF TypeInv, CallerPc
    <2>6. CASE NotifyOne(c) \/ EmitCancelled(c) \/ EmitDrained(c)
        <3>1. CASE Return(c)
            BY <3>1, ReturnType DEF TypeInv
        <3>2. CASE caller[c].pc = "emit_drained" /\ UNCHANGED caller
            BY <3>2
        <3> QED BY <2>6, <3>1, <3>2 DEF NotifyOne, EmitCancelled, EmitDrained
    <2> QED BY <2>1, <2>2, <2>3, <2>4, <2>5, <2>6 DEF CallerStep
<1>3. \A d \in Callers : caller'[d].pc = "emit_cancelled" => reason'[caller'[d].job] # NoReason
    <2> SUFFICES ASSUME NEW d \in Callers, caller'[d].pc = "emit_cancelled"
                 PROVE  reason'[caller'[d].job] # NoReason
        OBVIOUS
    <2>1. CASE d = c
        BY <1>2, <2>1
    <2>2. CASE d # c
        <3>1. caller'[d] = caller[d] /\ caller[d].job \in JobIds
            BY <1>1, <2>2 DEF TypeInv, LocalsOK, HasTarget
        <3> QED BY <3>1 DEF GivenInv, ReasonMove
    <2> QED BY <2>1, <2>2
<1>4. \A j \in JobIds : InDrained(j)' => reason'[j] # NoReason
    <2>1. CASE Shutdown(c)
        <3> SUFFICES ASSUME NEW j \in JobIds, InDrained(j)' PROVE reason'[j] # NoReason
            OBVIOUS
        <3>1. InQueue(j)
            BY <2>1 DEF Shutdown, InDrained, InQueue
        <3>2. Stopped(j)
            BY <3>1 DEF OwnerInv, Requests, Stopped
        <3> QED BY <2>1, <3>2 DEF Shutdown, ShutdownReason, NoReason
    <2>2. CASE EmitDrained(c) /\ cancelled_jobs # <<>>
        <3>1. \A j \in JobIds : InDrained(j)' => InDrained(j)
            <4>1. /\ cancelled_jobs' = Tail(cancelled_jobs) /\ cancelled_jobs \in Seq(JobIds)
                  /\ Increasing(cancelled_jobs)
                BY <2>2 DEF EmitDrained, OwnerInv, QueueInv, TypeInv, TypeOK
            <4>2. \A j : (\E i \in DOMAIN Tail(cancelled_jobs) : Tail(cancelled_jobs)[i] = j) =>
                    \E i \in DOMAIN cancelled_jobs : cancelled_jobs[i] = j
                BY <2>2, <4>1, TailQueue
            <4> QED BY <4>1, <4>2 DEF InDrained
        <3> QED BY <3>1 DEF GivenInv, ReasonMove
    <2>3. ASSUME ~Shutdown(c), ~(EmitDrained(c) /\ cancelled_jobs # <<>>)
          PROVE  UNCHANGED cancelled_jobs
        BY <2>3 DEF CallerStep, Enqueue, EmitQueued, NotifyOne, Cancel, RequestCancel,
           WriteReason,
                    EmitCancelled, NotifyAll, Join, EmitDrained
    <2> QED BY <2>1, <2>2, <2>3 DEF GivenInv, ReasonMove, InDrained
<1> QED BY <1>1, <1>2, <1>3, <1>4 DEF GivenInv

(* A worker leaves callers and reasons alone, and reads after the flag.    *)
LEMMA GivenWorkerStep ==
    ASSUME TypeInv, GivenInv, ReadInv, NEW w \in Workers, WorkerStep(w)
    PROVE  GivenInv' /\ ReadInv'
<1>1. /\ \A v \in Workers : v # w => worker'[v] = worker[v]
      /\ UNCHANGED <<requested, reason, caller, cancelled_jobs>>
    BY OthersWork
<1>2. worker'[w].pc = "read_reason" => requested[worker'[w].job]
    <2>1. CASE CheckRequested(w)
        BY <2>1 DEF CheckRequested, GoWorker, TypeInv, TypeOK, WorkerLocals
    <2>2. ASSUME ~CheckRequested(w) PROVE worker'[w].pc # "read_reason"
        BY <2>2, WorkerMoves DEF WorkerStep
    <2> QED BY <2>1, <2>2
<1>3. worker'[w].pc = "emit_cancelled" =>
        requested[worker'[w].job] /\ Fits(worker[w].reason, worker[w].job)'
    <2>1. CASE ReadReasonStep(w)
        <3>1. /\ worker'[w].job = worker[w].job /\ requested[worker[w].job]
              /\ worker'[w].reason = ReadReason(worker[w].job)
            BY <2>1 DEF ReadReasonStep, ReadInv, TypeInv, TypeOK, WorkerLocals
        <3> QED BY <1>1, <3>1 DEF Fits, ReadReason, ReasonsOfCancel
    <2>2. ASSUME ~ReadReasonStep(w) PROVE worker'[w].pc # "emit_cancelled"
        BY <2>2, WorkerMoves DEF WorkerStep
    <2> QED BY <2>1, <2>2
<1>4. ReadInv'
    BY <1>1, <1>2, <1>3 DEF ReadInv, Fits
<1> QED BY <1>1, <1>4 DEF GivenInv, InDrained

(* A caller does not move a worker that reads or carries a reason.         *)
LEMMA ReadCallerStep ==
    ASSUME TypeInv, ReadInv, ReasonMove, NEW c \in Callers, CallerStep(c)
    PROVE  ReadInv'
<1>1. \A w \in Workers : worker'[w].pc \in {"read_reason", "emit_cancelled"} =>
        /\ worker'[w] = worker[w] /\ worker[w].job \in JobIds
        /\ requested[worker[w].job]
    BY OthersCall DEF ReadInv, TypeInv, LocalsOK, HoldsJob
<1>2. ASSUME NEW w \in Workers, worker'[w].pc = "emit_cancelled"
      PROVE  Fits(worker[w].reason, worker[w].job)'
    BY <1>1, <1>2 DEF ReadInv, Fits, ReasonMove, ReasonsOfCancel
<1> QED BY <1>1, <1>2 DEF ReadInv, ReasonMove

(* Steps that report nobody cancelled.                                     *)
LEMMA ToldQuietStep ==
    ASSUME ToldInv, ReasonMove, UNCHANGED reported,
           \A j \in JobIds : /\ Seen(j, "cancelled")' => Seen(j, "cancelled")
                             /\ Seen(j, "running") => Seen(j, "running")'
    PROVE  ToldInv'
<1> SUFFICES ASSUME NEW j \in JobIds, Seen(j, "cancelled")'
             PROVE  /\ requested'[j] /\ Fits(reported[j], j)'
                    /\ reported'[j] # reason'[j] => Seen(j, "running")'
    BY DEF ToldInv
<1>1. requested[j] /\ Fits(reported[j], j) /\ (reported[j] # reason[j] => Seen(j, "running"))
    BY DEF ToldInv
<1>2. requested'[j] /\ Fits(reported[j], j)'
    BY <1>1 DEF ReasonMove, Fits, ReasonsOfCancel
<1>3. reported[j] = reason[j] => reported'[j] = reason'[j]
    BY <1>1 DEF ReasonMove, Fits, NoReason, DefaultReason
<1> QED BY <1>1, <1>2, <1>3

(* The step that reports job j cancelled for the reason text.              *)
LEMMA ToldEmitStep ==
    ASSUME TypeOK, ToldInv, UNCHANGED <<requested, reason>>,
           NEW j \in JobIds, NEW text, EmitReason(j, text),
           requested[j], Fits(text, j), text # reason[j] => Seen(j, "running")
    PROVE  ToldInv'
<1>1. "cancelled" \in Statuses /\ "running" \in Statuses
    BY DEF Statuses, Terminal
<1>2. /\ \A k \in JobIds : Seen(k, "cancelled")' <=> Seen(k, "cancelled") \/ k = j
      /\ \A k \in JobIds : Seen(k, "running")' <=> Seen(k, "running")
    BY <1>1, EmitSeen DEF EmitReason
<1>3. /\ reported'[j] = text
      /\ \A k \in JobIds : k # j => reported'[k] = reported[k]
    BY DEF EmitReason, TypeOK
<1> SUFFICES ASSUME NEW k \in JobIds, Seen(k, "cancelled")'
             PROVE  /\ requested'[k] /\ Fits(reported[k], k)'
                    /\ reported'[k] # reason'[k] => Seen(k, "running")'
    BY DEF ToldInv
<1>4. CASE k = j
    BY <1>2, <1>3, <1>4 DEF Fits
<1>5. CASE k # j
    BY <1>2, <1>3, <1>5 DEF ToldInv, Fits
<1> QED BY <1>4, <1>5

(* A job is reported cancelled with what fits it.                          *)
LEMMA ToldNext ==
    ASSUME OwnerInv, ReasonInv, BegunInv, GivenInv, ReadInv, ToldInv, ReasonMove, [Next]_vars
    PROVE  ToldInv'
<1> TypeInv
    BY DEF OwnerInv
<1>1. ASSUME NEW j \in JobIds, reason[j] # NoReason
      PROVE  requested[j] /\ ReadReason(j) = reason[j] /\ Fits(ReadReason(j), j)
    BY <1>1 DEF ReasonInv, ReadReason, Fits
<1>2. ASSUME NEW c \in Callers, EmitCancelled(c) PROVE ToldInv'
    <2> DEFINE j == caller[c].job
    <2>1. /\ j \in JobIds /\ reason[j] # NoReason
          /\ UNCHANGED <<requested, reason>> /\ EmitReason(j, ReadReason(j))
        BY <1>2 DEF EmitCancelled, TypeInv, LocalsOK, HasTarget, GivenInv, jobVars
    <2> HIDE DEF j
    <2> QED BY <1>1, <2>1, ToldEmitStep DEF TypeInv
<1>3. ASSUME NEW c \in Callers, EmitDrained(c), cancelled_jobs # <<>> PROVE ToldInv'
    <2> DEFINE j == Head(cancelled_jobs)
    <2>1. /\ UNCHANGED <<requested, reason>> /\ EmitReason(j, ReadReason(j))
          /\ cancelled_jobs \in Seq(JobIds) /\ Increasing(cancelled_jobs)
        BY <1>3 DEF EmitDrained, jobVars, OwnerInv, QueueInv, TypeInv, TypeOK
    <2>2. j \in JobIds /\ InDrained(j)
        BY <1>3, <2>1, TailQueue DEF InDrained
    <2>3. reason[j] # NoReason
        BY <2>2 DEF GivenInv
    <2> HIDE DEF j
    <2> QED BY <1>1, <2>1, <2>2, <2>3, ToldEmitStep DEF TypeInv
<1>4. ASSUME NEW w \in Workers, EmitWorkerCancelled(w) PROVE ToldInv'
    <2> DEFINE j == worker[w].job
    <2>1. /\ j \in JobIds /\ UNCHANGED <<requested, reason>>
          /\ EmitReason(j, worker[w].reason)
          /\ requested[j] /\ Fits(worker[w].reason, j) /\ Seen(j, "running")
        BY <1>4 DEF EmitWorkerCancelled, TypeInv, LocalsOK, HoldsJob, jobVars, ReadInv, BegunInv,
                    Begun
    <2> HIDE DEF j
    <2> QED BY <2>1, ToldEmitStep DEF TypeInv
<1>5. ASSUME UNCHANGED events, UNCHANGED reported PROVE ToldInv'
    BY <1>5, ToldQuietStep DEF Seen
<1>6. ASSUME NEW j \in JobIds, NEW status \in Statuses \ {"cancelled"}, Emit(j, status),
             UNCHANGED reported
      PROVE  ToldInv'
    <2>1. "cancelled" \in Statuses /\ "running" \in Statuses
        BY DEF Statuses, Terminal
    <2> QED BY <1>6, <2>1, EmitSeen, ToldQuietStep DEF TypeInv
<1>7. ASSUME NEW c \in Callers, EmitQueued(c) PROVE ToldInv'
    BY <1>6, <1>7 DEF EmitQueued, TypeInv, LocalsOK, HasTarget, Statuses
<1>8. ASSUME NEW w \in Workers, EmitRunning(w) \/ EmitResult(w) PROVE ToldInv'
    <2>1. PICK status \in Statuses \ {"cancelled"} : Emit(worker[w].job, status)
        BY <1>8 DEF EmitRunning, EmitResult, Statuses, Terminal
    <2>2. worker[w].job \in JobIds /\ UNCHANGED reported
        BY <1>8 DEF EmitRunning, EmitResult, TypeInv, LocalsOK, HoldsJob
    <2> QED BY <1>6, <2>1, <2>2
<1>9. ASSUME NEW c \in Callers, CallerStep(c), ~EmitQueued(c), ~EmitCancelled(c),
             ~(EmitDrained(c) /\ cancelled_jobs # <<>>)
      PROVE  UNCHANGED events /\ UNCHANGED reported
    BY <1>9 DEF CallerStep, Enqueue, NotifyOne, Cancel, RequestCancel, WriteReason, Shutdown,
                NotifyAll, Join, EmitDrained, eventVars
<1>10. ASSUME NEW w \in Workers, WorkerStep(w), ~(EmitRunning(w) \/ EmitResult(w)),
              ~EmitWorkerCancelled(w)
       PROVE  UNCHANGED events /\ UNCHANGED reported
    BY <1>10 DEF WorkerStep, Block, WakeSpuriously, Exit, Take, Process, Erase, CheckRequested,
                 ReadReasonStep, eventVars
<1>11. CASE UNCHANGED vars
    BY <1>5, <1>11 DEF vars
<1> QED BY <1>2, <1>3, <1>4, <1>5, <1>7, <1>8, <1>9, <1>10, <1>11 DEF Next

(* Reasons are given, read and told soundly in every state.                *)
LEMMA ReasonsAlways == Spec => [](GivenInv /\ ReadInv /\ ToldInv)
<1>1. Init => GivenInv /\ ReadInv /\ ToldInv
    BY DEF Init, GivenInv, ReadInv, ToldInv, InDrained, Seen, IdleCaller, FreshWorker
<1>2. /\ OwnerInv /\ EventsInv /\ ReasonInv /\ GivenInv /\ ReadInv /\ ToldInv /\ [Next]_vars
      => GivenInv' /\ ReadInv' /\ ToldInv'
    <2> SUFFICES ASSUME OwnerInv, EventsInv, ReasonInv, GivenInv, ReadInv, ToldInv, [Next]_vars
                 PROVE  GivenInv' /\ ReadInv' /\ ToldInv'
        OBVIOUS
    <2> TypeInv /\ BegunInv
        BY DEF OwnerInv, EventsInv
    <2>1. ReasonMove
        BY ReasonMoves
    <2>2. ToldInv'
        BY <2>1, ToldNext
    <2>3. CASE UNCHANGED vars
        BY <2>2, <2>3 DEF vars, GivenInv, ReadInv, InDrained, Fits
    <2> QED BY <2>1, <2>2, <2>3, GivenCallerStep, GivenWorkerStep, ReadCallerStep DEF Next
<1>3. Init => ReasonInv
    BY ReasonInit
<1>4. OwnerInv /\ ReasonInv /\ [Next]_vars => ReasonInv'
    BY ReasonNext DEF OwnerInv
<1> QED BY <1>1, <1>2, <1>3, <1>4, EventsAlways, PTL DEF Spec

(* A job is reported cancelled with the reason it was given, although its  *)
(* flag is set before the reason is written; only one that a cancel met    *)
(* while it ran may be reported with the default, and never one that       *)
(* shutdown stopped.                                                       *)
THEOREM ReasonReportedCorrect == Spec => []ReasonReported
<1>1. ToldInv => ReasonReported
    <2> SUFFICES ASSUME ToldInv, NEW j \in JobIds, "cancelled" \in ToSet(events[j])
                 PROVE  \/ reported[j] = reason[j]
                        \/ /\ "running" \in ToSet(events[j])
                           /\ reported[j] = DefaultReason /\ reason[j] \in ReasonsOfCancel
        BY DEF ReasonReported
    <2>1. Seen(j, "cancelled") /\ (Seen(j, "running") => "running" \in ToSet(events[j]))
        BY DEF Seen, ToSet
    <2> QED BY <2>1 DEF ToldInv, Fits
<1> QED BY <1>1, ReasonsAlways, PTL

-----------------------------------------------------------------------------
(* Shutdown and wake-ups                                                   *)

(* The shutdown that won drains what it took only after the last worker    *)
(* has gone, and does not return before both.                              *)
DoneInv ==
    /\ shutting_down => (\E c \in Callers : InShutdown(c)) \/ (AllExited /\ cancelled_jobs = <<>>)
    /\ \A c \in Callers : caller[c].pc = "emit_drained" => AllExited
    /\ \A c \in Callers : InShutdown(c) => shutting_down

(* A worker that has gone stays away.                                      *)
LEMMA ExitedStay == TypeInv /\ AllExited /\ [Next]_vars => AllExited'
<1> SUFFICES ASSUME TypeInv, AllExited, [Next]_vars PROVE AllExited'
    OBVIOUS
<1>1. ASSUME NEW c \in Callers, CallerStep(c) PROVE AllExited'
    BY <1>1, OthersCall DEF AllExited
<1>2. ASSUME NEW w \in Workers, WorkerStep(w) PROVE FALSE
    BY <1>2 DEF AllExited, WorkerStep, Block, WakeSpuriously, Exit, Take, EmitRunning, Process,
                Erase, CheckRequested, ReadReasonStep, EmitWorkerCancelled, EmitResult
<1>3. CASE UNCHANGED vars
    BY <1>3 DEF AllExited, vars
<1> QED BY <1>1, <1>2, <1>3 DEF Next

(* DoneInv is inductive.                                                   *)
LEMMA DoneNext == TypeInv /\ DoneInv /\ [Next]_vars => DoneInv'
<1> SUFFICES ASSUME TypeInv, DoneInv, [Next]_vars PROVE DoneInv'
    OBVIOUS
<1>1. AllExited => AllExited'
    BY ExitedStay
<1>2. CASE UNCHANGED <<caller, shutting_down, cancelled_jobs>>
    BY <1>1, <1>2 DEF DoneInv, InShutdown
<1>3. ASSUME NEW c \in Callers, CallerStep(c) PROVE DoneInv'
    <2>1. \A d \in Callers : d # c => caller'[d] = caller[d]
        BY <1>3, OthersCall
    <2>2. CASE Shutdown(c)
        <3>1. ~shutting_down /\ shutting_down' = TRUE /\ caller'[c].pc = "notify_all"
            BY <2>2, CallerMoves DEF Shutdown
        <3> QED BY <2>1, <3>1 DEF DoneInv, InShutdown
    <2>3. CASE NotifyAll(c) \/ Join(c) \/ (EmitDrained(c) /\ cancelled_jobs # <<>>)
        <3>1. /\ InShutdown(c) /\ InShutdown(c)' /\ UNCHANGED shutting_down
              /\ caller'[c].pc = "emit_drained" => AllExited
            BY <2>3, CallerMoves DEF NotifyAll, Join, EmitDrained, poolVars, InShutdown, DoneInv
        <3> QED BY <1>1, <2>1, <3>1 DEF DoneInv, InShutdown
    <2>4. CASE EmitDrained(c) /\ cancelled_jobs = <<>>
        <3>1. AllExited' /\ cancelled_jobs' = <<>>
            BY <1>1, <2>4 DEF EmitDrained, DoneInv
        <3>2. caller'[c].pc = "idle" /\ UNCHANGED shutting_down
            BY <2>4, CallerMoves DEF EmitDrained, poolVars
        <3> QED BY <2>1, <3>1, <3>2 DEF DoneInv, InShutdown
    <2>5. CASE \/ Enqueue(c) \/ EmitQueued(c) \/ NotifyOne(c) \/ RequestCancel(c) \/ WriteReason(c)
               \/ EmitCancelled(c) \/ \E j \in JobIds, text \in Texts : Cancel(c, j, text)
        <3>1. ~InShutdown(c) /\ UNCHANGED <<shutting_down, cancelled_jobs>>
            BY <2>5 DEF Enqueue, EmitQueued, NotifyOne, RequestCancel, WriteReason, EmitCancelled,
                        Cancel, poolVars, InShutdown
        <3>2. caller'[c].pc \notin {"notify_all", "join", "emit_drained"}
            BY <2>5, CallerMoves
        <3>3. ~InShutdown(c)'
            BY <3>2 DEF InShutdown
        <3> QED BY <1>1, <2>1, <3>1, <3>2, <3>3 DEF DoneInv, InShutdown
    <2> QED BY <1>3, <2>2, <2>3, <2>4, <2>5 DEF CallerStep
<1>4. ASSUME NEW w \in Workers, WorkerStep(w) PROVE DoneInv'
    BY <1>2, <1>4, OthersWork
<1>5. CASE UNCHANGED vars
    BY <1>2, <1>5 DEF vars
<1> QED BY <1>3, <1>4, <1>5 DEF Next

(* When the shutdown that won has returned, no worker is left, and every   *)
(* accepted job has ended, but for one that a cancel still in progress     *)
(* took off the queue.                                                     *)
THEOREM ShutdownCompleteCorrect == Spec => []ShutdownComplete
<1>1. Init => DoneInv
    BY DEF Init, DoneInv, InShutdown, IdleCaller
<1>2. OwnerInv /\ DoneInv /\ [Next]_vars => DoneInv'
    BY DoneNext DEF OwnerInv
<1>3. OwnerInv /\ DoneInv => ShutdownComplete
    <2> SUFFICES ASSUME OwnerInv, DoneInv, shutting_down, ~\E c \in Callers : InShutdown(c)
                 PROVE  /\ AllExited
                        /\ running = {}
                        /\ \A j \in JobIds :
                             j < next_id => \/ Ended(j)
                                            \/ \E c \in Callers : Withdrew(c) /\ caller[c].job = j
        BY DEF ShutdownComplete
    <2>1. AllExited /\ cancelled_jobs = <<>> /\ queue = <<>>
        BY DEF DoneInv, OwnerInv, QueueInv
    <2>2. \A j : ~InQueue(j) /\ ~InDrained(j)
        BY <2>1 DEF InQueue, InDrained
    <2>3. \A w \in Workers : ~HoldsJob(w) /\ ~InRunning(w)
        BY <2>1 DEF AllExited, HoldsJob, InRunning
    <2>4. running = {}
        BY <2>3 DEF OwnerInv, Requests
    <2>5. \A j \in JobIds : j < next_id => Ended(j) \/ \E c \in Callers : CallerHas(c, j)
        BY <2>2, <2>3 DEF OwnerInv, Kept, WorkerHas
    <2> QED BY <2>1, <2>4, <2>5 DEF CallerHas
<1> QED BY <1>1, <1>2, <1>3, EventsAlways, PTL DEF Spec

Polling == {w \in Workers : worker[w].pc = "poll"}
Notifying == {c \in Callers : caller[c].pc \in {"emit_queued", "notify_one"}}

(* NoLostWakeup, which counts only finitely many notifying threads.        *)
WakeInv == IsFiniteSet(Notifying) /\ NoLostWakeup

(* The numbers that NoLostWakeup compares.                                 *)
LEMMA WakeCounts ==
    ASSUME TypeInv, WakeInv
    PROVE  /\ Len(queue) \in Nat
           /\ IsFiniteSet(Polling) /\ Cardinality(Polling) \in Nat
           /\ IsFiniteSet(Notifying) /\ Cardinality(Notifying) \in Nat
           /\ Blocked # {} => Len(queue) <= Cardinality(Polling) + Cardinality(Notifying)
<1>1. Len(queue) \in Nat
    BY LenProperties DEF TypeInv, TypeOK
<1>2. IsFiniteSet(Polling)
    <2>1. Polling \in SUBSET Workers
        BY DEF Polling
    <2> QED BY <2>1, WorkersAssumption, FS_Subset
<1>3. Cardinality(Polling) \in Nat /\ Cardinality(Notifying) \in Nat
    BY <1>2, FS_CardinalityType DEF WakeInv
<1>4. Blocked # {} => Len(queue) <= Cardinality(Polling) + Cardinality(Notifying)
    BY DEF WakeInv, NoLostWakeup, Polling, Notifying
<1> QED BY <1>1, <1>2, <1>3, <1>4 DEF WakeInv

(* The next state's numbers suffice.                                       *)
LEMMA WakeFrom ==
    ASSUME IsFiniteSet(Notifying)',
           Blocked' # {} => Len(queue') <= Cardinality(Polling') + Cardinality(Notifying')
    PROVE  WakeInv'
BY DEF WakeInv, NoLostWakeup, Polling, Notifying

(* A caller's step loses no wake-up: what it queues it goes to notify.     *)
LEMMA WakeCallerStep ==
    ASSUME TypeInv, WakeInv, NEW c \in Callers, CallerStep(c)
    PROVE  WakeInv'
<1>1. /\ \A d \in Callers : d # c => caller'[d] = caller[d]
      /\ \A w \in Workers : \/ worker'[w] = worker[w]
                            \/ worker[w].pc = "blocked" /\ worker'[w].pc = "poll"
    BY OthersCall
<1>2. Blocked' \subseteq Blocked
    BY <1>1 DEF Blocked
<1>3. CASE Enqueue(c)
    <2>1. Polling' = Polling
        BY <1>3 DEF Enqueue, Polling
    <2>2. c \notin Notifying /\ Notifying' = Notifying \union {c}
        BY <1>1, <1>3, CallerMoves DEF Enqueue, Notifying
    <2>3. Len(queue') = Len(queue) + 1
        BY <1>3, AppendProperties, MaxJobsAssumption DEF Enqueue, TypeInv, TypeOK, JobIds
    <2>4. IsFiniteSet(Notifying') /\ Cardinality(Notifying') = Cardinality(Notifying) + 1
        BY <2>2, WakeCounts, FS_AddElement
    <2>5. Blocked' # {} => Len(queue') <= Cardinality(Polling') + Cardinality(Notifying')
        BY <1>2, <2>1, <2>3, <2>4, WakeCounts
    <2> QED BY <2>4, <2>5, WakeFrom
<1>4. CASE NotifyOne(c)
    <2>1. UNCHANGED queue /\ c \in Notifying /\ Notifying' = Notifying \ {c}
        BY <1>1, <1>4, CallerMoves DEF NotifyOne, poolVars, Notifying
    <2>2. IsFiniteSet(Notifying') /\ Cardinality(Notifying') = Cardinality(Notifying) - 1
        BY <2>1, WakeCounts, FS_RemoveElement
    <2>3. CASE Blocked = {}
        BY <1>2, <2>2, <2>3, WakeFrom
    <2>4. CASE Blocked # {}
        <3>1. PICK w \in Blocked : GoWorker(w, "poll")
            BY <1>4, <2>4 DEF NotifyOne, Notifies
        <3>2. w \notin Polling /\ Polling' = Polling \union {w}
            BY <1>1, <3>1, GoWorkerType DEF Blocked, Polling, WorkerPc, TypeInv
        <3>3. Cardinality(Polling') = Cardinality(Polling) + 1
            BY <3>2, WakeCounts, FS_AddElement
        <3>4. Len(queue') <= Cardinality(Polling') + Cardinality(Notifying')
            BY <2>1, <2>2, <2>4, <3>3, WakeCounts
        <3> QED BY <2>2, <3>4, WakeFrom
    <2> QED BY <2>3, <2>4
<1>5. CASE NotifyAll(c)
    <2>1. \A w \in Workers : worker'[w].pc # "blocked"
        BY <1>5 DEF NotifyAll, Blocked, TypeInv, TypeOK, WorkerLocals
    <2>2. Notifying' = Notifying
        BY <1>1, <1>5, CallerMoves DEF NotifyAll, Notifying
    <2>3. Blocked' = {}
        BY <2>1 DEF Blocked
    <2> QED BY <2>2, <2>3, WakeCounts, WakeFrom
<1>6. CASE ~Enqueue(c) /\ ~NotifyOne(c) /\ ~NotifyAll(c)
    <2>1. Polling' = Polling
        BY <1>6 DEF CallerStep, EmitQueued, Cancel, RequestCancel, WriteReason, EmitCancelled,
                    Shutdown, Join, EmitDrained, Polling
    <2>2. Notifying' = Notifying
        <3>1. (c \in Notifying)' <=> c \in Notifying
            <4>1. CASE EmitQueued(c)
                BY <4>1, CallerMoves DEF EmitQueued, Notifying
            <4>2. CASE \/ RequestCancel(c) \/ WriteReason(c) \/ EmitCancelled(c) \/ Shutdown(c)
                       \/ Join(c) \/ EmitDrained(c)
                       \/ \E j \in JobIds, text \in Texts : Cancel(c, j, text)
                <5>1. caller[c].pc \notin {"emit_queued", "notify_one"}
                    BY <4>2 DEF RequestCancel, WriteReason, EmitCancelled, Shutdown, Join,
                                EmitDrained, Cancel
                <5>2. caller'[c].pc \notin {"emit_queued", "notify_one"}
                    BY <4>2, CallerMoves
                <5> QED BY <5>1, <5>2 DEF Notifying
            <4> QED BY <1>6, <4>1, <4>2 DEF CallerStep
        <3> QED BY <1>1, <3>1 DEF Notifying
    <2>3. Len(queue') \in Nat /\ Len(queue') <= Len(queue)
        <3>1. queue \in Seq(JobIds) /\ Len(queue) \in Nat
            BY LenProperties DEF TypeInv, TypeOK
        <3>2. CASE \E j \in JobIds, text \in Texts : Cancel(c, j, text)
            <4>1. CASE UNCHANGED queue
                BY <3>1, <4>1
            <4>2. CASE \E i \in DOMAIN queue : queue' = RemoveAt(queue, i)
                <5>1. PICK i \in DOMAIN queue : queue' = RemoveAt(queue, i)
                    BY <4>2
                <5>2. Len(queue') = Len(queue) - 1 /\ queue' \in Seq(JobIds)
                    BY <3>1, <5>1, RemoveAtProperties
                <5>3. Len(queue') \in Nat
                    BY <5>2, LenProperties
                <5> QED BY <3>1, <5>2, <5>3
            <4> QED BY <3>2, <4>1, <4>2 DEF Cancel, QueueWithout
        <3>3. CASE Shutdown(c)
            BY <3>1, <3>3, EmptySeq DEF Shutdown
        <3>4. CASE UNCHANGED queue
            BY <3>1, <3>4
        <3> QED BY <1>6, <3>2, <3>3, <3>4 DEF CallerStep, EmitQueued, RequestCancel, WriteReason,
                        EmitCancelled, Join, EmitDrained, poolVars
    <2>4. Blocked' # {} => Len(queue') <= Cardinality(Polling') + Cardinality(Notifying')
        BY <1>2, <2>1, <2>2, <2>3, WakeCounts
    <2> QED BY <2>2, <2>4, WakeCounts, WakeFrom
<1> QED BY <1>3, <1>4, <1>5, <1>6

(* A worker only goes to sleep or exits when the queue is empty, and one   *)
(* that takes a job was on its way to the queue.                           *)
LEMMA WakeWorkerStep ==
    ASSUME TypeInv, WakeInv, NEW w \in Workers, WorkerStep(w)
    PROVE  WakeInv'
<1>1. /\ \A v \in Workers : v # w => worker'[v] = worker[v]
      /\ UNCHANGED caller
    BY OthersWork
<1>2. Notifying' = Notifying
    BY <1>1 DEF Notifying
<1>3. CASE Block(w) \/ Exit(w)
    <2>1. queue' = <<>>
        BY <1>3 DEF Block, Exit, WaitPredicate, poolVars
    <2>2. Polling' \in SUBSET Polling
        BY <1>1, <1>3, WorkerMoves DEF Polling, Block, Exit
    <2>3. Cardinality(Polling') \in Nat
        BY <2>2, WakeCounts, FS_Subset, FS_CardinalityType
    <2>4. Len(queue') <= Cardinality(Polling') + Cardinality(Notifying')
        BY <1>2, <2>1, <2>3, WakeCounts, EmptySeq
    <2> QED BY <1>2, <2>4, WakeCounts, WakeFrom
<1>4. CASE Take(w)
    <2>1. w \in Polling /\ Polling' = Polling \ {w} /\ Blocked' = Blocked
        BY <1>1, <1>4, WorkerMoves DEF Polling, Blocked, Take
    <2>2. Len(queue') = Len(queue) - 1
        BY <1>4, HeadTailProperties DEF Take, TypeInv, TypeOK
    <2>3. Cardinality(Polling') = Cardinality(Polling) - 1
        BY <2>1, WakeCounts, FS_RemoveElement
    <2>4. Blocked' # {} => Len(queue') <= Cardinality(Polling') + Cardinality(Notifying')
        BY <1>2, <2>1, <2>2, <2>3, WakeCounts
    <2> QED BY <1>2, <2>4, WakeCounts, WakeFrom
<1>5. CASE WakeSpuriously(w) \/ EmitWorkerCancelled(w) \/ EmitResult(w)
    <2>1. w \notin Polling /\ Polling' = Polling \union {w} /\ Blocked' \subseteq Blocked
        BY <1>1, <1>5, WorkerMoves
           DEF Polling, Blocked, WakeSpuriously, EmitWorkerCancelled, EmitResult
    <2>2. UNCHANGED queue
        BY <1>5 DEF WakeSpuriously, EmitWorkerCancelled, EmitResult, poolVars
    <2>3. Cardinality(Polling') = Cardinality(Polling) + 1
        BY <2>1, WakeCounts, FS_AddElement
    <2>4. Blocked' # {} => Len(queue') <= Cardinality(Polling') + Cardinality(Notifying')
        BY <1>2, <2>1, <2>2, <2>3, WakeCounts
    <2> QED BY <1>2, <2>4, WakeCounts, WakeFrom
<1>6. CASE EmitRunning(w) \/ Process(w) \/ Erase(w) \/ CheckRequested(w) \/ ReadReasonStep(w)
    <2>1. /\ worker[w].pc \notin {"poll", "blocked"} /\ worker'[w].pc \notin {"poll", "blocked"}
          /\ UNCHANGED queue
        BY <1>6, WorkerMoves DEF EmitRunning, Process, Erase, CheckRequested, ReadReasonStep,
           poolVars
    <2>2. Polling' = Polling /\ Blocked' = Blocked
        BY <1>1, <2>1 DEF Polling, Blocked
    <2> QED BY <1>2, <2>1, <2>2, WakeCounts, WakeFrom
<1> QED BY <1>3, <1>4, <1>5, <1>6 DEF WorkerStep

(* No wake-up is lost, for any number of workers and enqueuing threads,    *)
(* although notify_one comes after the callback and outside mutex_.        *)
THEOREM NoLostWakeupCorrect == Spec => []NoLostWakeup
<1>1. Init => WakeInv
    <2> SUFFICES ASSUME Init PROVE WakeInv
        OBVIOUS
    <2>1. Notifying = {} /\ Blocked = {}
        BY DEF Init, Notifying, Blocked, IdleCaller, FreshWorker
    <2> QED BY <2>1, FS_EmptySet DEF WakeInv, NoLostWakeup
<1>2. OwnerInv /\ WakeInv /\ [Next]_vars => WakeInv'
    <2> SUFFICES ASSUME TypeInv, WakeInv, [Next]_vars PROVE WakeInv'
        BY DEF OwnerInv
    <2>1. CASE UNCHANGED vars
        BY <2>1 DEF vars, WakeInv, NoLostWakeup, Notifying, Blocked
    <2> QED BY <2>1, WakeCallerStep, WakeWorkerStep DEF Next
<1>3. WakeInv => NoLostWakeup
    BY DEF WakeInv
<1> QED BY <1>1, <1>2, <1>3, EventsAlways, PTL DEF Spec

-----------------------------------------------------------------------------
(* The pool implements JobLifecycle                                        *)

Runs(j) == \E w \in Workers : WorkerHas(w, j)

(* The abstract status of a job, by where the job is.                      *)
StatusInv ==
    \A j \in JobIds :
        /\ ~(j < next_id) => StatusOf(j) = "none"
        /\ InQueue(j) => StatusOf(j) = "queued"
        /\ Runs(j) => StatusOf(j) = "running"
        /\ \A t \in Terminal : Seen(j, t) => StatusOf(j) = t
        /\ j < next_id /\ ~InQueue(j) /\ ~Runs(j) /\ ~Ended(j) => StatusOf(j) = "withdrawn"

(* A job that one thread owns is in one place, which StatusOf names.       *)
LEMMA OwnerStatus == OwnerInv => StatusInv
<1> SUFFICES ASSUME OwnerInv, NEW j \in JobIds
             PROVE  /\ ~(j < next_id) => StatusOf(j) = "none"
                    /\ InQueue(j) => StatusOf(j) = "queued"
                    /\ Runs(j) => StatusOf(j) = "running"
                    /\ \A t \in Terminal : Seen(j, t) => StatusOf(j) = t
                    /\ j < next_id /\ ~InQueue(j) /\ ~Runs(j) /\ ~Ended(j) =>
                         StatusOf(j) = "withdrawn"
    BY DEF StatusInv
<1>1. j >= next_id <=> ~(j < next_id)
    BY MaxJobsAssumption DEF OwnerInv, TypeInv, TypeOK, JobIds
<1>2. (\E w \in Workers : HoldsJob(w) /\ worker[w].job = j) <=> Runs(j)
    BY DEF Runs, WorkerHas
<1>3. /\ InQueue(j) => j < next_id /\ ~Ended(j)
      /\ Runs(j) => j < next_id /\ ~InQueue(j) /\ ~Ended(j)
      /\ Ended(j) => j < next_id
    BY DEF OwnerInv, Exclusive, Runs
<1>4. StatusOf(j) =
        CASE j >= next_id -> "none"
          [] InQueue(j) -> "queued"
          [] Runs(j) -> "running"
          [] Ended(j) -> CHOOSE status \in Terminal : status \in ToSet(events[j])
          [] OTHER -> "withdrawn"
    BY <1>2 DEF StatusOf
<1>5. ~(j < next_id) => StatusOf(j) = "none"
    BY <1>1, <1>3, <1>4
<1>6. InQueue(j) => StatusOf(j) = "queued"
    BY <1>1, <1>3, <1>4
<1>7. Runs(j) => StatusOf(j) = "running"
    BY <1>1, <1>3, <1>4
<1>8. ASSUME NEW t \in Terminal, Seen(j, t) PROVE StatusOf(j) = t
    <2>1. Ended(j) /\ t \in ToSet(events[j])
        BY <1>8 DEF Ended, Seen, ToSet
    <2>2. \A u \in Terminal : u \in ToSet(events[j]) => u = t
        BY <1>8 DEF OwnerInv, EndsOnce, Seen, ToSet
    <2>3. (CHOOSE status \in Terminal : status \in ToSet(events[j])) = t
        BY <2>1, <2>2
    <2> QED BY <1>1, <1>3, <1>4, <2>1, <2>3
<1>9. j < next_id /\ ~InQueue(j) /\ ~Runs(j) /\ ~Ended(j) => StatusOf(j) = "withdrawn"
    BY <1>1, <1>4
<1> QED BY <1>5, <1>6, <1>7, <1>8, <1>9

(* Conversely, the status tells the place.                                 *)
LEMMA StatusPlace ==
    ASSUME StatusInv, NEW j \in JobIds
    PROVE  /\ StatusOf(j) = "queued" => InQueue(j)
           /\ j < next_id => StatusOf(j) # "none"
<1>1. Ended(j) <=> \E t \in Terminal : Seen(j, t)
    BY DEF Ended, Seen
<1>2. CASE Ended(j)
    BY <1>1, <1>2 DEF StatusInv, Terminal
<1>3. CASE ~Ended(j)
    BY <1>3 DEF StatusInv
<1> QED BY <1>2, <1>3

(* A job that no step moved.                                               *)
StaysPut(j) ==
    /\ (j < next_id)' <=> j < next_id
    /\ InQueue(j)' <=> InQueue(j)
    /\ Runs(j)' <=> Runs(j)
    /\ \A t \in Terminal : Seen(j, t)' <=> Seen(j, t)

(* Such a job keeps its status.                                            *)
LEMMA StatusStays ==
    ASSUME StatusInv, StatusInv', NEW j \in JobIds, StaysPut(j)
    PROVE  StatusOf(j)' = StatusOf(j)
<1>1. /\ Ended(j) <=> \E t \in Terminal : Seen(j, t)
      /\ Ended(j)' <=> \E t \in Terminal : Seen(j, t)'
    BY DEF Ended, Seen
<1>2. CASE Ended(j)
    <2>1. PICK t \in Terminal : Seen(j, t)
        BY <1>1, <1>2
    <2>2. StatusOf(j) = t /\ StatusOf(j)' = t
        BY <2>1 DEF StatusInv, StaysPut
    <2> QED BY <2>2
<1>3. CASE ~Ended(j)
    <2>1. ~Ended(j)'
        BY <1>1, <1>3 DEF StaysPut
    <2> QED BY <1>3, <2>1 DEF StatusInv, StaysPut
<1> QED BY <1>2, <1>3

(* A step that moves job j only.                                           *)
LEMMA MoveOne ==
    ASSUME NEW j \in JobIds, NEW from, NEW to,
           StatusOf(j) = from, StatusOf(j)' = to,
           \A k \in JobIds : k # j => StatusOf(k)' = StatusOf(k),
           UNCHANGED shutting_down
    PROVE  Lifecycle!Move(j, from, to)
BY DEF Lifecycle!Move

(* A step that moves no job.                                               *)
LEMMA MoveNone ==
    ASSUME \A k \in JobIds : StatusOf(k)' = StatusOf(k), UNCHANGED shutting_down
    PROVE  UNCHANGED Lifecycle!lifecycleVars
BY DEF Lifecycle!lifecycleVars

(* enqueue accepts a job, in id order and while the pool is open.          *)
LEMMA EnqueueAccepts ==
    ASSUME OwnerInv, StatusInv, StatusInv', NEW c \in Callers, Enqueue(c)
    PROVE  Lifecycle!Next
<1>1. PICK n \in JobIds :
      /\ n = next_id /\ next_id' = n + 1 /\ ~shutting_down
      /\ queue' = Append(queue, n) /\ queue \in Seq(JobIds)
      /\ UNCHANGED <<shutting_down, worker, events>>
    BY MaxJobsAssumption DEF Enqueue, Accepts, OwnerInv, TypeInv, TypeOK, JobIds, eventVars
<1>2. \A k \in JobIds : InQueue(k)' <=> InQueue(k) \/ k = n
    <2>1. /\ DOMAIN queue = 1 .. Len(queue) /\ DOMAIN queue' = 1 .. Len(queue) + 1
          /\ Len(queue) \in Nat
          /\ \A i \in 1 .. Len(queue) : queue'[i] = queue[i]
          /\ queue'[Len(queue) + 1] = n
        BY <1>1, AppendProperties, LenProperties
    <2> QED BY <2>1 DEF InQueue
<1>3. /\ \A i \in JobIds : i < n => i < next_id
      /\ \A k \in JobIds : k # n => (k < n + 1 <=> k < n)
      /\ ~(n < n) /\ n < n + 1
    BY <1>1, MaxJobsAssumption DEF JobIds
<1>4. StatusOf(n) = "none" /\ StatusOf(n)' = "queued"
    BY <1>1, <1>2, <1>3 DEF StatusInv
<1>5. \A k \in JobIds : k # n => StatusOf(k)' = StatusOf(k)
    <2> SUFFICES ASSUME NEW k \in JobIds, k # n PROVE StaysPut(k)
        BY StatusStays
    <2> QED BY <1>1, <1>2, <1>3 DEF StaysPut, Runs, WorkerHas, HoldsJob, Seen
<1>6. Lifecycle!Move(n, "none", "queued")
    BY <1>1, <1>4, <1>5, MoveOne
<1>7. \A i \in JobIds : i < n => StatusOf(i) # "none"
    BY <1>3, StatusPlace
<1>8. Lifecycle!Accept(n)
    BY <1>1, <1>6, <1>7 DEF Lifecycle!Accept, Lifecycle!JobIds, JobIds
<1> QED BY <1>1, <1>8 DEF Lifecycle!Next, Lifecycle!JobIds, JobIds

(* A worker starts the oldest job that is queued, before shutdown.         *)
LEMMA TakeStarts ==
    ASSUME OwnerInv, StatusInv, StatusInv', NEW w \in Workers, Take(w)
    PROVE  Lifecycle!Next
<1>1. /\ queue \in Seq(JobIds) /\ queue # <<>> /\ Increasing(queue) /\ queue' = Tail(queue)
      /\ ~shutting_down /\ UNCHANGED <<shutting_down, next_id, events>>
    BY DEF Take, OwnerInv, QueueInv, TypeInv, TypeOK, eventVars
<1>2. PICK h \in JobIds :
      /\ h = Head(queue) /\ InQueue(h)
      /\ \A k \in JobIds : InQueue(k)' <=> InQueue(k) /\ k # h
    BY <1>1, TailQueue DEF InQueue
<1>3. ~HoldsJob(w) /\ HoldsJob(w)' /\ worker'[w].job = h
      /\ \A v \in Workers : v # w => worker'[v] = worker[v]
    BY <1>2 DEF Take, HoldsJob, OwnerInv, TypeInv, TypeOK
<1>4. \A i \in JobIds : InQueue(i) => ~(i < h)
    <2> SUFFICES ASSUME NEW i \in JobIds, InQueue(i) PROVE ~(i < h)
        OBVIOUS
    <2>1. PICK a \in DOMAIN queue : queue[a] = i
        BY DEF InQueue
    <2>2. /\ DOMAIN queue = 1 .. Len(queue) /\ Len(queue) \in Nat \ {0} /\ h = queue[1]
          /\ i \in Int /\ h \in Int
        BY <1>1, <1>2, HeadTailProperties, LenProperties, EmptySeq, MaxJobsAssumption DEF JobIds
    <2>3. a = 1 \/ 1 < a
        BY <2>2
    <2>4. 1 < a => h < i
        BY <1>1, <2>1, <2>2 DEF Increasing
    <2> QED BY <2>1, <2>2, <2>3, <2>4
<1>5. \A k \in JobIds : Runs(k)' <=> Runs(k) \/ k = h
    BY <1>3 DEF Runs, WorkerHas, HoldsJob
<1>6. StatusOf(h) = "queued" /\ StatusOf(h)' = "running"
    BY <1>2, <1>5 DEF StatusInv
<1>7. \A k \in JobIds : k # h => StatusOf(k)' = StatusOf(k)
    <2> SUFFICES ASSUME NEW k \in JobIds, k # h PROVE StaysPut(k)
        BY StatusStays
    <2> QED BY <1>1, <1>2, <1>5 DEF StaysPut, Seen
<1>8. Lifecycle!Move(h, "queued", "running")
    BY <1>1, <1>2, <1>6, <1>7, MoveOne
<1>9. \A i \in JobIds : i < h => StatusOf(i) # "queued"
    BY <1>4, StatusPlace
<1>10. Lifecycle!Start(h)
    BY <1>1, <1>8, <1>9 DEF Lifecycle!Start, Lifecycle!JobIds, JobIds
<1> QED BY <1>2, <1>10 DEF Lifecycle!Next, Lifecycle!JobIds, JobIds

(* A cancel that finds its job queued withdraws it; one that finds it      *)
(* running moves no job.                                                   *)
LEMMA CancelWithdraws ==
    ASSUME OwnerInv, OwnerInv', StatusInv, StatusInv',
           NEW c \in Callers, NEW j \in JobIds, NEW text \in Texts, Cancel(c, j, text)
    PROVE  Lifecycle!Next \/ UNCHANGED Lifecycle!lifecycleVars
<1>1. UNCHANGED <<shutting_down, next_id, worker, events>>
    BY DEF Cancel, eventVars
<1>2. CASE InQueue(j)
    <2>1. PICK i \in DOMAIN queue : queue[i] = j /\ queue' = RemoveAt(queue, i)
        BY <1>2 DEF Cancel, QueueWithout
    <2>2. queue \in Seq(JobIds) /\ Increasing(queue)
        BY DEF OwnerInv, QueueInv, TypeInv, TypeOK
    <2>3. \A k : (\E m \in DOMAIN RemoveAt(queue, i) : RemoveAt(queue, i)[m] = k)
                    <=> (\E m \in DOMAIN queue : queue[m] = k) /\ k # queue[i]
        BY <2>1, <2>2, EraseQueue
    <2>4. \A k \in JobIds : InQueue(k)' <=> InQueue(k) /\ k # j
        BY <2>1, <2>3 DEF InQueue
    <2>5. /\ j < next_id /\ ~Runs(j) /\ ~Ended(j)
          /\ Runs(j)' <=> Runs(j)
          /\ Ended(j)' <=> Ended(j)
        BY <1>1, <1>2 DEF OwnerInv, Exclusive, Runs, WorkerHas, HoldsJob, Ended
    <2>6. StatusOf(j) = "queued" /\ StatusOf(j)' = "withdrawn"
        BY <1>1, <1>2, <2>4, <2>5 DEF StatusInv
    <2>7. \A k \in JobIds : k # j => StatusOf(k)' = StatusOf(k)
        <3> SUFFICES ASSUME NEW k \in JobIds, k # j PROVE StaysPut(k)
            BY StatusStays
        <3> QED BY <1>1, <2>4 DEF StaysPut, Runs, WorkerHas, HoldsJob, Seen
    <2>8. Lifecycle!Withdraw(j)
        BY <1>1, <2>6, <2>7, MoveOne DEF Lifecycle!Withdraw
    <2> QED BY <2>8 DEF Lifecycle!Next, Lifecycle!JobIds, JobIds
<1>3. CASE ~InQueue(j)
    <2>1. UNCHANGED queue
        BY <1>3 DEF Cancel, InQueue
    <2>2. \A k \in JobIds : StaysPut(k)
        BY <1>1, <2>1 DEF StaysPut, InQueue, Runs, WorkerHas, HoldsJob, Seen
    <2> QED BY <1>1, <2>2, StatusStays, MoveNone
<1> QED BY <1>2, <1>3

(* Whoever took a job off the queue, or ran it, ends it.                   *)
LEMMA EmitMoves ==
    ASSUME OwnerInv, StatusInv, StatusInv', NEW j \in JobIds, NEW t \in Terminal, Emit(j, t),
           UNCHANGED <<queue, next_id, shutting_down>>, ~Ended(j),
           \A k \in JobIds : k # j => (Runs(k)' <=> Runs(k))
    PROVE  Lifecycle!Move(j, StatusOf(j), t)
<1>1. \A k \in JobIds, s \in Terminal : Seen(k, s)' <=> Seen(k, s) \/ (k = j /\ s = t)
    BY EmitSeen DEF OwnerInv, TypeInv, Statuses
<1>2. StatusOf(j)' = t
    BY <1>1 DEF StatusInv
<1>3. \A k \in JobIds : k # j => StatusOf(k)' = StatusOf(k)
    <2> SUFFICES ASSUME NEW k \in JobIds, k # j PROVE StaysPut(k)
        BY StatusStays
    <2> QED BY <1>1 DEF StaysPut, InQueue
<1> QED BY <1>2, <1>3, MoveOne

(* The event of a cancel or of shutdown ends a job that was withdrawn.     *)
LEMMA CallerEnds ==
    ASSUME OwnerInv, StatusInv, StatusInv', NEW c \in Callers,
           EmitCancelled(c) \/ (EmitDrained(c) /\ cancelled_jobs # <<>>)
    PROVE  Lifecycle!Next
<1>1. PICK j \in JobIds : /\ CallerHas(c, j) \/ InDrained(j)
                          /\ Emit(j, "cancelled")
    <2>1. CASE EmitCancelled(c)
        <3>1. caller[c].job \in JobIds /\ CallerHas(c, caller[c].job)
            BY <2>1 DEF EmitCancelled, OwnerInv, TypeInv, LocalsOK, HasTarget, Requests, CallerHas
        <3> QED BY <2>1, <3>1 DEF EmitCancelled, EmitReason
    <2>2. CASE EmitDrained(c) /\ cancelled_jobs # <<>>
        <3>1. Head(cancelled_jobs) \in JobIds /\ InDrained(Head(cancelled_jobs))
            BY <2>2, TailQueue DEF OwnerInv, QueueInv, TypeInv, TypeOK, InDrained
        <3> QED BY <2>2, <3>1 DEF EmitDrained, EmitReason
    <2> QED BY <2>1, <2>2
<1>2. UNCHANGED <<queue, next_id, shutting_down, worker>>
    BY DEF EmitCancelled, EmitDrained, poolVars
<1>3. j < next_id /\ ~InQueue(j) /\ ~Runs(j) /\ ~Ended(j)
    BY <1>1 DEF OwnerInv, Exclusive, Runs
<1>4. StatusOf(j) = "withdrawn"
    BY <1>3 DEF StatusInv
<1>5. \A k \in JobIds : Runs(k)' <=> Runs(k)
    BY <1>2 DEF Runs, WorkerHas, HoldsJob
<1>6. Lifecycle!Move(j, "withdrawn", "cancelled")
    BY <1>1, <1>2, <1>3, <1>4, <1>5, EmitMoves DEF Terminal
<1> QED BY <1>6 DEF Lifecycle!CancelWithdrawn, Lifecycle!Next, Lifecycle!JobIds, JobIds

(* A worker's last event ends the job it ran.                              *)
LEMMA WorkerEnds ==
    ASSUME OwnerInv, StatusInv, StatusInv', NEW w \in Workers,
           EmitWorkerCancelled(w) \/ EmitResult(w)
    PROVE  Lifecycle!Next
<1>1. PICK j \in JobIds, t \in Terminal : j = worker[w].job /\ Emit(j, t)
    BY DEF OwnerInv, TypeInv, LocalsOK, HoldsJob, EmitWorkerCancelled, EmitReason, EmitResult,
       Terminal
<1>2. /\ UNCHANGED <<queue, next_id, shutting_down>> /\ WorkerHas(w, j)
      /\ ~HoldsJob(w)' /\ \A v \in Workers : v # w => worker'[v] = worker[v]
    BY <1>1 DEF EmitWorkerCancelled, EmitResult, poolVars, FreshWorker, WorkerHas, HoldsJob,
                OwnerInv, TypeInv, TypeOK
<1>3. \A k \in JobIds : WorkerHas(w, k) => k = j
    BY <1>1 DEF WorkerHas
<1>4. \A k \in JobIds : k # j => (Runs(k)' <=> Runs(k))
    BY <1>2, <1>3 DEF Runs, WorkerHas, HoldsJob
<1>5. ~Ended(j) /\ StatusOf(j) = "running"
    BY <1>2 DEF OwnerInv, Exclusive, StatusInv, Runs
<1>6. Lifecycle!Move(j, "running", t)
    BY <1>1, <1>2, <1>4, <1>5, EmitMoves
<1> QED BY <1>2, <1>6 DEF Lifecycle!End, Lifecycle!Ended, Terminal, Lifecycle!Next,
                          Lifecycle!JobIds, JobIds

(* The critical section of shutdown closes the pool and withdraws every    *)
(* queued job.                                                             *)
LEMMA ShutdownCloses ==
    ASSUME OwnerInv, StatusInv, StatusInv', NEW c \in Callers, Shutdown(c)
    PROVE  Lifecycle!Next
<1>1. /\ ~shutting_down /\ shutting_down' = TRUE /\ queue' = <<>>
      /\ UNCHANGED <<next_id, worker, events>>
    BY DEF Shutdown, eventVars
<1>2. \A k \in JobIds : /\ ~InQueue(k)'
                        /\ Runs(k)' <=> Runs(k)
                        /\ Ended(k)' <=> Ended(k)
                        /\ \A t \in Terminal : Seen(k, t)' <=> Seen(k, t)
    BY <1>1 DEF InQueue, Runs, WorkerHas, HoldsJob, Ended, Seen
<1>3. ASSUME NEW k \in JobIds
      PROVE  StatusOf(k)' = IF StatusOf(k) = "queued" THEN "withdrawn" ELSE StatusOf(k)
    <2>1. CASE InQueue(k)
        <3>1. k < next_id /\ ~Runs(k) /\ ~Ended(k) /\ StatusOf(k) = "queued"
            BY <2>1 DEF OwnerInv, Exclusive, Runs, StatusInv
        <3>2. StatusOf(k)' = "withdrawn"
            BY <1>1, <1>2, <3>1 DEF StatusInv
        <3> QED BY <3>1, <3>2
    <2>2. CASE ~InQueue(k)
        <3>1. StatusOf(k) # "queued"
            BY <2>2, StatusPlace
        <3>2. StaysPut(k)
            BY <1>1, <1>2, <2>2 DEF StaysPut
        <3> QED BY <3>1, <3>2, StatusStays
    <2> QED BY <2>1, <2>2
<1>4. Lifecycle!Close
    BY <1>1, <1>3 DEF Lifecycle!Close, Lifecycle!JobIds, JobIds
<1> QED BY <1>4 DEF Lifecycle!Next

(* Every step of the pool is a step of JobLifecycle or moves no job.       *)
LEMMA LifecycleStep ==
    OwnerInv /\ OwnerInv' /\ StatusInv /\ StatusInv' /\ [Next]_vars
    => [Lifecycle!Next]_(Lifecycle!lifecycleVars)
<1> SUFFICES ASSUME OwnerInv, OwnerInv', StatusInv, StatusInv', [Next]_vars
             PROVE  Lifecycle!Next \/ UNCHANGED Lifecycle!lifecycleVars
    OBVIOUS
<1> TypeInv
    BY DEF OwnerInv
<1>1. ASSUME UNCHANGED <<queue, next_id, shutting_down>>,
             \A k \in JobIds : /\ Runs(k)' <=> Runs(k)
                               /\ \A t \in Terminal : Seen(k, t)' <=> Seen(k, t)
      PROVE  UNCHANGED Lifecycle!lifecycleVars
    <2>1. \A k \in JobIds : StaysPut(k)
        BY <1>1 DEF StaysPut, InQueue
    <2> QED BY <1>1, <2>1, StatusStays, MoveNone
<1>2. ASSUME NEW j \in JobIds, NEW status \in {"queued", "running"}, Emit(j, status)
      PROVE  \A k \in JobIds, t \in Terminal : Seen(k, t)' <=> Seen(k, t)
    <2>1. status \in Statuses \ Terminal /\ Terminal \subseteq Statuses
        BY DEF Statuses, Terminal
    <2> QED BY <1>2, <2>1, EmitSeen DEF TypeInv
<1>3. ASSUME NEW c \in Callers, CallerStep(c)
      PROVE  Lifecycle!Next \/ UNCHANGED Lifecycle!lifecycleVars
    <2>1. CASE \/ EmitQueued(c) \/ NotifyOne(c) \/ RequestCancel(c) \/ WriteReason(c)
               \/ NotifyAll(c) \/ Join(c) \/ (EmitDrained(c) /\ cancelled_jobs = <<>>)
        <3>1. UNCHANGED <<queue, next_id, shutting_down>>
            BY <2>1 DEF EmitQueued, NotifyOne, RequestCancel, WriteReason, NotifyAll, Join,
                        EmitDrained, poolVars
        <3>2. \A k \in JobIds : Runs(k)' <=> Runs(k)
            BY <1>3, OthersCall DEF Runs, WorkerHas, HoldsJob
        <3>3. \A k \in JobIds, t \in Terminal : Seen(k, t)' <=> Seen(k, t)
            <4>1. CASE EmitQueued(c)
                BY <1>2, <4>1 DEF EmitQueued, TypeInv, LocalsOK, HasTarget
            <4>2. CASE UNCHANGED events
                BY <4>2 DEF Seen
            <4> QED BY <2>1, <4>1, <4>2 DEF NotifyOne, RequestCancel, WriteReason, NotifyAll,
                       Join,
                        EmitDrained, eventVars
        <3> QED BY <1>1, <3>1, <3>2, <3>3
    <2> QED BY <1>3, <2>1, EnqueueAccepts, CancelWithdraws, CallerEnds, ShutdownCloses
            DEF CallerStep
<1>4. ASSUME NEW w \in Workers, WorkerStep(w)
      PROVE  Lifecycle!Next \/ UNCHANGED Lifecycle!lifecycleVars
    <2>1. CASE \/ Block(w) \/ WakeSpuriously(w) \/ Exit(w) \/ EmitRunning(w) \/ Process(w)
               \/ Erase(w) \/ CheckRequested(w) \/ ReadReasonStep(w)
        <3>1. UNCHANGED <<queue, next_id, shutting_down>>
            BY <2>1 DEF Block, WakeSpuriously, Exit, EmitRunning, Process, Erase, CheckRequested,
                        ReadReasonStep, poolVars
        <3>2. /\ HoldsJob(w)' <=> HoldsJob(w)
              /\ HoldsJob(w) => worker'[w].job = worker[w].job
            <4>1. CASE Block(w) \/ WakeSpuriously(w) \/ Exit(w)
                BY <4>1, WorkerMoves DEF Block, WakeSpuriously, Exit, HoldsJob
            <4>2. CASE EmitRunning(w) \/ Erase(w) \/ CheckRequested(w)
                BY <4>2, GoWorkerType DEF EmitRunning, Erase, CheckRequested, HoldsJob, TypeInv,
                                          WorkerPc
            <4>3. CASE Process(w)
                BY <4>3 DEF Process, HoldsJob, TypeInv, TypeOK, WorkerLocals
            <4>4. CASE ReadReasonStep(w)
                BY <4>4 DEF ReadReasonStep, HoldsJob, TypeInv, TypeOK, WorkerLocals
            <4> QED BY <2>1, <4>1, <4>2, <4>3, <4>4
        <3>3. \A k \in JobIds : Runs(k)' <=> Runs(k)
            <4>1. \A v \in Workers : v # w => worker'[v] = worker[v]
                BY <1>4, OthersWork
            <4>2. \A v \in Workers, k \in JobIds : WorkerHas(v, k)' <=> WorkerHas(v, k)
                BY <3>2, <4>1 DEF WorkerHas, HoldsJob
            <4> QED BY <4>2 DEF Runs
        <3>4. \A k \in JobIds, t \in Terminal : Seen(k, t)' <=> Seen(k, t)
            <4>1. CASE EmitRunning(w)
                BY <1>2, <4>1 DEF EmitRunning, TypeInv, LocalsOK, HoldsJob
            <4>2. CASE UNCHANGED events
                BY <4>2 DEF Seen
            <4> QED BY <2>1, <4>1, <4>2 DEF Block, WakeSpuriously, Exit, Process, Erase,
                        CheckRequested, ReadReasonStep, eventVars
        <3> QED BY <1>1, <3>1, <3>3, <3>4
    <2> QED BY <1>4, <2>1, TakeStarts, WorkerEnds DEF WorkerStep
<1>5. CASE UNCHANGED vars
    BY <1>1, <1>5 DEF vars, Runs, WorkerHas, HoldsJob, Seen
<1> QED BY <1>3, <1>4, <1>5 DEF Next

(* No job has a status at the start, and the pool is open.                 *)
LEMMA LifecycleInit == Init => Lifecycle!Init
<1> SUFFICES ASSUME Init PROVE Lifecycle!Init
    OBVIOUS
<1>1. \A j \in JobIds : ~(j < next_id)
    BY MaxJobsAssumption DEF Init, JobIds
<1>2. \A j \in JobIds : StatusOf(j) = "none"
    BY <1>1, OwnerInit, OwnerStatus DEF StatusInv
<1>3. ~shutting_down
    BY DEF Init
<1> QED BY <1>2, <1>3 DEF Lifecycle!Init, Lifecycle!JobIds, JobIds

(* The pool, with its threads, lock, queue and flags, implements the       *)
(* promise of JobLifecycle for any number of them: jobs are accepted and   *)
(* start in id order and only before shutdown, one that was taken off the  *)
(* queue never starts, and each ends once.                                 *)
THEOREM LifecycleImplemented == Spec => ImplementsLifecycle
<1>1. Init => Lifecycle!Init
    BY LifecycleInit
<1>2. OwnerInv => StatusInv
    BY OwnerStatus
<1>3. OwnerInv /\ OwnerInv' /\ StatusInv /\ StatusInv' /\ [Next]_vars
      => [Lifecycle!Next]_(Lifecycle!lifecycleVars)
    BY LifecycleStep
<1> QED BY <1>1, <1>2, <1>3, EventsAlways, PTL DEF Spec, ImplementsLifecycle, Lifecycle!Spec

=============================================================================
