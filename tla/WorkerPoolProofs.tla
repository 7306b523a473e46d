-------------------------- MODULE WorkerPoolProofs --------------------------
(* Proofs about WorkerPool for any workers, callers and number of jobs:    *)
(* its types, who owns a job, and what cancel and shutdown do to its reason*)
(* and its stop flag.                                                      *)
EXTENDS WorkerPool, SequenceTheorems, TLAPS

-----------------------------------------------------------------------------
(* Type correctness                                                        *)

HasTarget(c) ==
    caller[c].pc \in {"emit_queued", "notify_one", "request", "write_reason", "emit_cancelled"}

(* A thread's local id is a job whenever the code uses it.                 *)
LocalsOK ==
    /\ \A w \in Workers : HoldsJob(w) => worker[w].job \in JobIds
    /\ \A c \in Callers : HasTarget(c) => caller[c].job \in JobIds

TypeInv == TypeOK /\ LocalsOK

(* RemoveAt, which cancel uses on queue_, keeps the type and the elements  *)
(* other than the one removed, in order.                                   *)
LEMMA RemoveAtProperties ==
    ASSUME NEW S, NEW s \in Seq(S), NEW i \in DOMAIN s
    PROVE  /\ RemoveAt(s, i) \in Seq(S)
           /\ Len(RemoveAt(s, i)) = Len(s) - 1
           /\ \A k \in 1 .. Len(s) - 1 :
                RemoveAt(s, i)[k] = IF k < i THEN s[k] ELSE s[k + 1]
<1> DEFINE front == SubSeq(s, 1, i-1)
           back == SubSeq(s, i+1, Len(s))
<1>0. Len(s) \in Nat /\ i \in 1 .. Len(s)
    OBVIOUS
<1>1. /\ front \in Seq(S)
      /\ Len(front) = i - 1
      /\ \A k \in 1 .. i-1 : front[k] = s[k]
    BY <1>0
<1>2. /\ back \in Seq(S)
      /\ Len(back) = Len(s) - i
      /\ \A k \in 1 .. Len(s) - i : back[k] = s[i + k]
    BY <1>0
<1>3. RemoveAt(s, i) = front \o back
    BY DEF RemoveAt
<1> HIDE DEF front, back
<1>4. /\ front \o back \in Seq(S)
      /\ Len(front \o back) = Len(front) + Len(back)
      /\ \A k \in 1 .. Len(front) + Len(back) :
           (front \o back)[k] = IF k <= Len(front) THEN front[k] ELSE back[k - Len(front)]
    BY <1>1, <1>2, ConcatProperties
<1>5. ASSUME NEW k \in 1 .. Len(s) - 1
      PROVE (front \o back)[k] = IF k < i THEN s[k] ELSE s[k + 1]
    <2>1. k \in 1 .. Len(front) + Len(back)
        BY <1>0, <1>1, <1>2
    <2>2. CASE k < i
        BY <1>0, <1>1, <1>4, <2>1, <2>2
    <2>3. CASE ~(k < i)
        <3>1. (front \o back)[k] = back[k - Len(front)]
            BY <1>0, <1>1, <1>4, <2>1, <2>3
        <3>2. k - Len(front) \in 1 .. Len(s) - i /\ i + (k - Len(front)) = k + 1
            BY <1>0, <1>1, <2>3
        <3> QED BY <1>2, <2>3, <3>1, <3>2
    <2> QED BY <2>2, <2>3
<1>6. Len(front \o back) = Len(s) - 1
    BY <1>0, <1>1, <1>2, <1>4
<1> QED BY <1>3, <1>4, <1>5, <1>6

(* TypeInv holds at the start.                                             *)
LEMMA TypeInit == Init => TypeInv
<1> SUFFICES ASSUME Init PROVE TypeInv
    OBVIOUS
<1> USE DEF Init
<1>1. /\ queue \in Seq(JobIds)
      /\ cancelled_jobs \in Seq(JobIds)
      /\ running \in SUBSET JobIds
      /\ shutting_down \in BOOLEAN
    BY EmptySeq
<1>2. next_id \in 0 .. MaxJobs
    BY MaxJobsAssumption
<1>3. /\ requested \in [JobIds -> BOOLEAN]
      /\ reason \in [JobIds -> AllReasons]
      /\ reported \in [JobIds -> AllReasons]
    BY DEF AllReasons
<1>4. events \in [JobIds -> Seq(Statuses)]
    BY EmptySeq
<1>5. worker \in [Workers -> WorkerLocals]
    BY DEF FreshWorker, WorkerLocals, WorkerPc, AllReasons
<1>6. caller \in [Callers -> CallerLocals]
    BY DEF IdleCaller, CallerLocals, CallerPc, AllReasons
<1>7. LocalsOK
    BY DEF LocalsOK, HoldsJob, HasTarget, FreshWorker, IdleCaller
<1> QED BY <1>1, <1>2, <1>3, <1>4, <1>5, <1>6, <1>7 DEF TypeInv, TypeOK

(* One more event for job j, and no change for the others.                 *)
LEMMA EmitType ==
    ASSUME TypeOK, NEW j \in JobIds, NEW status \in Statuses, Emit(j, status)
    PROVE  /\ events' \in [JobIds -> Seq(Statuses)]
           /\ events'[j] = Append(events[j], status)
           /\ \A k \in JobIds : k # j => events'[k] = events[k]
<1>1. events[j] \in Seq(Statuses)
    BY DEF TypeOK
<1>2. Append(events[j], status) \in Seq(Statuses)
    BY <1>1, AppendProperties
<1> QED BY <1>2 DEF TypeOK, Emit

(* A cancelled job's event and its reported reason are well typed.         *)
LEMMA EmitReasonType ==
    ASSUME TypeOK, NEW j \in JobIds, NEW text \in AllReasons, EmitReason(j, text)
    PROVE  /\ events' \in [JobIds -> Seq(Statuses)]
           /\ reported' \in [JobIds -> AllReasons]
<1>1. "cancelled" \in Statuses
    BY DEF Statuses, Terminal
<1> QED BY <1>1, EmitType DEF TypeOK, EmitReason

(* What is read of a reason is a reason.                                   *)
LEMMA ReadReasonType ==
    ASSUME TypeOK, NEW j \in JobIds PROVE ReadReason(j) \in AllReasons
BY DEF TypeOK, ReadReason, AllReasons

(* What a move of a thread does to its locals and to other threads'.       *)
LEMMA GoWorkerType ==
    ASSUME TypeOK, NEW w \in Workers, NEW pc \in WorkerPc, GoWorker(w, pc)
    PROVE  /\ worker' \in [Workers -> WorkerLocals]
           /\ worker'[w].pc = pc /\ worker'[w].job = worker[w].job
           /\ \A v \in Workers : v # w => worker'[v] = worker[v]
BY DEF TypeOK, GoWorker, WorkerLocals

(* A caller that moves keeps its job.                                      *)
LEMMA GoCallerType ==
    ASSUME TypeOK, NEW c \in Callers, NEW pc \in CallerPc, GoCaller(c, pc)
    PROVE  /\ caller' \in [Callers -> CallerLocals]
           /\ caller'[c].pc = pc /\ caller'[c].job = caller[c].job
           /\ caller'[c].withdrew = caller[c].withdrew
           /\ \A d \in Callers : d # c => caller'[d] = caller[d]
BY DEF TypeOK, GoCaller, CallerLocals

(* A caller that returns is idle again.                                    *)
LEMMA ReturnType ==
    ASSUME TypeOK, NEW c \in Callers, Return(c)
    PROVE  /\ caller' \in [Callers -> CallerLocals]
           /\ caller'[c].pc = "idle" /\ ~caller'[c].withdrew
           /\ \A d \in Callers : d # c => caller'[d] = caller[d]
<1>1. IdleCaller \in CallerLocals /\ IdleCaller.pc = "idle" /\ ~IdleCaller.withdrew
    BY DEF IdleCaller, CallerLocals, CallerPc, AllReasons
<1> QED BY <1>1 DEF TypeOK, Return

(* TypeInv is inductive.                                                   *)
LEMMA TypeNext == TypeInv /\ [Next]_vars => TypeInv'
<1> SUFFICES ASSUME TypeOK, LocalsOK, [Next]_vars PROVE TypeOK' /\ LocalsOK'
    BY DEF TypeInv
<1>1. ASSUME NEW c \in Callers, Enqueue(c) PROVE TypeOK' /\ LocalsOK'
    <2> USE <1>1
    <2>1. next_id \in JobIds /\ next_id' \in 0 .. MaxJobs
        BY MaxJobsAssumption DEF TypeOK, Enqueue, JobIds
    <2>2. queue' \in Seq(JobIds)
        BY <2>1, AppendProperties DEF TypeOK, Enqueue
    <2>3. caller' \in [Callers -> CallerLocals]
        BY <2>1 DEF TypeOK, Enqueue, Call, CallerLocals, CallerPc, AllReasons
    <2>4. LocalsOK'
        BY <2>1 DEF TypeOK, LocalsOK, HoldsJob, HasTarget, Enqueue, Call
    <2> QED BY <2>1, <2>2, <2>3, <2>4 DEF TypeOK, Enqueue, jobVars, eventVars
<1>2. ASSUME NEW c \in Callers, EmitQueued(c) PROVE TypeOK' /\ LocalsOK'
    <2> USE <1>2
    <2>1. caller[c].job \in JobIds
        BY DEF LocalsOK, HasTarget, EmitQueued
    <2>2. events' \in [JobIds -> Seq(Statuses)]
        BY <2>1, EmitType DEF EmitQueued, Statuses
    <2>3. caller' \in [Callers -> CallerLocals]
        BY DEF TypeOK, EmitQueued, GoCaller, CallerLocals, CallerPc
    <2>4. LocalsOK'
        BY DEF TypeOK, LocalsOK, HoldsJob, HasTarget, EmitQueued, GoCaller
    <2> QED BY <2>1, <2>2, <2>3, <2>4 DEF TypeOK, EmitQueued, poolVars, jobVars
<1>3. ASSUME NEW c \in Callers, NotifyOne(c) PROVE TypeOK' /\ LocalsOK'
    <2> USE <1>3
    <2>1. worker' \in [Workers -> WorkerLocals]
        <3>1. CASE Notifies
            BY <3>1, GoWorkerType DEF NotifyOne, Blocked, WorkerPc
        <3>2. CASE ~Notifies
            BY <3>2 DEF NotifyOne, TypeOK
        <3> QED BY <3>1, <3>2
    <2>2. caller' \in [Callers -> CallerLocals]
        BY DEF TypeOK, NotifyOne, Return, IdleCaller, CallerLocals, CallerPc, AllReasons
    <2>3. LocalsOK'
        <3>1. \A v \in Workers : HoldsJob(v)' => HoldsJob(v) /\ worker'[v].job = worker[v].job
            <4>1. CASE Notifies
                <5>1. PICK w \in Blocked : GoWorker(w, "poll")
                    BY <4>1 DEF NotifyOne
                <5> QED BY <5>1, GoWorkerType DEF Blocked, WorkerPc, HoldsJob
            <4>2. CASE ~Notifies
                BY <4>2 DEF NotifyOne, HoldsJob
            <4> QED BY <4>1, <4>2
        <3> QED BY <3>1, ReturnType DEF NotifyOne, LocalsOK, HasTarget
    <2> QED BY <2>1, <2>2, <2>3 DEF TypeOK, NotifyOne, poolVars, jobVars, eventVars
<1>4. ASSUME NEW c \in Callers, RequestCancel(c) PROVE TypeOK' /\ LocalsOK'
    <2> USE <1>4
    <2>1. requested' \in [JobIds -> BOOLEAN]
        BY DEF TypeOK, RequestCancel
    <2>2. caller' \in [Callers -> CallerLocals]
        BY GoCallerType, ReturnType DEF RequestCancel, CallerPc
    <2>3. LocalsOK'
        BY GoCallerType, ReturnType DEF RequestCancel, CallerPc, LocalsOK, HoldsJob, HasTarget
    <2> QED BY <2>1, <2>2, <2>3 DEF TypeOK, RequestCancel, poolVars, eventVars
<1>5. ASSUME NEW c \in Callers, WriteReason(c) PROVE TypeOK' /\ LocalsOK'
    <2> USE <1>5
    <2>1. GivenReason(caller[c].reason) \in AllReasons
        BY DEF TypeOK, GivenReason, CallerLocals, AllReasons
    <2>2. reason' \in [JobIds -> AllReasons]
        BY <2>1 DEF TypeOK, WriteReason
    <2>3. caller' \in [Callers -> CallerLocals]
        BY GoCallerType, ReturnType DEF WriteReason, CallerPc
    <2>4. LocalsOK'
        BY GoCallerType, ReturnType DEF WriteReason, CallerPc, LocalsOK, HoldsJob, HasTarget
    <2> QED BY <2>1, <2>2, <2>3, <2>4 DEF TypeOK, WriteReason, poolVars, eventVars
<1>6. ASSUME NEW c \in Callers, EmitCancelled(c) PROVE TypeOK' /\ LocalsOK'
    <2> USE <1>6
    <2>1. caller[c].job \in JobIds
        BY DEF LocalsOK, HasTarget, EmitCancelled
    <2>2. /\ events' \in [JobIds -> Seq(Statuses)]
          /\ reported' \in [JobIds -> AllReasons]
        BY <2>1, ReadReasonType, EmitReasonType DEF EmitCancelled
    <2>3. caller' \in [Callers -> CallerLocals]
        BY DEF TypeOK, EmitCancelled, Return, IdleCaller, CallerLocals, CallerPc, AllReasons
    <2>4. LocalsOK'
        BY DEF TypeOK, LocalsOK, HoldsJob, HasTarget, EmitCancelled, Return, IdleCaller
    <2> QED BY <2>1, <2>2, <2>3, <2>4 DEF TypeOK, EmitCancelled, poolVars, jobVars
<1>7. ASSUME NEW c \in Callers, Shutdown(c) PROVE TypeOK' /\ LocalsOK'
    <2> USE <1>7
    <2>1. /\ requested' \in [JobIds -> BOOLEAN]
          /\ reason' \in [JobIds -> AllReasons]
        BY DEF TypeOK, Shutdown, Stopped, AllReasons
    <2>2. queue' \in Seq(JobIds) /\ cancelled_jobs' \in Seq(JobIds)
        BY EmptySeq DEF TypeOK, Shutdown
    <2>3. caller' \in [Callers -> CallerLocals]
        BY DEF TypeOK, Shutdown, GoCaller, CallerLocals, CallerPc
    <2>4. LocalsOK'
        BY DEF TypeOK, LocalsOK, HoldsJob, HasTarget, Shutdown, GoCaller
    <2> QED BY <2>1, <2>2, <2>3, <2>4 DEF TypeOK, Shutdown, eventVars
<1>8. ASSUME NEW c \in Callers, NotifyAll(c) PROVE TypeOK' /\ LocalsOK'
    <2> USE <1>8
    <2>1. worker' \in [Workers -> WorkerLocals]
        BY DEF TypeOK, NotifyAll, WorkerLocals, WorkerPc
    <2>2. caller' \in [Callers -> CallerLocals]
        BY DEF TypeOK, NotifyAll, GoCaller, CallerLocals, CallerPc
    <2>3. LocalsOK'
        BY DEF TypeOK, LocalsOK, HoldsJob, HasTarget, NotifyAll, GoCaller, WorkerLocals
    <2> QED BY <2>1, <2>2, <2>3 DEF TypeOK, NotifyAll, poolVars, jobVars, eventVars
<1>9. ASSUME NEW c \in Callers, Join(c) PROVE TypeOK' /\ LocalsOK'
    <2> USE <1>9
    <2>1. caller' \in [Callers -> CallerLocals]
        BY DEF TypeOK, Join, GoCaller, CallerLocals, CallerPc
    <2>2. LocalsOK'
        BY DEF TypeOK, LocalsOK, HoldsJob, HasTarget, Join, GoCaller
    <2> QED BY <2>1, <2>2 DEF TypeOK, Join, poolVars, jobVars, eventVars
<1>10. ASSUME NEW w \in Workers, Block(w) PROVE TypeOK' /\ LocalsOK'
    <2> USE <1>10
    <2>1. worker' \in [Workers -> WorkerLocals]
        BY DEF TypeOK, Block, GoWorker, WorkerLocals, WorkerPc
    <2>2. LocalsOK'
        BY DEF TypeOK, LocalsOK, HoldsJob, HasTarget, Block, GoWorker
    <2> QED BY <2>1, <2>2 DEF TypeOK, Block, poolVars, jobVars, eventVars
<1>11. ASSUME NEW w \in Workers, WakeSpuriously(w) PROVE TypeOK' /\ LocalsOK'
    <2> USE <1>11
    <2>1. worker' \in [Workers -> WorkerLocals]
        BY DEF TypeOK, WakeSpuriously, GoWorker, WorkerLocals, WorkerPc
    <2>2. LocalsOK'
        BY DEF TypeOK, LocalsOK, HoldsJob, HasTarget, WakeSpuriously, GoWorker
    <2> QED BY <2>1, <2>2 DEF TypeOK, WakeSpuriously, poolVars, jobVars, eventVars
<1>12. ASSUME NEW w \in Workers, Exit(w) PROVE TypeOK' /\ LocalsOK'
    <2> USE <1>12
    <2>1. worker' \in [Workers -> WorkerLocals]
        BY DEF TypeOK, Exit, GoWorker, WorkerLocals, WorkerPc
    <2>2. LocalsOK'
        BY DEF TypeOK, LocalsOK, HoldsJob, HasTarget, Exit, GoWorker
    <2> QED BY <2>1, <2>2 DEF TypeOK, Exit, poolVars, jobVars, eventVars
<1>13. ASSUME NEW w \in Workers, Take(w) PROVE TypeOK' /\ LocalsOK'
    <2> USE <1>13
    <2>1. Head(queue) \in JobIds /\ Tail(queue) \in Seq(JobIds)
        BY HeadTailProperties DEF TypeOK, Take
    <2>2. worker' \in [Workers -> WorkerLocals]
        BY <2>1 DEF TypeOK, Take, WorkerLocals, WorkerPc, AllReasons
    <2>3. running' \in SUBSET JobIds
        BY <2>1 DEF TypeOK, Take, TakenId
    <2>4. LocalsOK'
        BY <2>1 DEF TypeOK, LocalsOK, HoldsJob, HasTarget, Take
    <2> QED BY <2>1, <2>2, <2>3, <2>4 DEF TypeOK, Take, jobVars, eventVars
<1>14. ASSUME NEW w \in Workers, EmitRunning(w) PROVE TypeOK' /\ LocalsOK'
    <2> USE <1>14
    <2>1. worker[w].job \in JobIds
        BY DEF LocalsOK, HoldsJob, EmitRunning
    <2>2. events' \in [JobIds -> Seq(Statuses)]
        BY <2>1, EmitType DEF EmitRunning, Statuses
    <2>3. worker' \in [Workers -> WorkerLocals]
        BY DEF TypeOK, EmitRunning, GoWorker, WorkerLocals, WorkerPc
    <2>4. LocalsOK'
        BY DEF TypeOK, LocalsOK, HoldsJob, HasTarget, EmitRunning, GoWorker
    <2> QED BY <2>1, <2>2, <2>3, <2>4 DEF TypeOK, EmitRunning, poolVars, jobVars
<1>15. ASSUME NEW w \in Workers, Process(w) PROVE TypeOK' /\ LocalsOK'
    <2> USE <1>15
    <2>1. PICK threw \in BOOLEAN :
             worker' = [worker EXCEPT ![w] = [@ EXCEPT !.pc = "erase", !.threw = threw]]
        BY DEF Process
    <2>2. [worker[w] EXCEPT !.pc = "erase", !.threw = threw] \in WorkerLocals
        BY DEF TypeOK, WorkerLocals, WorkerPc
    <2>3. worker' \in [Workers -> WorkerLocals]
        BY <2>1, <2>2 DEF TypeOK
    <2>4. LocalsOK'
        BY <2>1 DEF TypeOK, LocalsOK, HoldsJob, HasTarget, Process, WorkerLocals
    <2> QED BY <2>1, <2>2, <2>3, <2>4 DEF TypeOK, Process, poolVars, jobVars, eventVars
<1>16. ASSUME NEW w \in Workers, Erase(w) PROVE TypeOK' /\ LocalsOK'
    <2> USE <1>16
    <2>1. worker' \in [Workers -> WorkerLocals]
        BY DEF TypeOK, Erase, GoWorker, WorkerLocals, WorkerPc
    <2>2. LocalsOK'
        BY DEF TypeOK, LocalsOK, HoldsJob, HasTarget, Erase, GoWorker
    <2> QED BY <2>1, <2>2 DEF TypeOK, Erase, jobVars, eventVars
<1>17. ASSUME NEW w \in Workers, CheckRequested(w) PROVE TypeOK' /\ LocalsOK'
    <2> USE <1>17
    <2>1. worker' \in [Workers -> WorkerLocals]
        BY GoWorkerType DEF CheckRequested, WorkerPc
    <2>2. LocalsOK'
        BY DEF TypeOK, LocalsOK, HoldsJob, HasTarget, CheckRequested, GoWorker
    <2> QED BY <2>1, <2>2 DEF TypeOK, CheckRequested, poolVars, jobVars, eventVars
<1>18. ASSUME NEW w \in Workers, ReadReasonStep(w) PROVE TypeOK' /\ LocalsOK'
    <2> USE <1>18
    <2>1. worker[w].job \in JobIds
        BY DEF LocalsOK, HoldsJob, ReadReasonStep
    <2>2. worker' \in [Workers -> WorkerLocals]
        BY <2>1, ReadReasonType DEF TypeOK, ReadReasonStep, WorkerLocals, WorkerPc
    <2>3. LocalsOK'
        BY DEF TypeOK, LocalsOK, HoldsJob, HasTarget, ReadReasonStep, WorkerLocals
    <2> QED BY <2>1, <2>2, <2>3 DEF TypeOK, ReadReasonStep, poolVars, jobVars, eventVars
<1>19. ASSUME NEW w \in Workers, EmitWorkerCancelled(w) PROVE TypeOK' /\ LocalsOK'
    <2> USE <1>19
    <2>1. worker[w].job \in JobIds /\ worker[w].reason \in AllReasons
        BY DEF TypeOK, WorkerLocals, LocalsOK, HoldsJob, EmitWorkerCancelled
    <2>2. /\ events' \in [JobIds -> Seq(Statuses)]
          /\ reported' \in [JobIds -> AllReasons]
        BY <2>1, EmitReasonType DEF EmitWorkerCancelled
    <2>3. worker' \in [Workers -> WorkerLocals]
        BY DEF TypeOK, EmitWorkerCancelled, FreshWorker, WorkerLocals, WorkerPc, AllReasons
    <2>4. LocalsOK'
        BY DEF TypeOK, LocalsOK, HoldsJob, HasTarget, EmitWorkerCancelled, FreshWorker
    <2> QED BY <2>1, <2>2, <2>3, <2>4 DEF TypeOK, EmitWorkerCancelled, poolVars, jobVars
<1>20. ASSUME NEW w \in Workers, EmitResult(w) PROVE TypeOK' /\ LocalsOK'
    <2> USE <1>20
    <2>1. worker[w].job \in JobIds
        BY DEF LocalsOK, HoldsJob, EmitResult
    <2>2. events' \in [JobIds -> Seq(Statuses)]
        BY <2>1, EmitType DEF EmitResult, Statuses, Terminal
    <2>3. worker' \in [Workers -> WorkerLocals]
        BY DEF TypeOK, EmitResult, FreshWorker, WorkerLocals, WorkerPc, AllReasons
    <2>4. LocalsOK'
        BY DEF TypeOK, LocalsOK, HoldsJob, HasTarget, EmitResult, FreshWorker
    <2> QED BY <2>1, <2>2, <2>3, <2>4 DEF TypeOK, EmitResult, poolVars, jobVars
<1>21. ASSUME NEW c \in Callers, NEW j \in JobIds, NEW text \in Texts, Cancel(c, j, text)
      PROVE  TypeOK' /\ LocalsOK'
    <2> USE <1>21
    <2>1. queue' \in Seq(JobIds)
        BY RemoveAtProperties DEF TypeOK, Cancel, QueueWithout
    <2>2. caller' \in [Callers -> CallerLocals]
        BY DEF TypeOK, Cancel, Call, InQueue, CallerLocals, CallerPc, AllReasons
    <2>3. LocalsOK'
        BY DEF TypeOK, LocalsOK, HoldsJob, HasTarget, Cancel, Call
    <2> QED BY <2>1, <2>2, <2>3 DEF TypeOK, Cancel, jobVars, eventVars
<1>22. ASSUME NEW c \in Callers, EmitDrained(c) PROVE TypeOK' /\ LocalsOK'
    <2> USE <1>22
    <2>1. CASE cancelled_jobs = <<>>
        <3>1. caller' \in [Callers -> CallerLocals]
            BY <2>1, ReturnType DEF EmitDrained
        <3>2. LocalsOK'
            BY <2>1, ReturnType DEF EmitDrained, LocalsOK, HoldsJob, HasTarget
        <3> QED BY <2>1, <3>1, <3>2 DEF TypeOK, EmitDrained, poolVars, jobVars, eventVars
    <2>2. CASE cancelled_jobs # <<>>
        <3>1. Head(cancelled_jobs) \in JobIds /\ Tail(cancelled_jobs) \in Seq(JobIds)
            BY <2>2, HeadTailProperties DEF TypeOK
        <3>2. /\ events' \in [JobIds -> Seq(Statuses)]
              /\ reported' \in [JobIds -> AllReasons]
            BY <2>2, <3>1, ReadReasonType, EmitReasonType DEF EmitDrained
        <3>3. LocalsOK'
            BY <2>2 DEF LocalsOK, HoldsJob, HasTarget, EmitDrained
        <3> QED BY <2>2, <3>1, <3>2, <3>3 DEF TypeOK, EmitDrained, poolVars, jobVars
    <2> QED BY <2>1, <2>2
<1>23. ASSUME UNCHANGED vars PROVE TypeOK' /\ LocalsOK'
    BY <1>23 DEF TypeOK, LocalsOK, HoldsJob, HasTarget, vars
<1> QED
    BY <1>1, <1>2, <1>3, <1>4, <1>5, <1>6, <1>7, <1>8, <1>9, <1>10, <1>11, <1>12, <1>13, <1>14,
       <1>15, <1>16, <1>17, <1>18, <1>19, <1>20, <1>21, <1>22, <1>23 DEF Next, CallerStep,
       WorkerStep

(* Every variable of the pool keeps its type.                              *)
THEOREM TypeCorrect == Spec => []TypeOK
<1>1. TypeInv => TypeOK
    BY DEF TypeInv
<1> QED BY <1>1, TypeInit, TypeNext, PTL DEF Spec

-----------------------------------------------------------------------------
(* Ownership                                                               *)

InDrained(j) == \E i \in DOMAIN cancelled_jobs : cancelled_jobs[i] = j
WorkerHas(w, j) == HoldsJob(w) /\ worker[w].job = j
CallerHas(c, j) == Withdrew(c) /\ caller[c].job = j
Started(j) == Ended(j) \/ \E w \in Workers : WorkerHas(w, j)

Increasing(s) == \A a, b \in DOMAIN s : a < b => s[a] < s[b]

EndsOnce ==
    \A j \in JobIds : \A a, b \in DOMAIN events[j] :
        events[j][a] \in Terminal /\ events[j][b] \in Terminal => a = b

(* No job has two owners, and only accepted jobs have one.                 *)
Exclusive ==
    /\ \A j \in JobIds : InQueue(j) => j < next_id /\ ~InDrained(j) /\ ~Ended(j)
    /\ \A j \in JobIds : InDrained(j) => j < next_id /\ ~Ended(j)
    /\ \A j \in JobIds : Ended(j) => j < next_id
    /\ \A w \in Workers, j \in JobIds :
         WorkerHas(w, j) => j < next_id /\ ~InQueue(j) /\ ~InDrained(j) /\ ~Ended(j)
    /\ \A c \in Callers, j \in JobIds :
         CallerHas(c, j) => j < next_id /\ ~InQueue(j) /\ ~InDrained(j) /\ ~Ended(j)
    /\ \A w, v \in Workers, j \in JobIds : WorkerHas(w, j) /\ WorkerHas(v, j) => w = v
    /\ \A c, d \in Callers, j \in JobIds : CallerHas(c, j) /\ CallerHas(d, j) => c = d
    /\ \A w \in Workers, c \in Callers, j \in JobIds : ~(WorkerHas(w, j) /\ CallerHas(c, j))

(* Every accepted job has an owner.                                        *)
Kept ==
    \A j \in JobIds : j < next_id =>
        \/ InQueue(j) \/ InDrained(j) \/ Ended(j)
        \/ \E w \in Workers : WorkerHas(w, j)
        \/ \E c \in Callers : CallerHas(c, j)

(* Why a cancel that took its job off the queue wins the compare-and-swap: *)
(* nobody else can have requested it, since every other target of a        *)
(* request has started.                                                    *)
Requests ==
    /\ \A j \in JobIds : InQueue(j) \/ j >= next_id => ~requested[j]
    /\ \A c \in Callers : caller[c].pc = "request" =>
         IF Withdrew(c) THEN ~requested[caller[c].job] ELSE Started(caller[c].job)
    /\ \A c \in Callers : caller[c].pc = "emit_cancelled" => Withdrew(c)
    /\ \A c \in Callers : Withdrew(c) => caller[c].pc \in {"request", "write_reason", "emit_cancelled"}
    /\ \A j \in running : \E w \in Workers : InRunning(w) /\ worker[w].job = j

QueueInv ==
    /\ Increasing(queue)
    /\ Increasing(cancelled_jobs)
    /\ IF shutting_down THEN queue = <<>> ELSE cancelled_jobs = <<>>

OwnerInv == TypeInv /\ QueueInv /\ EndsOnce /\ Exclusive /\ Kept /\ Requests

(* The elements of a queue after push_back, pop_front and erase.           *)
LEMMA AppendQueue ==
    ASSUME NEW s \in Seq(JobIds), NEW n \in JobIds, Increasing(s),
           \A i \in DOMAIN s : s[i] < n
    PROVE  /\ Increasing(Append(s, n))
           /\ \A j : (\E i \in DOMAIN Append(s, n) : Append(s, n)[i] = j)
                       <=> (\E i \in DOMAIN s : s[i] = j) \/ j = n
<1>1. /\ Len(s) \in Nat /\ DOMAIN s = 1 .. Len(s)
      /\ DOMAIN Append(s, n) = 1 .. Len(s) + 1
      /\ \A i \in 1 .. Len(s) : Append(s, n)[i] = s[i]
      /\ Append(s, n)[Len(s) + 1] = n
    BY AppendProperties
<1>2. Increasing(Append(s, n))
    BY <1>1 DEF Increasing
<1>3. ASSUME NEW j
      PROVE (\E i \in DOMAIN Append(s, n) : Append(s, n)[i] = j)
              <=> (\E i \in DOMAIN s : s[i] = j) \/ j = n
    BY <1>1
<1> QED BY <1>2, <1>3

(* A queue of increasing ids holds no job twice.                           *)
LEMMA IncreasingInjective ==
    ASSUME NEW s \in Seq(JobIds), Increasing(s), NEW a \in 1 .. Len(s), NEW b \in 1 .. Len(s),
           s[a] = s[b]
    PROVE  a = b
<1>1. s[a] \in Int /\ s[b] \in Int
    <2>1. s[a] \in JobIds /\ s[b] \in JobIds
        BY ElementOfSeq
    <2> QED BY <2>1, MaxJobsAssumption DEF JobIds
<1>2. DOMAIN s = 1 .. Len(s)
    BY LenProperties
<1>3. ~(a < b) /\ ~(b < a)
    BY <1>1, <1>2 DEF Increasing
<1> QED BY <1>3

(* The rest of a queue holds every job of it but the first.                *)
LEMMA TailQueue ==
    ASSUME NEW s \in Seq(JobIds), s # <<>>, Increasing(s)
    PROVE  /\ Head(s) \in JobIds /\ Tail(s) \in Seq(JobIds)
           /\ Increasing(Tail(s))
           /\ \E i \in DOMAIN s : s[i] = Head(s)
           /\ \A j : (\E i \in DOMAIN Tail(s) : Tail(s)[i] = j)
                       <=> (\E i \in DOMAIN s : s[i] = j) /\ j # Head(s)
<1>1. /\ Len(s) \in Nat \ {0} /\ DOMAIN s = 1 .. Len(s)
      /\ Head(s) = s[1] /\ Head(s) \in JobIds /\ Tail(s) \in Seq(JobIds)
      /\ DOMAIN Tail(s) = 1 .. Len(s) - 1
      /\ \A i \in 1 .. Len(s) - 1 : Tail(s)[i] = s[i + 1]
    BY HeadTailProperties, EmptySeq
<1>2. \A a, b \in 1 .. Len(s) : s[a] = s[b] => a = b
    BY <1>1, IncreasingInjective
<1>3. Increasing(Tail(s))
    <2> SUFFICES ASSUME NEW a \in 1 .. Len(s) - 1, NEW b \in 1 .. Len(s) - 1, a < b
                 PROVE  Tail(s)[a] < Tail(s)[b]
        BY <1>1 DEF Increasing
    <2>1. s[a + 1] < s[b + 1]
        BY <1>1 DEF Increasing
    <2> QED BY <1>1, <2>1
<1>4. ASSUME NEW j
      PROVE (\E i \in DOMAIN Tail(s) : Tail(s)[i] = j)
              <=> (\E i \in DOMAIN s : s[i] = j) /\ j # Head(s)
    <2>1. ASSUME NEW i \in DOMAIN s, s[i] = j, j # Head(s)
          PROVE \E k \in DOMAIN Tail(s) : Tail(s)[k] = j
        <3>1. i - 1 \in 1 .. Len(s) - 1 /\ Tail(s)[i - 1] = s[i]
            BY <1>1, <2>1
        <3> QED BY <1>1, <2>1, <3>1
    <2>2. ASSUME NEW k \in DOMAIN Tail(s), Tail(s)[k] = j
          PROVE (\E i \in DOMAIN s : s[i] = j) /\ j # Head(s)
        <3>1. k + 1 \in 1 .. Len(s) /\ s[k + 1] = j /\ k + 1 # 1
            BY <1>1, <2>2
        <3> QED BY <1>1, <1>2, <3>1
    <2> QED BY <2>1, <2>2
<1> QED BY <1>1, <1>3, <1>4

(* A queue an entry is erased from holds every job of it but that one.     *)
LEMMA EraseQueue ==
    ASSUME NEW s \in Seq(JobIds), NEW i \in DOMAIN s, Increasing(s)
    PROVE  /\ Increasing(RemoveAt(s, i))
           /\ \A j : (\E k \in DOMAIN RemoveAt(s, i) : RemoveAt(s, i)[k] = j)
                       <=> (\E k \in DOMAIN s : s[k] = j) /\ j # s[i]
<1> DEFINE r == RemoveAt(s, i)
<1>1. /\ Len(s) \in Nat /\ DOMAIN s = 1 .. Len(s)
      /\ DOMAIN r = 1 .. Len(s) - 1
      /\ \A k \in 1 .. Len(s) - 1 : r[k] = IF k < i THEN s[k] ELSE s[k + 1]
    BY RemoveAtProperties
<1>2. \A a, b \in 1 .. Len(s) : s[a] = s[b] => a = b
    BY <1>1, IncreasingInjective
<1> HIDE DEF r
<1>3. Increasing(r)
    <2> SUFFICES ASSUME NEW a \in 1 .. Len(s) - 1, NEW b \in 1 .. Len(s) - 1, a < b
                 PROVE  r[a] < r[b]
        BY <1>1 DEF Increasing
    <2> DEFINE a1 == IF a < i THEN a ELSE a + 1
               b1 == IF b < i THEN b ELSE b + 1
    <2>1. a1 \in 1 .. Len(s) /\ b1 \in 1 .. Len(s) /\ a1 < b1
        BY <1>1
    <2>2. s[a1] < s[b1]
        BY <1>1, <2>1 DEF Increasing
    <2> QED BY <1>1, <2>2
<1>4. ASSUME NEW j
      PROVE (\E k \in DOMAIN r : r[k] = j) <=> (\E k \in DOMAIN s : s[k] = j) /\ j # s[i]
    <2>1. ASSUME NEW k \in DOMAIN s, s[k] = j, j # s[i]
          PROVE \E m \in DOMAIN r : r[m] = j
        <3>1. CASE k < i
            BY <1>1, <2>1, <3>1
        <3>2. CASE k > i
            <4>1. k - 1 \in 1 .. Len(s) - 1 /\ r[k - 1] = s[k]
                BY <1>1, <2>1, <3>2
            <4> QED BY <1>1, <2>1, <4>1
        <3> QED BY <1>1, <2>1, <3>1, <3>2
    <2>2. ASSUME NEW m \in DOMAIN r, r[m] = j
          PROVE (\E k \in DOMAIN s : s[k] = j) /\ j # s[i]
        <3>1. CASE m < i
            BY <1>1, <1>2, <2>2, <3>1
        <3>2. CASE ~(m < i)
            <4>1. m + 1 \in 1 .. Len(s) /\ s[m + 1] = j /\ m + 1 # i
                BY <1>1, <2>2, <3>2
            <4> QED BY <1>1, <1>2, <4>1
        <3> QED BY <3>1, <3>2
    <2> QED BY <2>1, <2>2
<1> QED BY <1>3, <1>4 DEF r

(* A terminal event ends its job, a job not ended before ends once, and    *)
(* the other events end nothing.                                           *)
LEMMA EmitEnds ==
    ASSUME TypeOK, NEW j \in JobIds, NEW status \in Statuses, Emit(j, status)
    PROVE  /\ \A k \in JobIds : Ended(k)' <=> Ended(k) \/ (k = j /\ status \in Terminal)
           /\ EndsOnce /\ (status \in Terminal => ~Ended(j)) => EndsOnce'
<1>1. /\ events'[j] = Append(events[j], status)
      /\ \A k \in JobIds : k # j => events'[k] = events[k]
      /\ events[j] \in Seq(Statuses)
    BY EmitType DEF TypeOK
<1>2. /\ Len(events[j]) \in Nat /\ DOMAIN events[j] = 1 .. Len(events[j])
      /\ DOMAIN events'[j] = 1 .. Len(events[j]) + 1
      /\ \A i \in 1 .. Len(events[j]) : events'[j][i] = events[j][i]
      /\ events'[j][Len(events[j]) + 1] = status
    BY <1>1, AppendProperties
<1>3. Ended(j)' <=> Ended(j) \/ status \in Terminal
    BY <1>2 DEF Ended
<1>4. \A k \in JobIds : k # j => (Ended(k)' <=> Ended(k))
    BY <1>1 DEF Ended
<1>5. ASSUME EndsOnce, status \in Terminal => ~Ended(j) PROVE EndsOnce'
    <2>1. ASSUME NEW k \in JobIds, NEW a \in DOMAIN events'[k], NEW b \in DOMAIN events'[k],
                 events'[k][a] \in Terminal, events'[k][b] \in Terminal
          PROVE a = b
        <3>1. CASE k # j
            BY <1>1, <1>5, <2>1, <3>1 DEF EndsOnce
        <3>2. CASE k = j
            <4> DEFINE n == Len(events[j])
            <4>1. /\ n \in Nat /\ a \in 1 .. n + 1 /\ b \in 1 .. n + 1
                  /\ events'[j][a] \in Terminal /\ events'[j][b] \in Terminal
                BY <1>2, <2>1, <3>2
            <4>2. \A i \in 1 .. n + 1 : i = n + 1 \/ i \in 1 .. n
                BY <4>1
            <4> HIDE DEF n
            <4>3. CASE status \in Terminal
                <5>1. \A i \in 1 .. n : events'[j][i] \notin Terminal
                    BY <1>2, <1>5, <4>3 DEF Ended, n
                <5> QED BY <4>1, <4>2, <5>1
            <4>4. CASE status \notin Terminal
                <5>1. a \in 1 .. n /\ b \in 1 .. n
                    BY <1>2, <4>1, <4>2, <4>4 DEF n
                <5>2. events[j][a] \in Terminal /\ events[j][b] \in Terminal
                    BY <1>2, <4>1, <5>1 DEF n
                <5>3. a \in DOMAIN events[j] /\ b \in DOMAIN events[j]
                    BY <1>2, <5>1 DEF n
                <5> QED BY <1>5, <5>2, <5>3 DEF EndsOnce
            <4> QED BY <4>3, <4>4
        <3> QED BY <3>1, <3>2
    <2> QED BY <2>1 DEF EndsOnce
<1> QED BY <1>3, <1>4, <1>5

(* A step that hands no job from one owner to another.                     *)
LEMMA QuietStep ==
    ASSUME OwnerInv,
           UNCHANGED <<queue, cancelled_jobs, next_id, shutting_down>>,
           \A k \in JobIds : Ended(k)' <=> Ended(k),
           \A v \in Workers, k \in JobIds : WorkerHas(v, k)' <=> WorkerHas(v, k),
           \A d \in Callers, k \in JobIds : CallerHas(d, k)' <=> CallerHas(d, k)
    PROVE  /\ QueueInv' /\ Exclusive' /\ Kept'
           /\ \A k \in JobIds : Started(k)' <=> Started(k)
<1>1. \A k \in JobIds : (InQueue(k)' <=> InQueue(k)) /\ (InDrained(k)' <=> InDrained(k))
    BY DEF InQueue, InDrained
<1>2. QueueInv'
    BY DEF OwnerInv, QueueInv, Increasing
<1>3. Exclusive'
    BY <1>1 DEF OwnerInv, Exclusive
<1>4. Kept'
    BY <1>1 DEF OwnerInv, Kept
<1>5. \A k \in JobIds : Started(k)' <=> Started(k)
    BY DEF Started
<1> QED BY <1>2, <1>3, <1>4, <1>5

(* A step of the workers only.                                             *)
LEMMA WorkerQuietStep ==
    ASSUME OwnerInv, TypeInv',
           UNCHANGED <<queue, cancelled_jobs, next_id, shutting_down, requested, caller>>,
           \A k \in JobIds : Ended(k)' <=> Ended(k), EndsOnce',
           \A v \in Workers, k \in JobIds : WorkerHas(v, k)' <=> WorkerHas(v, k),
           \A j \in running' : \E v \in Workers : InRunning(v)' /\ worker'[v].job = j
    PROVE  OwnerInv'
<1>1. \A d \in Callers, k \in JobIds : CallerHas(d, k)' <=> CallerHas(d, k)
    BY DEF CallerHas, Withdrew
<1>2. /\ QueueInv' /\ Exclusive' /\ Kept'
      /\ \A k \in JobIds : Started(k)' <=> Started(k)
    BY <1>1, QuietStep
<1>3. Requests'
    <2>1. \A j \in JobIds : InQueue(j)' \/ j >= next_id' => ~requested'[j]
        BY DEF OwnerInv, Requests, InQueue
    <2>2. \A c \in Callers : caller'[c].pc = "request" =>
            IF Withdrew(c)' THEN ~requested'[caller'[c].job] ELSE Started(caller[c].job)'
        BY <1>2 DEF OwnerInv, Requests, Withdrew, TypeInv, LocalsOK, HasTarget
    <2> QED BY <2>1, <2>2 DEF OwnerInv, Requests, Withdrew
<1> QED BY <1>2, <1>3 DEF OwnerInv

(* No job has an owner at the start.                                       *)
LEMMA OwnerInit == Init => OwnerInv
<1> SUFFICES ASSUME Init PROVE OwnerInv
    OBVIOUS
<1>1. TypeInv
    BY TypeInit
<1>2. /\ \A j : ~InQueue(j) /\ ~InDrained(j)
      /\ \A j \in JobIds : ~Ended(j)
      /\ \A w \in Workers : ~HoldsJob(w)
      /\ \A c \in Callers : caller[c].pc = "idle" /\ ~Withdrew(c)
    BY DEF Init, InQueue, InDrained, Ended, HoldsJob, FreshWorker, IdleCaller, Withdrew
<1>3. QueueInv /\ EndsOnce
    BY DEF Init, QueueInv, Increasing, EndsOnce
<1>4. Exclusive
    BY <1>2 DEF Exclusive, WorkerHas, CallerHas
<1>5. Kept
    BY DEF Init, Kept, JobIds
<1>6. Requests
    BY <1>2 DEF Init, Requests
<1> QED BY <1>1, <1>3, <1>4, <1>5, <1>6 DEF OwnerInv

(* A worker's step keeps OwnerInv.                                         *)
LEMMA OwnerWorkerStep ==
    ASSUME OwnerInv, TypeInv', NEW w \in Workers, WorkerStep(w)
    PROVE  OwnerInv'
<1> USE DEF OwnerInv, TypeInv
<1>1. CASE Block(w) \/ WakeSpuriously(w) \/ Exit(w)
    <2>1. PICK pc \in {"blocked", "poll", "exited"} : GoWorker(w, pc)
        BY <1>1 DEF Block, WakeSpuriously, Exit
    <2>2. /\ \A v \in Workers : v # w => worker'[v] = worker[v]
          /\ ~HoldsJob(w) /\ ~HoldsJob(w)' /\ ~InRunning(w)
        BY <1>1, <2>1, GoWorkerType DEF WorkerPc, HoldsJob, InRunning, Block, WakeSpuriously, Exit
    <2>3. /\ UNCHANGED <<queue, cancelled_jobs, next_id, shutting_down, requested, caller>>
          /\ running' = running /\ events' = events
        BY <1>1 DEF Block, WakeSpuriously, Exit, poolVars, jobVars, eventVars
    <2>4. EndsOnce' /\ \A k \in JobIds : Ended(k)' <=> Ended(k)
        BY <2>3 DEF EndsOnce, Ended
    <2>5. \A v \in Workers, k \in JobIds : WorkerHas(v, k)' <=> WorkerHas(v, k)
        BY <2>2 DEF WorkerHas, HoldsJob
    <2>6. \A j \in running' : \E v \in Workers : InRunning(v)' /\ worker'[v].job = j
        BY <2>2, <2>3 DEF Requests, InRunning
    <2> QED BY <2>3, <2>4, <2>5, <2>6, WorkerQuietStep
<1>2. CASE Process(w) \/ CheckRequested(w) \/ ReadReasonStep(w) \/ Erase(w) \/ EmitRunning(w)
    <2>1. /\ \A v \in Workers : v # w => worker'[v] = worker[v]
          /\ worker'[w].job = worker[w].job
          /\ HoldsJob(w) /\ HoldsJob(w)'
          /\ worker[w].job \in JobIds
        <3>1. CASE Process(w)
            BY <3>1 DEF Process, TypeOK, LocalsOK, WorkerLocals, HoldsJob
        <3>2. CASE ReadReasonStep(w)
            BY <3>2 DEF ReadReasonStep, TypeOK, LocalsOK, WorkerLocals, HoldsJob
        <3>3. CASE CheckRequested(w) \/ Erase(w) \/ EmitRunning(w)
            <4>1. PICK pc \in {"read_reason", "emit_result", "check", "process"} : GoWorker(w, pc)
                BY <3>3 DEF CheckRequested, Erase, EmitRunning
            <4> QED BY <3>3, <4>1, GoWorkerType
                    DEF CheckRequested, Erase, EmitRunning, WorkerPc, HoldsJob, LocalsOK
        <3> QED BY <1>2, <3>1, <3>2, <3>3
    <2>2. \A v \in Workers, k \in JobIds : WorkerHas(v, k)' <=> WorkerHas(v, k)
        BY <2>1 DEF WorkerHas, HoldsJob
    <2>3. UNCHANGED <<queue, cancelled_jobs, next_id, shutting_down, requested, caller>>
        BY <1>2 DEF Process, CheckRequested, ReadReasonStep, Erase, EmitRunning, poolVars, jobVars
    <2>4. EndsOnce' /\ \A k \in JobIds : Ended(k)' <=> Ended(k)
        <3>1. CASE EmitRunning(w)
            BY <2>1, <3>1, EmitEnds DEF EmitRunning, Statuses, Terminal
        <3>2. CASE Process(w) \/ CheckRequested(w) \/ ReadReasonStep(w) \/ Erase(w)
            BY <3>2 DEF Process, CheckRequested, ReadReasonStep, Erase, eventVars, EndsOnce, Ended
        <3> QED BY <1>2, <3>1, <3>2
    <2>5. \A j \in running' : \E v \in Workers : InRunning(v)' /\ worker'[v].job = j
        <3>1. CASE Erase(w)
            <4>1. running' = running \ {worker[w].job}
                BY <3>1 DEF Erase
            <4> QED BY <2>1, <4>1 DEF Requests, InRunning
        <3>2. CASE CheckRequested(w) \/ ReadReasonStep(w)
            BY <2>1, <3>2 DEF CheckRequested, ReadReasonStep, poolVars, Requests, InRunning
        <3>3. CASE Process(w)
            <4>1. worker'[w].pc = "erase" /\ running' = running
                BY <3>3 DEF Process, TypeOK, WorkerLocals, poolVars
            <4> QED BY <2>1, <4>1 DEF Requests, InRunning
        <3>4. CASE EmitRunning(w)
            <4>1. worker'[w].pc = "process" /\ running' = running
                BY <3>4, GoWorkerType DEF EmitRunning, WorkerPc, poolVars
            <4> QED BY <2>1, <4>1 DEF Requests, InRunning
        <3> QED BY <1>2, <3>1, <3>2, <3>3, <3>4
    <2> QED BY <2>2, <2>3, <2>4, <2>5, WorkerQuietStep
<1>3. CASE Take(w)
    <2> DEFINE h == Head(queue)
    <2>1. /\ h \in JobIds /\ InQueue(h) /\ Increasing(queue')
          /\ \A k \in JobIds : InQueue(k)' <=> InQueue(k) /\ k # h
        BY <1>3, TailQueue DEF Take, TypeOK, QueueInv, InQueue
    <2>2. /\ worker'[w].pc = "emit_running" /\ worker'[w].job = h
          /\ \A v \in Workers : v # w => worker'[v] = worker[v]
          /\ running' = running \union {h}
          /\ UNCHANGED <<shutting_down, next_id, requested, caller, cancelled_jobs, events>>
        BY <1>3 DEF Take, TakenId, TypeOK, jobVars, eventVars
    <2>3. ~HoldsJob(w) /\ ~InRunning(w) /\ ~shutting_down
        BY <1>3 DEF Take, HoldsJob, InRunning, QueueInv
    <2> HIDE DEF h
    <2>4. \A v \in Workers, k \in JobIds :
            WorkerHas(v, k)' <=> WorkerHas(v, k) \/ (v = w /\ k = h)
        BY <2>2, <2>3 DEF WorkerHas, HoldsJob
    <2>5. /\ \A d \in Callers, k \in JobIds : CallerHas(d, k)' <=> CallerHas(d, k)
          /\ \A k \in JobIds : (InDrained(k)' <=> InDrained(k)) /\ (Ended(k)' <=> Ended(k))
        BY <2>2 DEF CallerHas, Withdrew, InDrained, Ended
    <2>6. Exclusive'
        BY <2>1, <2>2, <2>3, <2>4, <2>5 DEF Exclusive, WorkerHas
    <2>7. Kept'
        BY <2>1, <2>2, <2>4, <2>5 DEF Kept
    <2>8. \A k \in JobIds : Started(k)' <=> Started(k) \/ k = h
        BY <2>4, <2>5 DEF Started
    <2>9. Requests'
        <3>1. \A j \in running' : \E v \in Workers : InRunning(v)' /\ worker'[v].job = j
            BY <2>2, <2>3 DEF Requests, InRunning
        <3>2. \A j \in JobIds : InQueue(j)' \/ j >= next_id' => ~requested'[j]
            BY <2>1, <2>2 DEF Requests
        <3>3. \A c \in Callers : caller[c].pc = "request" /\ ~Withdrew(c) => Started(caller[c].job)'
            BY <2>2, <2>8 DEF Requests, LocalsOK, HasTarget, Withdrew
        <3> QED BY <2>2, <3>1, <3>2, <3>3 DEF Requests, Withdrew
    <2>10. QueueInv' /\ EndsOnce'
        BY <2>1, <2>2, <2>3 DEF QueueInv, EndsOnce
    <2> QED BY <2>6, <2>7, <2>9, <2>10
<1>4. CASE EmitWorkerCancelled(w) \/ EmitResult(w)
    <2> DEFINE j == worker[w].job
    <2>1. /\ j \in JobIds /\ HoldsJob(w) /\ ~InRunning(w)
          /\ worker' = [worker EXCEPT ![w] = FreshWorker]
          /\ UNCHANGED <<queue, running, shutting_down, next_id, requested, caller, cancelled_jobs>>
        BY <1>4 DEF EmitWorkerCancelled, EmitResult, LocalsOK, HoldsJob, InRunning, poolVars,
           jobVars
    <2>2. \E status \in Terminal : Emit(j, status)
        BY <1>4 DEF EmitWorkerCancelled, EmitReason, EmitResult, Terminal
    <2>3. ~HoldsJob(w)' /\ \A v \in Workers : v # w => worker'[v] = worker[v]
        BY <2>1 DEF HoldsJob, FreshWorker, TypeOK
    <2> HIDE DEF j
    <2>4. WorkerHas(w, j)
        BY <2>1 DEF WorkerHas, j
    <2>5. EndsOnce' /\ \A k \in JobIds : Ended(k)' <=> Ended(k) \/ k = j
        BY <2>1, <2>2, <2>4, EmitEnds DEF Exclusive, Statuses
    <2>6. \A v \in Workers, k \in JobIds : WorkerHas(v, k)' <=> WorkerHas(v, k) /\ v # w
        BY <2>3 DEF WorkerHas, HoldsJob
    <2>7. /\ \A d \in Callers, k \in JobIds : CallerHas(d, k)' <=> CallerHas(d, k)
          /\ \A k \in JobIds : (InDrained(k)' <=> InDrained(k)) /\ (InQueue(k)' <=> InQueue(k))
        BY <2>1 DEF CallerHas, Withdrew, InDrained, InQueue
    <2>8. \A k \in JobIds : WorkerHas(w, k) => k = j
        BY DEF WorkerHas, j
    <2>9. Exclusive'
        BY <2>1, <2>4, <2>5, <2>6, <2>7 DEF Exclusive
    <2>10. Kept'
        BY <2>1, <2>5, <2>6, <2>7, <2>8 DEF Kept
    <2>11. \A k \in JobIds : Started(k)' <=> Started(k)
        BY <2>4, <2>5, <2>6, <2>8 DEF Started
    <2>12. Requests'
        <3>1. \A i \in running' : \E v \in Workers : InRunning(v)' /\ worker'[v].job = i
            BY <2>1, <2>3 DEF Requests, InRunning
        <3>2. \A i \in JobIds : InQueue(i)' \/ i >= next_id' => ~requested'[i]
            BY <2>1, <2>7 DEF Requests
        <3>3. \A c \in Callers : caller[c].pc = "request" /\ ~Withdrew(c) => Started(caller[c].job)'
            BY <2>1, <2>11 DEF Requests, LocalsOK, HasTarget, Withdrew
        <3> QED BY <2>1, <3>1, <3>2, <3>3 DEF Requests, Withdrew
    <2>13. QueueInv'
        BY <2>1 DEF QueueInv
    <2> QED BY <2>5, <2>9, <2>10, <2>12, <2>13
<1> QED BY <1>1, <1>2, <1>3, <1>4 DEF WorkerStep

(* A caller step that hands over no job and requests nothing.              *)
LEMMA CallerQuietStep ==
    ASSUME OwnerInv, TypeInv', NEW c \in Callers,
           UNCHANGED <<queue, running, cancelled_jobs, next_id, shutting_down, requested>>,
           \A v \in Workers : /\ HoldsJob(v)' <=> HoldsJob(v)
                              /\ HoldsJob(v) => worker'[v] = worker[v],
           \A d \in Callers : d # c => caller'[d] = caller[d],
           Withdrew(c)' <=> Withdrew(c), Withdrew(c) => caller'[c].job = caller[c].job,
           caller'[c].pc # "request", caller'[c].pc = "emit_cancelled" => Withdrew(c),
           Withdrew(c) => caller'[c].pc \in {"write_reason", "emit_cancelled"},
           \A k \in JobIds : Ended(k)' <=> Ended(k), EndsOnce'
    PROVE  OwnerInv'
<1> USE DEF OwnerInv, TypeInv
<1>1. /\ \A v \in Workers, k \in JobIds : WorkerHas(v, k)' <=> WorkerHas(v, k)
      /\ \A d \in Callers, k \in JobIds : CallerHas(d, k)' <=> CallerHas(d, k)
    BY DEF WorkerHas, CallerHas, Withdrew
<1>2. /\ QueueInv' /\ Exclusive' /\ Kept'
      /\ \A k \in JobIds : Started(k)' <=> Started(k)
    BY <1>1, QuietStep
<1>3. \A j \in running' : \E v \in Workers : InRunning(v)' /\ worker'[v].job = j
    BY DEF Requests, InRunning, HoldsJob
<1>4. \A j \in JobIds : InQueue(j)' \/ j >= next_id' => ~requested'[j]
    BY DEF Requests, InQueue
<1>5. ASSUME NEW d \in Callers, caller'[d].pc = "request"
      PROVE  IF Withdrew(d)' THEN ~requested'[caller'[d].job] ELSE Started(caller[d].job)'
    <2>1. d # c /\ caller'[d] = caller[d] /\ caller[d].job \in JobIds
        BY <1>5 DEF LocalsOK, HasTarget
    <2>2. ~Withdrew(d) => Started(caller[d].job)
        BY <1>5, <2>1 DEF Requests
    <2> QED BY <1>2, <1>5, <2>1, <2>2 DEF Requests, Withdrew
<1>6. Requests'
    BY <1>3, <1>4, <1>5 DEF Requests, Withdrew
<1> QED BY <1>2, <1>6

(* A caller's step keeps OwnerInv.                                         *)
LEMMA OwnerCallerStep ==
    ASSUME OwnerInv, TypeInv', NEW c \in Callers, CallerStep(c)
    PROVE  OwnerInv'
<1> USE DEF OwnerInv, TypeInv
<1>1. CASE Enqueue(c)
    <2> DEFINE n == next_id
    <2>1. /\ n \in JobIds /\ n \in Nat /\ next_id' = n + 1 /\ ~shutting_down
          /\ UNCHANGED <<running, shutting_down, requested, worker, cancelled_jobs, events>>
        BY <1>1, MaxJobsAssumption DEF Enqueue, Accepts, TypeOK, JobIds, jobVars, eventVars
    <2>2. /\ caller'[c].pc = "emit_queued" /\ ~caller'[c].withdrew /\ ~Withdrew(c)
          /\ \A d \in Callers : d # c => caller'[d] = caller[d]
        BY <1>1 DEF Enqueue, Call, TypeOK, Requests
    <2>3. /\ Increasing(queue')
          /\ \A k \in JobIds : InQueue(k)' <=> InQueue(k) \/ k = n
        <3>1. \A i \in DOMAIN queue : queue[i] < n
            <4> SUFFICES ASSUME NEW i \in DOMAIN queue PROVE queue[i] < n
                OBVIOUS
            <4>1. queue[i] \in JobIds
                BY ElementOfSeq, LenProperties DEF TypeOK
            <4>2. InQueue(queue[i])
                BY DEF InQueue
            <4> QED BY <4>1, <4>2 DEF Exclusive
        <3>2. /\ Increasing(Append(queue, n))
              /\ \A k : (\E i \in DOMAIN Append(queue, n) : Append(queue, n)[i] = k)
                          <=> (\E i \in DOMAIN queue : queue[i] = k) \/ k = n
            BY <2>1, <3>1, AppendQueue DEF TypeOK, QueueInv
        <3>3. queue' = Append(queue, n)
            BY <1>1 DEF Enqueue
        <3> QED BY <3>2, <3>3 DEF InQueue
    <2>4. /\ \A v \in Workers, k \in JobIds : WorkerHas(v, k)' <=> WorkerHas(v, k)
          /\ \A d \in Callers, k \in JobIds : CallerHas(d, k)' <=> CallerHas(d, k)
          /\ \A k \in JobIds : (InDrained(k)' <=> InDrained(k)) /\ (Ended(k)' <=> Ended(k))
        BY <2>1, <2>2 DEF WorkerHas, HoldsJob, CallerHas, Withdrew, InDrained, Ended
    <2> HIDE DEF n
    <2>5. \A k \in JobIds : k \in Int
        BY MaxJobsAssumption DEF JobIds
    <2>6. \A k \in JobIds : (k < n + 1 <=> k < n \/ k = n) /\ (k >= n + 1 => k >= n)
        BY <2>1, <2>5
    <2>7. Exclusive'
        BY <2>1, <2>3, <2>4, <2>6 DEF Exclusive, n
    <2>8. Kept'
        BY <2>1, <2>3, <2>4, <2>6 DEF Kept, n
    <2>9. Requests'
        <3>1. \A k \in JobIds : InQueue(k)' \/ k >= next_id' => ~requested'[k]
            <4> SUFFICES ASSUME NEW k \in JobIds, InQueue(k)' \/ k >= next_id'
                         PROVE  ~requested'[k]
                OBVIOUS
            <4>1. \A i \in JobIds : InQueue(i) \/ i >= next_id => ~requested[i]
                BY DEF Requests
            <4>2. requested' = requested /\ n >= n /\ next_id = n
                BY <2>1 DEF n
            <4>3. InQueue(k)' => InQueue(k) \/ k >= n
                BY <2>3, <4>2
            <4>4. k >= next_id' => k >= n
                BY <2>1, <2>6
            <4> QED BY <4>1, <4>2, <4>3, <4>4
        <3>2. \A k \in JobIds : Started(k)' <=> Started(k)
            BY <2>4 DEF Started
        <3>3. ASSUME NEW d \in Callers, caller'[d].pc = "request"
              PROVE  IF Withdrew(d)' THEN ~requested'[caller'[d].job] ELSE Started(caller[d].job)'
            <4>1. d # c /\ caller'[d] = caller[d] /\ caller[d].job \in JobIds
                BY <2>2, <3>3 DEF LocalsOK, HasTarget
            <4> QED BY <2>1, <3>2, <3>3, <4>1 DEF Requests, Withdrew
        <3> QED BY <2>1, <2>2, <3>1, <3>3 DEF Requests, Withdrew, InRunning
    <2>10. QueueInv' /\ EndsOnce'
        BY <2>1, <2>3 DEF QueueInv, EndsOnce
    <2> QED BY <2>7, <2>8, <2>9, <2>10
<1>2. CASE EmitQueued(c)
    <2>1. caller[c].job \in JobIds /\ ~Withdrew(c)
        BY <1>2 DEF EmitQueued, LocalsOK, HasTarget, Requests
    <2>2. EndsOnce' /\ \A k \in JobIds : Ended(k)' <=> Ended(k)
        BY <1>2, <2>1, EmitEnds DEF EmitQueued, Statuses, Terminal
    <2>3. UNCHANGED <<queue, running, cancelled_jobs, next_id, shutting_down, requested, worker>>
        BY <1>2 DEF EmitQueued, poolVars, jobVars
    <2>4. /\ \A d \in Callers : d # c => caller'[d] = caller[d]
          /\ caller'[c].pc = "notify_one" /\ caller'[c].withdrew = caller[c].withdrew
        BY <1>2, GoCallerType DEF EmitQueued, CallerPc
    <2>5. \A v \in Workers : (HoldsJob(v)' <=> HoldsJob(v)) /\ worker'[v] = worker[v]
        BY <2>3 DEF HoldsJob
    <2>6. ~Withdrew(c)'
        BY <2>1, <2>4 DEF Withdrew
    <2> QED BY <2>1, <2>2, <2>3, <2>4, <2>5, <2>6, CallerQuietStep
<1>3. CASE NotifyOne(c) \/ NotifyAll(c) \/ Join(c) \/ (EmitDrained(c) /\ cancelled_jobs = <<>>)
    <2>1. /\ UNCHANGED <<queue, running, cancelled_jobs, next_id, shutting_down, requested, events>>
          /\ ~Withdrew(c)
        BY <1>3 DEF NotifyOne, NotifyAll, Join, EmitDrained, poolVars, jobVars, eventVars,
           Requests
    <2>2. EndsOnce' /\ \A k \in JobIds : Ended(k)' <=> Ended(k)
        BY <2>1 DEF EndsOnce, Ended
    <2>3. /\ \A d \in Callers : d # c => caller'[d] = caller[d]
          /\ caller'[c].pc \in {"idle", "join", "emit_drained"} /\ ~caller'[c].withdrew
        <3>1. CASE Return(c)
            BY <3>1, ReturnType
        <3>2. CASE \E pc \in {"join", "emit_drained"} : GoCaller(c, pc)
            BY <2>1, <3>2, GoCallerType DEF CallerPc, Withdrew
        <3> QED BY <1>3, <3>1, <3>2 DEF NotifyOne, NotifyAll, Join, EmitDrained
    <2>4. \A v \in Workers : /\ HoldsJob(v)' <=> HoldsJob(v)
                             /\ HoldsJob(v) => worker'[v] = worker[v]
        <3>1. CASE UNCHANGED worker
            BY <3>1 DEF HoldsJob
        <3>2. CASE \E w \in Blocked : GoWorker(w, "poll")
            BY <3>2, GoWorkerType DEF Blocked, WorkerPc, HoldsJob
        <3>3. CASE NotifyAll(c)
            <4> SUFFICES ASSUME NEW v \in Workers
                         PROVE  /\ HoldsJob(v)' <=> HoldsJob(v)
                                /\ HoldsJob(v) => worker'[v] = worker[v]
                OBVIOUS
            <4>1. CASE v \in Blocked
                <5>1. worker'[v].pc = "poll" /\ worker[v].pc = "blocked"
                    BY <3>3, <4>1 DEF NotifyAll, Blocked, TypeOK, WorkerLocals
                <5> QED BY <5>1 DEF HoldsJob
            <4>2. CASE v \notin Blocked
                <5>1. worker'[v] = worker[v]
                    BY <3>3, <4>2 DEF NotifyAll
                <5> QED BY <5>1 DEF HoldsJob
            <4> QED BY <4>1, <4>2
        <3> QED BY <1>3, <3>1, <3>2, <3>3 DEF NotifyOne, Join, EmitDrained
    <2>5. ~Withdrew(c)'
        BY <2>3 DEF Withdrew
    <2> QED BY <2>1, <2>2, <2>3, <2>4, <2>5, CallerQuietStep
<1>4. CASE WriteReason(c)
    <2>1. UNCHANGED <<queue, running, cancelled_jobs, next_id, shutting_down, requested, worker, events>>
        BY <1>4 DEF WriteReason, poolVars, eventVars
    <2>2. EndsOnce' /\ \A k \in JobIds : Ended(k)' <=> Ended(k)
        BY <2>1 DEF EndsOnce, Ended
    <2>3. /\ \A d \in Callers : d # c => caller'[d] = caller[d]
          /\ IF Withdrew(c) THEN /\ caller'[c].pc = "emit_cancelled"
                                 /\ caller'[c].job = caller[c].job
                            ELSE caller'[c].pc = "idle"
          /\ Withdrew(c)' <=> Withdrew(c)
        BY <1>4, GoCallerType, ReturnType DEF WriteReason, CallerPc, Withdrew
    <2>4. \A v \in Workers : (HoldsJob(v)' <=> HoldsJob(v)) /\ worker'[v] = worker[v]
        BY <2>1 DEF HoldsJob
    <2> QED BY <2>1, <2>2, <2>3, <2>4, CallerQuietStep
<1>5. CASE \E j \in JobIds, text \in Texts : Cancel(c, j, text)
    <2>1. PICK j \in JobIds, text \in Texts : Cancel(c, j, text)
        BY <1>5
    <2>2. /\ UNCHANGED <<running, cancelled_jobs, next_id, shutting_down, requested, worker, events>>
          /\ ~Withdrew(c)
          /\ caller'[c].pc = "request" /\ caller'[c].job = j /\ caller'[c].withdrew = InQueue(j)
          /\ \A d \in Callers : d # c => caller'[d] = caller[d]
        BY <2>1 DEF Cancel, Call, jobVars, eventVars, Requests, TypeOK
    <2>3. /\ \A v \in Workers, k \in JobIds : WorkerHas(v, k)' <=> WorkerHas(v, k)
          /\ \A k \in JobIds : (InDrained(k)' <=> InDrained(k)) /\ (Ended(k)' <=> Ended(k))
          /\ \A k \in JobIds : Started(k)' <=> Started(k)
        BY <2>2 DEF WorkerHas, HoldsJob, InDrained, Ended, Started
    <2>4. EndsOnce'
        BY <2>2 DEF EndsOnce
    <2>5. CASE InQueue(j)
        <3>1. /\ Increasing(queue')
              /\ \A k \in JobIds : InQueue(k)' <=> InQueue(k) /\ k # j
              /\ ~shutting_down
            <4>1. PICK i \in DOMAIN queue : queue[i] = j /\ queue' = RemoveAt(queue, i)
                BY <2>1, <2>5 DEF Cancel, QueueWithout
            <4>2. ~shutting_down
                BY <4>1 DEF QueueInv
            <4>3. /\ Increasing(RemoveAt(queue, i))
                  /\ \A k : (\E m \in DOMAIN RemoveAt(queue, i) : RemoveAt(queue, i)[m] = k)
                              <=> (\E m \in DOMAIN queue : queue[m] = k) /\ k # queue[i]
                BY <4>1, EraseQueue DEF QueueInv, TypeOK
            <4> QED BY <4>1, <4>2, <4>3 DEF InQueue
        <3>2. \A d \in Callers, k \in JobIds :
                CallerHas(d, k)' <=> CallerHas(d, k) \/ (d = c /\ k = j)
            BY <2>2, <2>5 DEF CallerHas, Withdrew
        <3>3. Exclusive'
            BY <2>2, <2>3, <2>5, <3>1, <3>2 DEF Exclusive, CallerHas
        <3>4. Kept'
            BY <2>2, <2>3, <2>5, <3>1, <3>2 DEF Kept
        <3>5. Requests'
            <4>1. \A k \in JobIds : InQueue(k)' \/ k >= next_id' => ~requested'[k]
                BY <2>2, <3>1 DEF Requests
            <4>2. ASSUME NEW d \in Callers, caller'[d].pc = "request"
                  PROVE  IF Withdrew(d)' THEN ~requested'[caller'[d].job]
                                         ELSE Started(caller[d].job)'
                <5>1. CASE d = c
                    BY <2>2, <2>5, <5>1 DEF Requests, Withdrew
                <5>2. CASE d # c
                    <6>1. caller'[d] = caller[d] /\ caller[d].job \in JobIds
                        BY <2>2, <4>2, <5>2 DEF LocalsOK, HasTarget
                    <6> QED BY <2>2, <2>3, <4>2, <6>1 DEF Requests, Withdrew
                <5> QED BY <5>1, <5>2
            <4>3. \A d \in Callers : caller'[d].pc = "request" /\ ~Withdrew(d)' => caller'[d] = caller[d]
                BY <2>2, <2>5 DEF Withdrew
            <4>4. \A d \in Callers : /\ caller'[d].pc = "emit_cancelled" => Withdrew(d)'
                                     /\ Withdrew(d)' => caller'[d].pc \in {"request", "write_reason", "emit_cancelled"}
                BY <2>2 DEF Requests, Withdrew
            <4>5. \A k \in running' : \E w \in Workers : InRunning(w)' /\ worker'[w].job = k
                BY <2>2 DEF Requests, InRunning
            <4> QED BY <4>1, <4>2, <4>3, <4>4, <4>5 DEF Requests
        <3>6. QueueInv'
            BY <2>2, <3>1 DEF QueueInv
        <3> QED BY <2>4, <3>3, <3>4, <3>5, <3>6
    <2>6. CASE ~InQueue(j)
        <3>1. queue' = queue /\ j \in running
            BY <2>1, <2>6 DEF Cancel, InQueue
        <3>2. \A d \in Callers, k \in JobIds : CallerHas(d, k)' <=> CallerHas(d, k)
            BY <2>2, <2>6 DEF CallerHas, Withdrew
        <3>3. QueueInv' /\ Exclusive' /\ Kept'
            BY <2>2, <2>3, <3>1, <3>2, QuietStep
        <3>4. Started(j)'
            BY <2>3, <3>1 DEF Requests, Started, WorkerHas, InRunning, HoldsJob
        <3>5. Requests'
            <4>1. \A k \in JobIds : InQueue(k)' \/ k >= next_id' => ~requested'[k]
                BY <2>2, <3>1 DEF Requests, InQueue
            <4>2. ASSUME NEW d \in Callers, caller'[d].pc = "request"
                  PROVE  IF Withdrew(d)' THEN ~requested'[caller'[d].job]
                                         ELSE Started(caller[d].job)'
                <5>1. CASE d = c
                    BY <2>2, <2>6, <3>4, <5>1 DEF Withdrew, Started, WorkerHas, HoldsJob, Ended
                <5>2. CASE d # c
                    <6>1. caller'[d] = caller[d] /\ caller[d].job \in JobIds
                        BY <2>2, <4>2, <5>2 DEF LocalsOK, HasTarget
                    <6> QED BY <2>2, <2>3, <4>2, <6>1 DEF Requests, Withdrew
                <5> QED BY <5>1, <5>2
            <4>3. \A d \in Callers : /\ caller'[d].pc = "emit_cancelled" => Withdrew(d)'
                                     /\ Withdrew(d)' => caller'[d].pc \in {"request", "write_reason", "emit_cancelled"}
                BY <2>2, <2>6 DEF Requests, Withdrew
            <4>4. \A k \in running' : \E w \in Workers : InRunning(w)' /\ worker'[w].job = k
                BY <2>2 DEF Requests, InRunning
            <4> QED BY <4>1, <4>2, <4>3, <4>4 DEF Requests
        <3> QED BY <2>4, <3>3, <3>5
    <2> QED BY <2>5, <2>6
<1>6. CASE RequestCancel(c)
    <2> DEFINE j == caller[c].job
    <2>1. /\ j \in JobIds /\ caller[c].pc = "request"
          /\ UNCHANGED <<queue, running, cancelled_jobs, next_id, shutting_down, worker, events>>
        BY <1>6 DEF RequestCancel, LocalsOK, HasTarget, poolVars, eventVars
    <2>2. \A d \in Callers : d # c => caller'[d] = caller[d]
        BY <1>6, GoCallerType, ReturnType DEF RequestCancel, CallerPc
    <2>3. \/ /\ ~Withdrew(c) /\ ~Withdrew(c)' /\ caller'[c].pc = "idle"
             /\ requested' = requested
          \/ /\ caller'[c].pc = "write_reason" /\ caller'[c].job = j
             /\ Withdrew(c)' <=> Withdrew(c)
             /\ requested' = [requested EXCEPT ![j] = TRUE]
        <3>1. CASE requested[j]
            BY <1>6, <2>1, <3>1, ReturnType DEF RequestCancel, AlreadyRequested, Requests,
               Withdrew
        <3>2. CASE ~requested[j]
            BY <1>6, <3>2, GoCallerType DEF RequestCancel, AlreadyRequested, CallerPc, Withdrew
        <3> QED BY <3>1, <3>2
    <2> HIDE DEF j
    <2>4. /\ \A v \in Workers, k \in JobIds : WorkerHas(v, k)' <=> WorkerHas(v, k)
          /\ \A d \in Callers, k \in JobIds : CallerHas(d, k)' <=> CallerHas(d, k)
          /\ \A k \in JobIds : Ended(k)' <=> Ended(k)
          /\ EndsOnce'
        BY <2>1, <2>2, <2>3 DEF WorkerHas, HoldsJob, CallerHas, Withdrew, Ended, EndsOnce, j
    <2>5. /\ QueueInv' /\ Exclusive' /\ Kept'
          /\ \A k \in JobIds : Started(k)' <=> Started(k)
        BY <2>1, <2>4, QuietStep
    <2>6. IF Withdrew(c) THEN CallerHas(c, j) ELSE Started(j)
        BY <2>1 DEF CallerHas, Requests, j
    <2>7. /\ ~InQueue(j) /\ j < next_id
          /\ \A d \in Callers : d # c => ~CallerHas(d, j)
        BY <2>1, <2>6 DEF Exclusive, Started
    <2>8. Requests'
        <3>1. ASSUME NEW k \in JobIds, InQueue(k)' \/ k >= next_id' PROVE ~requested'[k]
            <4>1. k # j
                BY <2>1, <2>7, <3>1, MaxJobsAssumption DEF InQueue, JobIds, TypeOK
            <4>2. ~requested[k]
                BY <2>1, <3>1 DEF Requests, InQueue
            <4>3. requested'[k] = requested[k]
                BY <2>1, <2>3, <4>1 DEF TypeOK
            <4> QED BY <4>2, <4>3
        <3>2. ASSUME NEW d \in Callers, caller'[d].pc = "request"
              PROVE  IF Withdrew(d)' THEN ~requested'[caller'[d].job] ELSE Started(caller[d].job)'
            <4>1. d # c /\ caller'[d] = caller[d] /\ caller[d].job \in JobIds
                BY <2>2, <2>3, <3>2 DEF LocalsOK, HasTarget
            <4>2. Withdrew(d) => caller[d].job # j
                BY <2>7, <4>1 DEF CallerHas
            <4>3. caller[d].job # j => requested'[caller[d].job] = requested[caller[d].job]
                BY <2>1, <2>3, <4>1 DEF TypeOK
            <4>4. Withdrew(d)' <=> Withdrew(d)
                BY <4>1 DEF Withdrew
            <4>5. caller[d].pc = "request"
                BY <3>2, <4>1
            <4> QED BY <2>5, <4>1, <4>2, <4>3, <4>4, <4>5 DEF Requests
        <3>3. \A d \in Callers : caller'[d].pc = "request" => caller'[d] = caller[d]
            BY <2>2, <2>3
        <3>4. \A d \in Callers : /\ caller'[d].pc = "emit_cancelled" => Withdrew(d)'
                                 /\ Withdrew(d)' => caller'[d].pc \in {"request", "write_reason", "emit_cancelled"}
            BY <2>2, <2>3 DEF Requests, Withdrew
        <3>5. \A k \in running' : \E w \in Workers : InRunning(w)' /\ worker'[w].job = k
            BY <2>1 DEF Requests, InRunning
        <3> QED BY <3>1, <3>2, <3>3, <3>4, <3>5 DEF Requests
    <2> QED BY <2>4, <2>5, <2>8
<1>7. CASE EmitCancelled(c) \/ (EmitDrained(c) /\ cancelled_jobs # <<>>)
    <2> DEFINE j == IF EmitCancelled(c) THEN caller[c].job ELSE Head(cancelled_jobs)
    <2>1. /\ j \in JobIds /\ Emit(j, "cancelled")
          /\ IF EmitCancelled(c) THEN CallerHas(c, j) ELSE InDrained(j)
          /\ UNCHANGED <<queue, running, next_id, shutting_down, requested, worker>>
        <3>1. CASE EmitCancelled(c)
            BY <3>1 DEF EmitCancelled, EmitReason, LocalsOK, HasTarget, CallerHas, Requests,
               poolVars, jobVars
        <3>2. CASE ~EmitCancelled(c)
            BY <1>7, <3>2, TailQueue DEF EmitDrained, EmitReason, QueueInv, TypeOK, InDrained,
               poolVars, jobVars
        <3> QED BY <3>1, <3>2
    <2>2. /\ \A k \in JobIds : InDrained(k)' <=> InDrained(k) /\ (EmitCancelled(c) \/ k # j)
          /\ Increasing(cancelled_jobs')
          /\ cancelled_jobs = <<>> => cancelled_jobs' = <<>>
        <3>1. CASE EmitCancelled(c)
            BY <3>1 DEF EmitCancelled, QueueInv, InDrained
        <3>2. CASE ~EmitCancelled(c)
            <4>1. cancelled_jobs # <<>> /\ cancelled_jobs' = Tail(cancelled_jobs)
                BY <1>7, <3>2 DEF EmitDrained
            <4>2. /\ Increasing(Tail(cancelled_jobs))
                  /\ \A k : (\E i \in DOMAIN Tail(cancelled_jobs) : Tail(cancelled_jobs)[i] = k)
                              <=> (\E i \in DOMAIN cancelled_jobs : cancelled_jobs[i] = k)
                                     /\ k # Head(cancelled_jobs)
                BY <4>1, TailQueue DEF QueueInv, TypeOK
            <4> QED BY <3>2, <4>1, <4>2 DEF InDrained
        <3> QED BY <3>1, <3>2
    <2>3. /\ \A d \in Callers, k \in JobIds :
               CallerHas(d, k)' <=> CallerHas(d, k) /\ ~(EmitCancelled(c) /\ d = c)
          /\ \A d \in Callers : d # c => caller'[d] = caller[d]
          /\ caller'[c].pc \in {"idle", "emit_drained"} /\ ~Withdrew(c)'
        <3>1. CASE EmitCancelled(c)
            BY <3>1, ReturnType DEF EmitCancelled, CallerHas, Withdrew
        <3>2. CASE ~EmitCancelled(c)
            BY <1>7, <3>2 DEF EmitDrained, CallerHas, Withdrew, Requests
        <3> QED BY <3>1, <3>2
    <2>4. \A k \in JobIds : EmitCancelled(c) /\ CallerHas(c, k) => k = j
        BY DEF CallerHas
    <2> HIDE DEF j
    <2>5. EndsOnce' /\ \A k \in JobIds : Ended(k)' <=> Ended(k) \/ k = j
        BY <2>1, EmitEnds DEF Exclusive, Statuses, Terminal
    <2>6. /\ \A v \in Workers, k \in JobIds : WorkerHas(v, k)' <=> WorkerHas(v, k)
          /\ \A k \in JobIds : InQueue(k)' <=> InQueue(k)
        BY <2>1 DEF WorkerHas, HoldsJob, InQueue
    <2>7. Exclusive'
        BY <2>1, <2>2, <2>3, <2>4, <2>5, <2>6 DEF Exclusive
    <2>8. Kept'
        BY <2>1, <2>2, <2>3, <2>4, <2>5, <2>6 DEF Kept
    <2>9. Requests'
        <3>1. \A k \in JobIds : Started(k) => Started(k)'
            BY <2>5, <2>6 DEF Started
        <3>2. \A k \in JobIds : InQueue(k)' \/ k >= next_id' => ~requested'[k]
            BY <2>1, <2>6 DEF Requests
        <3>3. ASSUME NEW d \in Callers, caller'[d].pc = "request"
              PROVE  IF Withdrew(d)' THEN ~requested'[caller'[d].job] ELSE Started(caller[d].job)'
            <4>1. d # c /\ caller'[d] = caller[d] /\ caller[d].job \in JobIds
                BY <2>3, <3>3 DEF LocalsOK, HasTarget
            <4> QED BY <2>1, <3>1, <3>3, <4>1 DEF Requests, Withdrew
        <3>4. \A d \in Callers : caller'[d].pc = "request" => caller'[d] = caller[d]
            BY <2>3
        <3>5. \A d \in Callers : /\ caller'[d].pc = "emit_cancelled" => Withdrew(d)'
                                 /\ Withdrew(d)' => caller'[d].pc \in {"request", "write_reason", "emit_cancelled"}
            BY <2>3 DEF Requests, Withdrew
        <3>6. \A k \in running' : \E w \in Workers : InRunning(w)' /\ worker'[w].job = k
            BY <2>1 DEF Requests, InRunning
        <3> QED BY <3>2, <3>3, <3>4, <3>5, <3>6 DEF Requests
    <2>10. QueueInv'
        BY <2>1, <2>2 DEF QueueInv
    <2> QED BY <2>5, <2>7, <2>8, <2>9, <2>10
<1>8. CASE Shutdown(c)
    <2>1. /\ ~shutting_down /\ shutting_down' = TRUE /\ cancelled_jobs = <<>>
          /\ cancelled_jobs' = queue /\ queue' = <<>>
          /\ UNCHANGED <<running, next_id, worker, events>>
          /\ \A k \in JobIds : requested'[k] <=> requested[k] \/ InQueue(k) \/ k \in running
        BY <1>8 DEF Shutdown, Stopped, QueueInv, TypeOK, eventVars
    <2>2. /\ \A d \in Callers : d # c => caller'[d] = caller[d]
          /\ caller'[c].pc = "notify_all" /\ ~Withdrew(c)' /\ ~Withdrew(c)
        BY <1>8, GoCallerType DEF Shutdown, CallerPc, Requests, Withdrew
    <2>3. /\ \A v \in Workers, k \in JobIds : WorkerHas(v, k)' <=> WorkerHas(v, k)
          /\ \A d \in Callers, k \in JobIds : CallerHas(d, k)' <=> CallerHas(d, k)
          /\ \A k \in JobIds : Ended(k)' <=> Ended(k)
          /\ \A k \in JobIds : InDrained(k)' <=> InQueue(k)
          /\ \A k \in JobIds : ~InQueue(k)' /\ ~InDrained(k)
        BY <2>1, <2>2 DEF WorkerHas, HoldsJob, CallerHas, Withdrew, Ended, InDrained, InQueue
    <2>4. Exclusive'
        BY <2>1, <2>3 DEF Exclusive
    <2>5. Kept'
        BY <2>1, <2>3 DEF Kept
    <2>6. Requests'
        <3>1. \A k \in JobIds : Started(k)' <=> Started(k)
            BY <2>3 DEF Started
        <3>2. \A k \in running : \E w \in Workers : WorkerHas(w, k)
            BY DEF Requests, WorkerHas, InRunning, HoldsJob
        <3>3. ASSUME NEW k \in JobIds, InQueue(k)' \/ k >= next_id' PROVE ~requested'[k]
            <4>1. k >= next_id /\ ~(k < next_id)
                BY <2>1, <2>3, <3>3, MaxJobsAssumption DEF JobIds, TypeOK
            <4> QED BY <2>1, <3>2, <4>1 DEF Requests, Exclusive
        <3>4. ASSUME NEW d \in Callers, caller'[d].pc = "request"
              PROVE  IF Withdrew(d)' THEN ~requested'[caller'[d].job] ELSE Started(caller[d].job)'
            <4>1. d # c /\ caller'[d] = caller[d] /\ caller[d].job \in JobIds
                BY <2>2, <3>4 DEF LocalsOK, HasTarget
            <4>2. Withdrew(d) => CallerHas(d, caller[d].job)
                BY DEF CallerHas
            <4>3. Withdrew(d) => ~InQueue(caller[d].job) /\ caller[d].job \notin running
                BY <3>2, <4>1, <4>2 DEF Exclusive
            <4> QED BY <2>1, <3>1, <3>4, <4>1, <4>3 DEF Requests, Withdrew
        <3>5. \A d \in Callers : caller'[d].pc = "request" => caller'[d] = caller[d]
            BY <2>2
        <3>6. \A d \in Callers : /\ caller'[d].pc = "emit_cancelled" => Withdrew(d)'
                                 /\ Withdrew(d)' => caller'[d].pc \in {"request", "write_reason", "emit_cancelled"}
            BY <2>2 DEF Requests, Withdrew
        <3>7. \A k \in running' : \E w \in Workers : InRunning(w)' /\ worker'[w].job = k
            BY <2>1 DEF Requests, InRunning
        <3> QED BY <3>3, <3>4, <3>5, <3>6, <3>7 DEF Requests
    <2>7. QueueInv' /\ EndsOnce'
        BY <2>1 DEF QueueInv, Increasing, EndsOnce
    <2> QED BY <2>4, <2>5, <2>6, <2>7
<1> QED BY <1>1, <1>2, <1>3, <1>4, <1>5, <1>6, <1>7, <1>8 DEF CallerStep

(* OwnerInv is inductive.                                                  *)
LEMMA OwnerNext == OwnerInv /\ [Next]_vars => OwnerInv'
<1> SUFFICES ASSUME OwnerInv, [Next]_vars PROVE OwnerInv'
    OBVIOUS
<1>1. TypeInv'
    BY TypeNext DEF OwnerInv
<1>2. ASSUME NEW c \in Callers, CallerStep(c) PROVE OwnerInv'
    BY <1>1, <1>2, OwnerCallerStep
<1>3. ASSUME NEW w \in Workers, WorkerStep(w) PROVE OwnerInv'
    BY <1>1, <1>3, OwnerWorkerStep
<1>4. ASSUME UNCHANGED vars PROVE OwnerInv'
    <2>1. /\ UNCHANGED <<queue, running, cancelled_jobs, next_id, shutting_down, requested,
                         worker, caller, events>>
        BY <1>4 DEF vars
    <2>2. EndsOnce' /\ \A k \in JobIds : Ended(k)' <=> Ended(k)
        BY <2>1 DEF EndsOnce, Ended, OwnerInv
    <2>3. \A v \in Workers, k \in JobIds : WorkerHas(v, k)' <=> WorkerHas(v, k)
        BY <2>1 DEF WorkerHas, HoldsJob
    <2>4. \A j \in running' : \E v \in Workers : InRunning(v)' /\ worker'[v].job = j
        BY <2>1 DEF OwnerInv, Requests, InRunning
    <2> QED BY <1>1, <2>1, <2>2, <2>3, <2>4, WorkerQuietStep
<1> QED BY <1>2, <1>3, <1>4 DEF Next

(* A job's claims are exactly its owners, and no owner holds it twice.     *)
LEMMA OwnerIsOne == OwnerInv => OneOwner
<1> SUFFICES ASSUME OwnerInv, NEW j \in JobIds
             PROVE  IF j < next_id THEN \E a \in Claims(j) : Claims(j) = {a}
                                   ELSE Claims(j) = {}
    BY DEF OneOwner
<1> DEFINE QueuedAt == {<<"queue", i>> : i \in {i \in DOMAIN queue : queue[i] = j}}
           HeldBy == {<<"worker", w>> : w \in {w \in Workers : HoldsJob(w) /\ worker[w].job = j}}
           WithdrawnBy == {<<"caller", c>> : c \in {c \in Callers : Withdrew(c) /\ caller[c].job = j}}
           DrainedAt == {<<"shutdown", i>> : i \in {i \in DOMAIN cancelled_jobs : cancelled_jobs[i] = j}}
           EndedAt == {<<"ended", i>> : i \in {i \in DOMAIN events[j] : events[j][i] \in Terminal}}
<1>1. Claims(j) = QueuedAt \union HeldBy \union WithdrawnBy \union DrainedAt \union EndedAt
    BY DEF Claims
<1>2. /\ InQueue(j) <=> QueuedAt # {}
      /\ InDrained(j) <=> DrainedAt # {}
      /\ Ended(j) <=> EndedAt # {}
      /\ (\E w \in Workers : WorkerHas(w, j)) <=> HeldBy # {}
      /\ (\E c \in Callers : CallerHas(c, j)) <=> WithdrawnBy # {}
    <2>1. InQueue(j) <=> QueuedAt # {}
        BY DEF InQueue
    <2>2. InDrained(j) <=> DrainedAt # {}
        BY DEF InDrained
    <2>3. Ended(j) <=> EndedAt # {}
        BY DEF Ended
    <2>4. (\E w \in Workers : WorkerHas(w, j)) <=> HeldBy # {}
        BY DEF WorkerHas
    <2>5. (\E c \in Callers : CallerHas(c, j)) <=> WithdrawnBy # {}
        BY DEF CallerHas
    <2> QED BY <2>1, <2>2, <2>3, <2>4, <2>5
<1>3. /\ \A a, b \in QueuedAt : a = b
      /\ \A a, b \in DrainedAt : a = b
      /\ \A a, b \in EndedAt : a = b
      /\ \A a, b \in HeldBy : a = b
      /\ \A a, b \in WithdrawnBy : a = b
    <2>1. \A a, b \in QueuedAt : a = b
        <3>1. queue \in Seq(JobIds) /\ Increasing(queue) /\ DOMAIN queue = 1 .. Len(queue)
            BY DEF OwnerInv, QueueInv, TypeInv, TypeOK, Increasing
        <3>2. \A i, k \in DOMAIN queue : queue[i] = j /\ queue[k] = j => i = k
            BY <3>1, IncreasingInjective
        <3> QED BY <3>2
    <2>2. \A a, b \in DrainedAt : a = b
        <3>1. cancelled_jobs \in Seq(JobIds) /\ Increasing(cancelled_jobs) /\ DOMAIN cancelled_jobs = 1 .. Len(cancelled_jobs)
            BY DEF OwnerInv, QueueInv, TypeInv, TypeOK, Increasing
        <3>2. \A i, k \in DOMAIN cancelled_jobs : cancelled_jobs[i] = j /\ cancelled_jobs[k] = j => i = k
            BY <3>1, IncreasingInjective
        <3> QED BY <3>2
    <2>3. \A a, b \in EndedAt : a = b
        BY DEF OwnerInv, EndsOnce
    <2>4. \A a, b \in HeldBy : a = b
        BY DEF OwnerInv, Exclusive, WorkerHas
    <2>5. \A a, b \in WithdrawnBy : a = b
        BY DEF OwnerInv, Exclusive, CallerHas
    <2> QED BY <2>1, <2>2, <2>3, <2>4, <2>5
<1> HIDE DEF QueuedAt, HeldBy, WithdrawnBy, DrainedAt, EndedAt
<1>4. /\ InQueue(j) => j < next_id /\ ~InDrained(j) /\ ~Ended(j)
      /\ InDrained(j) => j < next_id /\ ~Ended(j)
      /\ Ended(j) => j < next_id
      /\ (\E w \in Workers : WorkerHas(w, j)) =>
            j < next_id /\ ~InQueue(j) /\ ~InDrained(j) /\ ~Ended(j)
      /\ (\E c \in Callers : CallerHas(c, j)) =>
            /\ j < next_id /\ ~InQueue(j) /\ ~InDrained(j) /\ ~Ended(j)
            /\ ~\E w \in Workers : WorkerHas(w, j)
    BY DEF OwnerInv, Exclusive
<1>5. CASE j < next_id
    <2>1. Claims(j) # {}
        BY <1>1, <1>2, <1>5 DEF OwnerInv, Kept
    <2>2. \A a, b \in Claims(j) : a = b
        BY <1>1, <1>2, <1>3, <1>4
    <2> QED BY <1>5, <2>1, <2>2
<1>6. CASE ~(j < next_id)
    BY <1>1, <1>2, <1>4, <1>6
<1> QED BY <1>5, <1>6

(* For every number of workers, callers, texts and jobs, an accepted job   *)
(* has exactly one owner or exactly one terminal event: enqueue,           *)
(* worker_loop, cancel and shutdown hand it over without losing it and     *)
(* without ending it twice.                                                *)
THEOREM OneOwnerCorrect == Spec => []OneOwner
<1>1. Init => OwnerInv
    BY OwnerInit
<1>2. OwnerInv /\ [Next]_vars => OwnerInv'
    BY OwnerNext
<1>3. OwnerInv => OneOwner
    BY OwnerIsOne
<1> QED BY <1>1, <1>2, <1>3, PTL DEF Spec

-----------------------------------------------------------------------------
(* What cancel and shutdown do to the reasons and the stop flags           *)

Writing(c) == caller[c].pc = "write_reason"

(* A reason is only there once the request was made; between the two the   *)
(* one thread that made it is on its way to write it.                      *)
ReasonInv ==
    /\ \A j \in JobIds : reason[j] # NoReason => requested[j]
    /\ \A c \in Callers : Writing(c) =>
         requested[caller[c].job] /\ reason[caller[c].job] = NoReason
    /\ \A c, d \in Callers : Writing(c) /\ Writing(d) /\ c # d => caller[c].job # caller[d].job

FirstReasonStep == \A j \in JobIds : reason[j] # NoReason => reason'[j] = reason[j]

(* No reason is written, and no caller is writing one, at the start.       *)
LEMMA ReasonInit == Init => ReasonInv
<1> SUFFICES ASSUME Init PROVE ReasonInv
    OBVIOUS
<1> QED BY DEF Init, ReasonInv, Writing, IdleCaller

(* A step that leaves the flags and reasons alone and takes no thread to   *)
(* write_reason.                                                           *)
LEMMA ReasonQuietStep ==
    ASSUME ReasonInv, UNCHANGED <<requested, reason>>,
           \A c \in Callers : Writing(c)' => Writing(c) /\ caller'[c].job = caller[c].job
    PROVE  ReasonInv' /\ FirstReasonStep
BY DEF ReasonInv, FirstReasonStep

(* The step of one caller c: the others stay where they are.               *)
LEMMA OthersStay ==
    ASSUME TypeInv, NEW c \in Callers, NEW v, caller' = [caller EXCEPT ![c] = v],
           NEW d \in Callers
    PROVE  caller'[d] = IF d = c THEN v ELSE caller[d]
BY DEF TypeInv, TypeOK

(* A caller's step keeps ReasonInv and overwrites no reason.               *)
LEMMA ReasonCallerStep ==
    ASSUME TypeInv, ReasonInv, NEW c \in Callers, CallerStep(c)
    PROVE  ReasonInv' /\ FirstReasonStep
<1>1. CASE Enqueue(c)
    BY <1>1, OthersStay, ReasonQuietStep DEF Enqueue, Call, jobVars, Writing
<1>2. CASE EmitQueued(c)
    BY <1>2, OthersStay, ReasonQuietStep DEF EmitQueued, GoCaller, jobVars, Writing
<1>3. CASE NotifyOne(c)
    BY <1>3, OthersStay, ReasonQuietStep DEF NotifyOne, Return, IdleCaller, jobVars, Writing
<1>4. CASE \E j \in JobIds, text \in Texts : Cancel(c, j, text)
    BY <1>4, OthersStay, ReasonQuietStep DEF Cancel, Call, jobVars, Writing
<1>5. CASE RequestCancel(c)
    <2> DEFINE j == caller[c].job
    <2>0. j \in JobIds
        BY <1>5 DEF RequestCancel, TypeInv, LocalsOK, HasTarget
    <2>1. CASE requested[j]
        BY <1>5, <2>1, OthersStay, ReasonQuietStep
           DEF RequestCancel, AlreadyRequested, Return, IdleCaller, Writing
    <2>2. CASE ~requested[j]
        <3>1. /\ requested' = [requested EXCEPT ![j] = TRUE]
              /\ caller' = [caller EXCEPT ![c].pc = "write_reason"]
              /\ UNCHANGED reason
              /\ caller[c].pc = "request"
            BY <1>5, <2>2 DEF RequestCancel, AlreadyRequested, GoCaller
        <3>2. /\ requested'[j]
              /\ \A k \in JobIds : requested[k] => requested'[k]
            BY <2>0, <3>1 DEF TypeInv, TypeOK
        <3>3. /\ caller'[c].job = j
              /\ \A d \in Callers : d # c => caller'[d] = caller[d]
            BY <3>1 DEF TypeInv, TypeOK, CallerLocals
        <3>4. \A d \in Callers : Writing(d) => caller[d].job \in JobIds
            BY DEF TypeInv, LocalsOK, HasTarget, Writing
        <3>5. reason[j] = NoReason
            BY <2>0, <2>2 DEF ReasonInv
        <3>6. \A d \in Callers : Writing(d) => caller[d].job # j
            BY <2>2 DEF ReasonInv
        <3>7. \A d \in Callers : Writing(d)' => d = c \/ Writing(d)
            BY <3>3 DEF Writing
        <3> HIDE DEF j
        <3>8. ReasonInv'
            <4>1. \A k \in JobIds : reason'[k] # NoReason => requested'[k]
                BY <3>1, <3>2 DEF ReasonInv
            <4>2. \A d \in Callers : Writing(d)' =>
                    requested'[caller'[d].job] /\ reason'[caller'[d].job] = NoReason
                BY <3>1, <3>2, <3>3, <3>4, <3>5, <3>7 DEF ReasonInv
            <4>3. \A d, e \in Callers : Writing(d)' /\ Writing(e)' /\ d # e =>
                    caller'[d].job # caller'[e].job
                BY <3>3, <3>6, <3>7 DEF ReasonInv
            <4> QED BY <4>1, <4>2, <4>3 DEF ReasonInv, Writing
        <3> QED BY <3>1, <3>8 DEF FirstReasonStep
    <2> QED BY <2>1, <2>2
<1>6. CASE WriteReason(c)
    <2> DEFINE j == caller[c].job
    <2>0. j \in JobIds /\ Writing(c)
        BY <1>6 DEF WriteReason, TypeInv, LocalsOK, HasTarget, Writing
    <2>1. /\ UNCHANGED requested
          /\ \A k \in JobIds : k # j => reason'[k] = reason[k]
        BY <1>6, <2>0 DEF WriteReason, TypeInv, TypeOK
    <2>2. /\ ~Writing(c)'
          /\ \A d \in Callers : d # c => caller'[d] = caller[d]
        BY <1>6 DEF WriteReason, GoCaller, Return, IdleCaller, Writing, TypeInv, TypeOK,
           CallerLocals
    <2>3. \A d \in Callers : Writing(d)' => /\ d # c /\ Writing(d)
                                           /\ caller[d].job # j
                                           /\ caller[d].job \in JobIds
        BY <2>0, <2>2 DEF Writing, ReasonInv, TypeInv, LocalsOK, HasTarget
    <2>4. requested[j] /\ reason[j] = NoReason
        BY <2>0 DEF ReasonInv
    <2> HIDE DEF j
    <2>5. \A k \in JobIds : reason'[k] # NoReason => requested'[k]
        BY <2>1, <2>4 DEF ReasonInv
    <2>6. \A d \in Callers : Writing(d)' =>
            requested'[caller'[d].job] /\ reason'[caller'[d].job] = NoReason
        BY <2>1, <2>2, <2>3 DEF ReasonInv
    <2>7. \A d, e \in Callers : Writing(d)' /\ Writing(e)' /\ d # e =>
            caller'[d].job # caller'[e].job
        BY <2>2, <2>3 DEF ReasonInv
    <2> QED BY <2>1, <2>4, <2>5, <2>6, <2>7 DEF ReasonInv, FirstReasonStep, Writing
<1>7. CASE EmitCancelled(c)
    BY <1>7, OthersStay, ReasonQuietStep DEF EmitCancelled, Return, IdleCaller, jobVars, Writing
<1>8. CASE Shutdown(c)
    <2>1. \A k \in JobIds :
            /\ requested'[k] = (requested[k] \/ Stopped(k))
            /\ reason'[k] = IF Stopped(k) THEN ShutdownReason ELSE reason[k]
        BY <1>8 DEF Shutdown
    <2>2. \A d \in Callers : Writing(d)' => /\ Writing(d) /\ caller'[d].job = caller[d].job
                                           /\ caller[d].job \in JobIds
        BY <1>8 DEF Shutdown, GoCaller, Writing, TypeInv, TypeOK, CallerLocals, LocalsOK,
           HasTarget
    <2>3. \A k \in JobIds : Stopped(k) => ~requested[k]
        BY DEF Stopped
    <2>4. \A k \in JobIds : reason[k] # NoReason => reason'[k] = reason[k]
        BY <2>1, <2>3 DEF ReasonInv
    <2>5. \A k \in JobIds : reason'[k] # NoReason => requested'[k]
        BY <2>1 DEF ReasonInv
    <2>6. \A d \in Callers : Writing(d)' =>
            requested'[caller'[d].job] /\ reason'[caller'[d].job] = NoReason
        BY <2>1, <2>2, <2>3 DEF ReasonInv
    <2>7. \A d, e \in Callers : Writing(d)' /\ Writing(e)' /\ d # e =>
            caller'[d].job # caller'[e].job
        BY <2>2 DEF ReasonInv
    <2> QED BY <2>4, <2>5, <2>6, <2>7 DEF ReasonInv, FirstReasonStep, Writing
<1>9. CASE NotifyAll(c)
    BY <1>9, OthersStay, ReasonQuietStep DEF NotifyAll, GoCaller, jobVars, Writing
<1>10. CASE Join(c)
    BY <1>10, OthersStay, ReasonQuietStep DEF Join, GoCaller, jobVars, Writing
<1>11. CASE EmitDrained(c)
    <2>1. UNCHANGED <<requested, reason>> /\ (Return(c) \/ UNCHANGED caller)
        BY <1>11 DEF EmitDrained, jobVars
    <2>2. CASE Return(c)
        BY <2>1, <2>2, OthersStay, ReasonQuietStep DEF Return, IdleCaller, Writing
    <2>3. CASE UNCHANGED caller
        BY <2>1, <2>3, ReasonQuietStep DEF Writing
    <2> QED BY <2>1, <2>2, <2>3
<1> QED
    BY <1>1, <1>2, <1>3, <1>4, <1>5, <1>6, <1>7, <1>8, <1>9, <1>10, <1>11 DEF CallerStep

(* Workers read the flags and reasons and leave the callers alone.         *)
LEMMA ReasonWorkerStep ==
    ASSUME ReasonInv, NEW w \in Workers, WorkerStep(w)
    PROVE  ReasonInv' /\ FirstReasonStep
<1>1. UNCHANGED <<requested, reason, caller>>
    BY DEF WorkerStep, Block, WakeSpuriously, Exit, Take, EmitRunning, Process, Erase,
           CheckRequested, ReadReasonStep, EmitWorkerCancelled, EmitResult, jobVars
<1> QED BY <1>1, ReasonQuietStep DEF Writing

(* ReasonInv is inductive, and no step overwrites a reason.                *)
LEMMA ReasonNext == TypeInv /\ ReasonInv /\ [Next]_vars => ReasonInv' /\ FirstReasonStep
<1> SUFFICES ASSUME TypeInv, ReasonInv, [Next]_vars PROVE ReasonInv' /\ FirstReasonStep
    OBVIOUS
<1>1. ASSUME NEW c \in Callers, CallerStep(c) PROVE ReasonInv' /\ FirstReasonStep
    BY <1>1, ReasonCallerStep
<1>2. ASSUME NEW w \in Workers, WorkerStep(w) PROVE ReasonInv' /\ FirstReasonStep
    BY <1>2, ReasonWorkerStep
<1>3. CASE UNCHANGED vars
    BY <1>3, ReasonQuietStep DEF vars, jobVars, Writing
<1> QED BY <1>1, <1>2, <1>3 DEF Next

(* The reason of the one successful request is final, for any number of    *)
(* callers that cancel the same job and a shutdown at any moment, although *)
(* request_cancel sets the flag and writes the reason in two steps.        *)
THEOREM FirstReasonCorrect == Spec => FirstReasonStays
<1>1. Init => TypeInv /\ ReasonInv
    BY TypeInit, ReasonInit
<1>2. TypeInv /\ ReasonInv /\ [Next]_vars => TypeInv' /\ ReasonInv' /\ FirstReasonStep
    BY TypeNext, ReasonNext
<1>3. FirstReasonStep => [FirstReasonStep]_vars
    OBVIOUS
<1>4. FirstReasonStays <=> [][FirstReasonStep]_vars
    BY PTL DEF FirstReasonStays, FirstReasonStep
<1> QED BY <1>1, <1>2, <1>3, <1>4, PTL DEF Spec

-----------------------------------------------------------------------------
(* shutdown reaches every job that runs                                    *)

(* A job in processor_ is in running_, where shutdown finds it, and its    *)
(* flag is set once the pool is closed.                                    *)
StopInv ==
    /\ \A w \in Workers : InRunning(w) => worker[w].job \in running
    /\ shutting_down => \A w \in Workers : InRunning(w) => requested[worker[w].job]

(* Steps that take nothing out of running_, take no flag back, close       *)
(* nothing and start nothing.                                              *)
LEMMA StopQuietStep ==
    ASSUME StopInv, TypeInv, UNCHANGED <<running, shutting_down>>,
           \A j \in JobIds : requested[j] => requested'[j],
           \A w \in Workers : InRunning(w)' => InRunning(w) /\ worker'[w].job = worker[w].job
    PROVE  StopInv'
<1>1. \A w \in Workers : InRunning(w) => worker[w].job \in JobIds
    BY DEF TypeInv, LocalsOK, InRunning, HoldsJob
<1> QED BY <1>1 DEF StopInv

(* A caller's step keeps StopInv: shutdown asks every job in running_.     *)
LEMMA StopCallerStep ==
    ASSUME OwnerInv, StopInv, NEW c \in Callers, CallerStep(c)
    PROVE  StopInv'
<1> TypeInv
    BY DEF OwnerInv
<1>1. CASE Shutdown(c)
    <2>1. UNCHANGED <<running, worker>>
        BY <1>1 DEF Shutdown
    <2>2. \A j \in running : requested'[j]
        BY <1>1 DEF Shutdown, Stopped, TypeInv, TypeOK
    <2> QED BY <2>1, <2>2 DEF StopInv, InRunning
<1>2. CASE NotifyOne(c)
    <2>1. \A w \in Workers : worker'[w] = worker[w] \/ worker'[w].pc = "poll"
        BY <1>2 DEF NotifyOne, GoWorker, TypeInv, TypeOK, WorkerLocals
    <2>2. UNCHANGED <<running, shutting_down, requested>>
        BY <1>2 DEF NotifyOne, poolVars, jobVars
    <2> QED BY <2>1, <2>2, StopQuietStep DEF InRunning
<1>3. CASE NotifyAll(c)
    <2>1. \A w \in Workers : worker'[w] = worker[w] \/ worker'[w].pc = "poll"
        BY <1>3 DEF NotifyAll, TypeInv, TypeOK, WorkerLocals
    <2>2. UNCHANGED <<running, shutting_down, requested>>
        BY <1>3 DEF NotifyAll, poolVars, jobVars
    <2> QED BY <2>1, <2>2, StopQuietStep DEF InRunning
<1>4. CASE RequestCancel(c)
    <2>1. \A j \in JobIds : requested[j] => requested'[j]
        BY <1>4 DEF RequestCancel, TypeInv, TypeOK
    <2> QED BY <1>4, <2>1, StopQuietStep DEF RequestCancel, poolVars, InRunning
<1>5. ASSUME ~Shutdown(c), ~NotifyOne(c), ~NotifyAll(c), ~RequestCancel(c)
      PROVE  UNCHANGED <<running, shutting_down, requested, worker>>
    BY <1>5 DEF CallerStep, Enqueue, EmitQueued, Cancel, WriteReason, EmitCancelled, Join,
                EmitDrained, poolVars, jobVars
<1> QED BY <1>1, <1>2, <1>3, <1>4, <1>5, StopQuietStep DEF InRunning

(* A worker's step keeps StopInv: Take enters running_, Erase leaves it.   *)
LEMMA StopWorkerStep ==
    ASSUME OwnerInv, StopInv, NEW w \in Workers, WorkerStep(w)
    PROVE  StopInv'
<1> TypeInv
    BY DEF OwnerInv
<1>1. UNCHANGED <<requested, shutting_down>>
    BY DEF WorkerStep, Block, WakeSpuriously, Exit, Take, EmitRunning, Process, Erase,
           CheckRequested, ReadReasonStep, EmitWorkerCancelled, EmitResult, jobVars, poolVars
<1>2. \A v \in Workers : v # w => worker'[v] = worker[v]
    BY DEF WorkerStep, Block, WakeSpuriously, Exit, Take, EmitRunning, Process, Erase,
           CheckRequested, ReadReasonStep, EmitWorkerCancelled, EmitResult, GoWorker,
           TypeInv, TypeOK
<1>3. CASE Take(w)
    <2>1. ~shutting_down
        BY <1>3 DEF Take, OwnerInv, QueueInv
    <2>2. running' = running \union {Head(queue)} /\ worker'[w].job = Head(queue)
        BY <1>3 DEF Take, TakenId, TypeInv, TypeOK
    <2> QED BY <1>1, <1>2, <2>1, <2>2 DEF StopInv, InRunning
<1>4. CASE Erase(w)
    <2>1. InRunning(w) /\ ~InRunning(w)' /\ running' = running \ {worker[w].job}
        BY <1>4 DEF Erase, GoWorker, InRunning, TypeInv, TypeOK, WorkerLocals
    <2>2. \A v \in Workers : v # w /\ InRunning(v) => worker[v].job # worker[w].job
        <3>1. worker[w].job \in JobIds /\ HoldsJob(w)
            BY <2>1 DEF TypeInv, LocalsOK, InRunning, HoldsJob
        <3>2. \A v \in Workers : InRunning(v) => HoldsJob(v)
            BY DEF InRunning, HoldsJob
        <3> QED BY <3>1, <3>2 DEF OwnerInv, Exclusive, WorkerHas
    <2> QED BY <1>1, <1>2, <2>1, <2>2 DEF StopInv, InRunning
<1>5. CASE EmitRunning(w) \/ Process(w)
    <2>1. InRunning(w) /\ worker'[w].job = worker[w].job /\ UNCHANGED running
        BY <1>5 DEF EmitRunning, Process, GoWorker, InRunning, poolVars, TypeInv, TypeOK,
           WorkerLocals
    <2> QED BY <1>1, <1>2, <2>1, StopQuietStep DEF InRunning
<1>6. ASSUME ~Take(w), ~Erase(w), ~(EmitRunning(w) \/ Process(w))
      PROVE  UNCHANGED running /\ ~InRunning(w)'
    <2>1. CASE Block(w) \/ WakeSpuriously(w) \/ Exit(w) \/ CheckRequested(w)
        BY <2>1 DEF Block, WakeSpuriously, Exit, CheckRequested, GoWorker, InRunning, poolVars,
                    TypeInv, TypeOK, WorkerLocals
    <2>2. CASE ReadReasonStep(w)
        BY <2>2 DEF ReadReasonStep, InRunning, poolVars, TypeInv, TypeOK, WorkerLocals
    <2>3. CASE EmitWorkerCancelled(w) \/ EmitResult(w)
        BY <2>3 DEF EmitWorkerCancelled, EmitResult, FreshWorker, InRunning, poolVars,
                    TypeInv, TypeOK
    <2> QED BY <1>6, <2>1, <2>2, <2>3 DEF WorkerStep
<1> QED BY <1>1, <1>2, <1>3, <1>4, <1>5, <1>6, StopQuietStep DEF InRunning

(* StopInv is inductive relative to OwnerInv.                              *)
LEMMA StopNext == OwnerInv /\ StopInv /\ [Next]_vars => StopInv'
<1> SUFFICES ASSUME OwnerInv, StopInv, [Next]_vars PROVE StopInv'
    OBVIOUS
<1>1. CASE UNCHANGED vars
    BY <1>1 DEF vars, StopInv, InRunning
<1> QED BY <1>1, StopCallerStep, StopWorkerStep DEF Next

(* Once the pool is closed nothing is queued and every job still in        *)
(* processor_ has its stop flag set, whatever was taken, erased and        *)
(* cancelled around the critical section of shutdown.                      *)
THEOREM StopReachesCorrect == Spec => []StopReachesEveryJob
<1>1. Init => OwnerInv /\ StopInv
    <2>1. Init => StopInv
        BY DEF Init, StopInv, InRunning, FreshWorker
    <2> QED BY <2>1, OwnerInit
<1>2. OwnerInv /\ StopInv /\ [Next]_vars => OwnerInv' /\ StopInv'
    BY OwnerNext, StopNext
<1>3. OwnerInv /\ StopInv => StopReachesEveryJob
    BY DEF OwnerInv, QueueInv, StopInv, StopReachesEveryJob
<1> QED BY <1>1, <1>2, <1>3, PTL DEF Spec

=============================================================================
