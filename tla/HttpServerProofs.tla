-------------------------- MODULE HttpServerProofs --------------------------
(* Proofs about HttpServer, for any finite set of POSTs: that it leaves    *)
(* JobRunner its own steps, what becomes of an upload, and that an entry   *)
(* is true of its job.                                                     *)
EXTENDS HttpServer, JobRunnerProofs

-----------------------------------------------------------------------------
(* The inductive invariant: the handlers                                   *)

(* The variables of the server.                                            *)
RegistryOK ==
    /\ post \in [Posts -> {"idle", "submit", "submitting", "accepted", "refused", "unsaved"}]
    /\ uploads \in SUBSET Posts
    /\ registry \in [Posts -> Events \union {None}]
    /\ removing \in SUBSET (ServerThreads \X Posts)
    /\ deleter \in [Posts -> {"idle", "cancel", "conflict", "accepted"}]
    /\ view \in [Posts -> Events \union {None}]

(* A POST has an entry, of which a client may know, only when it is        *)
(* accepted.                                                               *)
EntryInv ==
    \A p \in Posts : registry[p] # None \/ view[p] # None => post[p] = "accepted"

ClearedInv == RegistryOK /\ EntryInv /\ UploadCleared

(* How far a POST is, and its call of submit.                              *)
PostInv ==
    \A p \in Posts :
        /\ post[p] \in {"idle", "submit", "unsaved"} <=> submit[p].pc = "idle"
        /\ post[p] = "refused" => submit[p].pc = "rejected"
        /\ post[p] = "accepted" => submit[p].pc = "returned"

-----------------------------------------------------------------------------
(* The inductive invariant: the job                                        *)

(* The job was withdrawn, or told to stop.                                 *)
Cancelling(p) ==
    /\ HasJob(p)
    /\ stop[submit[p].job] \/ status[submit[p].job] \in {"withdrawn", "cancelled"}

Over(p) == Cancelling(p) \/ (HasJob(p) /\ status[submit[p].job] \in Terminal)

(* A cancel that succeeded has done so.                                    *)
CancelInv == \A p \in Posts : canceller[p] = "true" => Cancelling(p)

(* An entry is true of its job.                                            *)
TrueInv ==
    \A p \in Posts :
        /\ registry[p] \in {"completed", "failed"} =>
             HasJob(p) /\ status[submit[p].job] = registry[p]
        /\ registry[p] = "cancelled" => Cancelling(p)

(* An upload is removed only for a job that is over.                       *)
UploadInv ==
    /\ \A p \in Posts : post[p] \in {"submit", "submitting", "accepted"} => p \in uploads \/ Over(p)
    /\ \A t \in ServerThreads, p \in Posts : <<t, p>> \in removing => Over(p)

(* What the pool's thread handles of a job that has ended is its end.      *)
LastInv ==
    \A j \in JobIds :
        owner[j].pc = "ended" /\ Handling(Owning(j)) => handler[Owning(j)].event \in Terminal

ServerInv ==
    /\ RunnerInv /\ ClearedInv /\ PostInv
    /\ CancelInv /\ TrueInv /\ UploadInv /\ LastInv

-----------------------------------------------------------------------------
(* The server's steps, and the runner's                                    *)

(* A POST is a call of submit, and its path.                               *)
LEMMA PostsAre == Posts = Requests /\ Posts \subseteq Paths
BY PostsAssumption DEF Posts

(* Steps in which the server does nothing of its own, but may ask the      *)
(* runner to.                                                              *)
Quietly(p) == ContinueSubmit(p) \/ BeginDelete(p) \/ CancelJob(p)
QuietStep ==
    \/ \E t \in Threads : HandleQuietly(t)
    \/ \E j \in JobIds : OwnerQuietly(j)
    \/ \E p \in Posts : Quietly(p)

(* The steps, as the lemmas about them group them.                         *)
LEMMA ServerCases ==
    ASSUME [ServerNext]_serverVars
    PROVE  \/ \E t \in ServerThreads, p \in Posts : RemoveUpload(t, p)
           \/ \E t \in Threads : ServerNotify(t)
           \/ \E j \in JobIds : ServerProgress(j)
           \/ \E p \in Posts : \/ SaveUpload(p) \/ SubmitJob(p) \/ Refuse(p) \/ AddEntry(p)
                               \/ EndDelete(p) \/ Poll(p)
           \/ QuietStep
           \/ UNCHANGED serverVars
<1>1. CASE \E t \in ServerThreads, p \in Posts : RemoveUpload(t, p)
    BY <1>1
<1>2. CASE \E t \in Threads : ServerHandlerStep(t)
    BY <1>2 DEF ServerHandlerStep, QuietStep
<1>3. CASE \E j \in JobIds : ServerOwnerStep(j)
    BY <1>3 DEF ServerOwnerStep, QuietStep
<1>4. CASE \E p \in Posts : SaveUpload(p) \/ PostStep(p) \/ BeginDelete(p) \/ DeleteStep(p) \/ Poll(p)
    BY <1>4 DEF PostStep, DeleteStep, QuietStep, Quietly
<1> QED BY <1>1, <1>2, <1>3, <1>4 DEF ServerNext

(* A quiet step is one of the runner's.                                    *)
LEMMA QuietRuns ==
    ASSUME QuietStep
    PROVE  Next /\ UNCHANGED <<post, uploads, registry, removing, view>>
<1>1. ASSUME NEW t \in Threads, HandleQuietly(t)
      PROVE  Next /\ UNCHANGED <<post, uploads, registry, removing, view>>
    BY <1>1 DEF HandleQuietly, HandlerStep, Next
<1>2. ASSUME NEW j \in JobIds, OwnerQuietly(j)
      PROVE  Next /\ UNCHANGED <<post, uploads, registry, removing, view>>
    BY <1>2 DEF OwnerQuietly, OwnerStep, Next
<1>3. ASSUME NEW p \in Posts, Quietly(p)
      PROVE  Next /\ UNCHANGED <<post, uploads, registry, removing, view>>
    BY <1>3, PostsAre DEF Quietly, ContinueSubmit, BeginDelete, CancelJob, Next
<1> QED BY <1>1, <1>2, <1>3 DEF QuietStep

(* What the server does, the runner does or does not see.                  *)
LEMMA ServerRuns ==
    ASSUME [ServerNext]_serverVars
    PROVE  [Next]_vars
<1>1. CASE \E t \in ServerThreads, p \in Posts : RemoveUpload(t, p)
    BY <1>1 DEF RemoveUpload
<1>2. CASE \E t \in Threads : ServerNotify(t)
    BY <1>2 DEF ServerNotify, HandlerStep, Next
<1>3. CASE \E j \in JobIds : ServerProgress(j)
    BY <1>3 DEF ServerProgress, OwnerStep, Next
<1>4. CASE \E p \in Posts : SubmitJob(p)
    BY <1>4, PostsAre DEF SubmitJob, Next
<1>5. CASE \E p \in Posts : SaveUpload(p) \/ Refuse(p) \/ AddEntry(p) \/ EndDelete(p) \/ Poll(p)
    BY <1>5 DEF SaveUpload, Refuse, AddEntry, EndDelete, Poll
<1>6. CASE QuietStep
    BY <1>6, QuietRuns
<1>7. CASE UNCHANGED serverVars
    BY <1>7 DEF serverVars
<1> QED BY <1>1, <1>2, <1>3, <1>4, <1>5, <1>6, <1>7, ServerCases

(* The server leaves the runner its own behaviour: whatever is proved of   *)
(* JobRunner holds under the handlers and the observer of the server.      *)
THEOREM RunnerImplemented == ServerSpec => Spec
<1>1. ServerInit => Init
    BY DEF ServerInit
<1> QED BY <1>1, ServerRuns, PTL DEF ServerSpec, Spec

-----------------------------------------------------------------------------
(* What update does                                                        *)

(* An event is no end, or its entry's upload is to be removed.             *)
LEMMA UpdateEffect ==
    ASSUME RegistryOK, NEW t \in ServerThreads, NEW p \in Posts, NEW e \in Events, Update(t, p, e)
    PROVE  /\ registry' \in [Posts -> Events \union {None}]
           /\ removing' \in SUBSET (ServerThreads \X Posts)
           /\ removing \subseteq removing'
           /\ \A q \in Posts \ {p} : registry'[q] = registry[q]
           /\ registry[p] = None => registry'[p] = None /\ removing' = removing
           /\ registry[p] # None => registry'[p] = e /\ (e \in Terminal => <<t, p>> \in removing')
           /\ \A x \in removing' \ removing : x = <<t, p>> /\ e \in Terminal
<1>1. CASE registry[p] = None
    BY <1>1 DEF Update, RegistryOK
<1>2. CASE registry[p] # None
    <2>1. /\ registry' = [registry EXCEPT ![p] = e]
          /\ removing' = IF e \in Terminal THEN removing \union {<<t, p>>} ELSE removing
        BY <1>2 DEF Update, Removes
    <2> QED BY <1>2, <2>1 DEF RegistryOK
<1> QED BY <1>1, <1>2

(* The runner's threads are threads of the server.                         *)
LEMMA ServersThreads ==
    /\ Threads \subseteq ServerThreads
    /\ \A p \in Posts : Deleting(p) \in ServerThreads
    /\ \A j \in JobIds : Owning(j) \in ServerThreads
BY ThreadNames DEF ServerThreads

(* Whom ServerNotify updates, of what.                                     *)
LEMMA ServerNotifyEffect ==
    ASSUME TypesInv, NEW t \in Threads, ServerNotify(t)
    PROVE  /\ Notify(t) /\ t \in ServerThreads
           /\ handler[t].context \in Posts /\ handler[t].event \in Events
           /\ Update(t, handler[t].context, handler[t].event)
           /\ UNCHANGED <<post, uploads, view>>
BY NotifyEffect, ServersThreads, PostsAre DEF ServerNotify

(* A progress callback updates one entry, or none.                         *)
LEMMA ServerProgressEffect ==
    ASSUME TypesInv, NEW j \in JobIds, ServerProgress(j)
    PROVE  /\ ObserveProgress(j) /\ Owning(j) \in ServerThreads
           /\ \/ UNCHANGED <<registry, removing>>
              \/ owner[j].context \in Posts /\ Update(Owning(j), owner[j].context, "running")
           /\ UNCHANGED <<post, uploads, view>>
<1>1. owner[j].context \in Requests \union {None}
    BY DEF TypesInv, TypeOK, OwnerLocals
<1> QED BY <1>1, ServersThreads, PostsAre DEF ServerProgress

-----------------------------------------------------------------------------
(* What becomes of an upload                                               *)

(* An entry is given an event.                                             *)
LEMMA ClearedUpdate ==
    ASSUME ClearedInv, NEW t \in ServerThreads, NEW p \in Posts, NEW e \in Events,
           Update(t, p, e), UNCHANGED <<post, uploads, view>>,
           deleter' \in [Posts -> {"idle", "cancel", "conflict", "accepted"}]
    PROVE  ClearedInv'
<1>1. RegistryOK /\ EntryInv /\ UploadCleared
    BY DEF ClearedInv
<1>2. RegistryOK'
    BY <1>1, UpdateEffect DEF RegistryOK
<1>3. EntryInv'
    BY <1>1, UpdateEffect DEF EntryInv
<1>4. UploadCleared'
    <2>1. /\ removing \subseteq removing'
          /\ \A q \in Posts \ {p} : registry'[q] = registry[q]
          /\ registry'[p] = registry[p] \/ (e \in Terminal => <<t, p>> \in removing')
          /\ registry'[p] = registry[p] \/ registry'[p] = e
        BY <1>1, UpdateEffect
    <2> SUFFICES ASSUME NEW q \in Posts, q \in uploads,
                        registry'[q] \in Terminal \/ view[q] \in Terminal \/ post[q] = "refused"
                 PROVE  \E u \in ServerThreads : <<u, q>> \in removing'
        BY DEF UploadCleared
    <2>2. CASE registry[q] \in Terminal \/ view[q] \in Terminal \/ post[q] = "refused"
        <3>1. PICK u \in ServerThreads : <<u, q>> \in removing
            BY <1>1, <2>2 DEF UploadCleared
        <3> QED BY <2>1, <3>1
    <2>3. CASE q = p /\ e \in Terminal /\ <<t, p>> \in removing'
        BY <2>3
    <2> QED BY <2>1, <2>2, <2>3
<1> QED BY <1>2, <1>3, <1>4 DEF ClearedInv

(* Every step of the server preserves ClearedInv.                          *)
LEMMA ClearedNext ==
    ASSUME TypesInv, ClearedInv, [ServerNext]_serverVars
    PROVE  ClearedInv'
<1>0. RegistryOK /\ EntryInv /\ UploadCleared /\ None \notin Terminal
    BY NoneApart DEF ClearedInv
<1>1. ASSUME NEW t \in ServerThreads, NEW p \in Posts, RemoveUpload(t, p) PROVE ClearedInv'
    <2>1. /\ removing' = removing \ {<<t, p>>} /\ uploads' = uploads \ {p}
          /\ UNCHANGED <<post, registry, deleter, view>>
        BY <1>1 DEF RemoveUpload
    <2>2. RegistryOK' /\ EntryInv'
        BY <1>0, <2>1 DEF RegistryOK, EntryInv
    <2>3. UploadCleared'
        BY <1>0, <2>1 DEF UploadCleared
    <2> QED BY <2>2, <2>3 DEF ClearedInv
<1>2. ASSUME NEW t \in Threads, ServerNotify(t) PROVE ClearedInv'
    <2>1. UNCHANGED deleter
        BY <1>2 DEF ServerNotify
    <2> QED BY <1>0, <1>2, <2>1, ServerNotifyEffect, ClearedUpdate DEF RegistryOK
<1>3. CASE UNCHANGED <<post, uploads, registry, removing, view>>
           /\ deleter' \in [Posts -> {"idle", "cancel", "conflict", "accepted"}]
    BY <1>0, <1>3 DEF ClearedInv, RegistryOK, EntryInv, UploadCleared
<1>4. ASSUME NEW j \in JobIds, ServerProgress(j) PROVE ClearedInv'
    <2>1. UNCHANGED deleter /\ "running" \in Events
        BY <1>4, NoneApart DEF ServerProgress
    <2> QED BY <1>0, <1>3, <1>4, <2>1, ServerProgressEffect, ClearedUpdate DEF RegistryOK
<1>5. ASSUME NEW p \in Posts, SaveUpload(p) PROVE ClearedInv'
    <2>1. PICK pc \in {"submit", "unsaved"} : post' = [post EXCEPT ![p] = pc]
        BY <1>5 DEF SaveUpload
    <2>2. /\ post[p] = "idle" /\ uploads' \in {uploads, uploads \union {p}}
          /\ UNCHANGED <<registry, removing, deleter, view>>
        BY <1>5 DEF SaveUpload
    <2>3. registry[p] = None /\ view[p] = None
        BY <1>0, <2>2 DEF EntryInv
    <2>4. /\ post' \in [Posts ->
                         {"idle", "submit", "submitting", "accepted", "refused", "unsaved"}]
          /\ post'[p] \in {"submit", "unsaved"}
          /\ \A q \in Posts \ {p} : post'[q] = post[q]
        BY <1>0, <2>1 DEF RegistryOK
    <2>5. uploads' \subseteq uploads \union {p}
        BY <2>2
    <2>6. RegistryOK'
        BY <1>0, <2>2, <2>4, <2>5 DEF RegistryOK
    <2>7. EntryInv'
        BY <1>0, <2>2, <2>3, <2>4 DEF EntryInv
    <2>8. UploadCleared'
        BY <1>0, <2>2, <2>3, <2>4, <2>5 DEF UploadCleared
    <2> QED BY <2>6, <2>7, <2>8 DEF ClearedInv
<1>6. ASSUME NEW p \in Posts, SubmitJob(p) PROVE ClearedInv'
    <2>1. /\ post[p] = "submit" /\ post' = [post EXCEPT ![p] = "submitting"]
          /\ UNCHANGED <<uploads, registry, removing, deleter, view>>
        BY <1>6 DEF SubmitJob, EntryOnSubmit
    <2>2. RegistryOK' /\ EntryInv' /\ UploadCleared'
        BY <1>0, <2>1 DEF RegistryOK, EntryInv, UploadCleared
    <2> QED BY <2>2 DEF ClearedInv
<1>7. ASSUME NEW p \in Posts, Refuse(p) PROVE ClearedInv'
    <2>1. /\ post[p] = "submitting" /\ post' = [post EXCEPT ![p] = "refused"]
          /\ uploads' = uploads \ {p}
          /\ UNCHANGED <<registry, removing, deleter, view>>
        BY <1>7 DEF Refuse
    <2>2. RegistryOK' /\ EntryInv' /\ UploadCleared'
        BY <1>0, <2>1 DEF RegistryOK, EntryInv, UploadCleared
    <2> QED BY <2>2 DEF ClearedInv
<1>8. ASSUME NEW p \in Posts, AddEntry(p) PROVE ClearedInv'
    <2>1. /\ post[p] = "submitting" /\ post' = [post EXCEPT ![p] = "accepted"]
          /\ registry' = [registry EXCEPT ![p] = IF @ = None THEN "queued" ELSE @]
          /\ UNCHANGED <<uploads, removing, deleter, view>>
        BY <1>8 DEF AddEntry
    <2>2. registry[p] = None /\ "queued" \in Events \ Terminal
        BY <1>0, <2>1, NoneApart DEF EntryInv
    <2>3. registry' = [registry EXCEPT ![p] = "queued"]
        BY <1>0, <2>1, <2>2 DEF RegistryOK
    <2>4. /\ registry'[p] = "queued" /\ post'[p] = "accepted"
          /\ \A q \in Posts \ {p} : registry'[q] = registry[q] /\ post'[q] = post[q]
        BY <1>0, <2>1, <2>3 DEF RegistryOK
    <2>5. RegistryOK'
        BY <1>0, <2>1, <2>2, <2>3 DEF RegistryOK
    <2>6. EntryInv'
        BY <1>0, <2>1, <2>4 DEF EntryInv
    <2>7. UploadCleared'
        BY <1>0, <2>1, <2>2, <2>4 DEF UploadCleared
    <2> QED BY <2>5, <2>6, <2>7 DEF ClearedInv
<1>9. ASSUME NEW p \in Posts, EndDelete(p) PROVE ClearedInv'
    <2>1. /\ \/ Update(Deleting(p), p, "cancelled")
             \/ UNCHANGED <<registry, removing>>
          /\ deleter' \in [Posts -> {"idle", "cancel", "conflict", "accepted"}]
          /\ UNCHANGED <<post, uploads, view>>
        BY <1>0, <1>9 DEF EndDelete, DeleteStatus, RegistryOK
    <2>2. "cancelled" \in Events
        BY DEF Events, Terminal
    <2> QED BY <1>3, <2>1, <2>2, ServersThreads, ClearedUpdate
<1>10. ASSUME NEW p \in Posts, Poll(p) PROVE ClearedInv'
    <2>1. /\ post[p] = "accepted" /\ view' = [view EXCEPT ![p] = registry[p]]
          /\ UNCHANGED <<post, uploads, registry, removing, deleter>>
        BY <1>10 DEF Poll
    <2>2. RegistryOK' /\ EntryInv' /\ UploadCleared'
        BY <1>0, <2>1 DEF RegistryOK, EntryInv, UploadCleared
    <2> QED BY <2>2 DEF ClearedInv
<1>11. CASE QuietStep
    <2>1. deleter' \in [Posts -> {"idle", "cancel", "conflict", "accepted"}]
        BY <1>0, <1>11 DEF QuietStep, HandleQuietly, OwnerQuietly, Quietly, ContinueSubmit,
                           BeginDelete, CancelJob, RegistryOK
    <2> QED BY <1>3, <1>11, <2>1, QuietRuns
<1>12. CASE UNCHANGED serverVars
    BY <1>0, <1>3, <1>12 DEF serverVars, RegistryOK
<1> QED BY <1>1, <1>2, <1>4, <1>5, <1>6, <1>7, <1>8, <1>9, <1>10, <1>11, <1>12, ServerCases

(* The initial state.                                                      *)
LEMMA ClearedInit == ServerInit => ClearedInv
BY NoneApart DEF ServerInit, ClearedInv, RegistryOK, EntryInv, UploadCleared

(* The runner's part that needs no bound on overlapping calls.             *)
LEMMA AnyNext ==
    ASSUME AnyInv, [Next]_vars
    PROVE  AnyInv'
<1>1. TypesInv /\ JobsInv /\ ThreadsInv
    BY DEF AnyInv
<1>2. TypesInv'
    BY <1>1, TypesNext
<1> QED BY <1>1, <1>2, JobsNext, ThreadsNext DEF AnyInv

(* What holds however many calls of submit overlap.                        *)
LEMMA ClearedAlways == ServerSpec => [](AnyInv /\ ClearedInv)
<1>1. ServerInit => AnyInv /\ ClearedInv
    BY RunnerInit, ClearedInit DEF ServerInit, RunnerInv
<1>2. AnyInv /\ ClearedInv /\ [ServerNext]_serverVars => (AnyInv /\ ClearedInv)'
    BY ServerRuns, AnyNext, ClearedNext DEF AnyInv
<1> QED BY <1>1, <1>2, PTL DEF ServerSpec

(* The server's variables keep their types, however many calls overlap.    *)
THEOREM ServerTypeCorrect == ServerSpec => []ServerTypeOK
<1>1. AnyInv /\ ClearedInv => ServerTypeOK
    BY DEF AnyInv, ClearedInv, TypesInv, RegistryOK, ServerTypeOK
<1> QED BY <1>1, ClearedAlways, PTL

(* A client that is told of the end of its job, or of a refusal, leaves no *)
(* upload that nobody removes, however many calls overlap.                 *)
THEOREM UploadClearedCorrect == ServerSpec => []UploadCleared
<1>1. AnyInv /\ ClearedInv => UploadCleared
    BY DEF ClearedInv
<1> QED BY <1>1, ClearedAlways, PTL

-----------------------------------------------------------------------------
(* A job that is over stays so                                             *)

(* A call keeps its job.                                                   *)
LEMMA JobStays ==
    ASSUME TypesInv, [Next]_vars, NEW r \in Requests, HasJob(r)
    PROVE  HasJob(r)' /\ submit'[r].job = submit[r].job
<1>1. ~Enqueue(r)
    BY EnqueueEffect DEF HasJob
<1> QED BY <1>1, CallsStay, RegisterEffect DEF HasJob

(* Nobody takes a request to stop back.                                    *)
LEMMA StopStays ==
    ASSUME TypesInv, [Next]_vars, NEW j \in JobIds, stop[j]
    PROVE  stop'[j]
<1>1. CASE UNCHANGED stop
    BY <1>1
<1>2. ASSUME NEW r \in Requests, CallerStep(r) PROVE stop'[j]
    <2>1. CASE CancelRequest(r)
        BY <2>1 DEF CancelRequest, TypesInv, TypeOK
    <2> QED BY <1>1, <1>2, <2>1 DEF CallerStep, HandleCancel, CancelLookup, poolVars
<1>3. CASE Destroy
    <2>1. stop' = [i \in JobIds |-> stop[i] \/ InRunning(i)]
        BY <1>3 DEF Destroy
    <2> QED BY <2>1
<1>4. CASE \E t \in Threads : HandlerStep(t)
    BY <1>1, <1>4, HandlerStays DEF poolVars
<1>5. CASE \E r \in Requests : PathStep(r) \/ Enqueue(r) \/ IdStep(r)
    BY <1>1, <1>5, PathEffect, EnqueueEffect, IdEffect DEF poolVars
<1>6. CASE \E i \in JobIds : WorkStep(i) \/ Start(i) \/ EndStep(i)
    BY <1>1, <1>6, WorkEffect, StartEffect, EndEffect DEF poolVars
<1>7. CASE UNCHANGED vars
    BY <1>1, <1>7 DEF vars, poolVars
<1> QED BY <1>2, <1>3, <1>4, <1>5, <1>6, <1>7, NextCases

(* A withdrawn job is cancelled.                                           *)
LEMMA WithdrawnStays ==
    ASSUME TypesInv, [Next]_vars, NEW j \in JobIds, status[j] = "withdrawn"
    PROVE  status'[j] \in {"withdrawn", "cancelled"}
<1>1. CASE UNCHANGED status
    BY <1>1
<1>2. CASE \E i \in JobIds : EndStep(i)
    <2>1. PICK i \in JobIds : EndStep(i)
        BY <1>2
    <2>2. CASE i # j
        BY <2>1, <2>2, EndEffect DEF Ends, OnlyJob
    <2>3. CASE i = j
        <3>1. EndWithdrawn(j)
            BY <2>1, <2>3 DEF EndStep, End, Pool!Move
        <3>2. "cancelled" \in Pool!Status
            BY DEF Pool!Status, Pool!Ended
        <3> QED BY <3>1, <3>2, PoolMoves DEF EndWithdrawn, Pool!CancelWithdrawn, OnlyJob
    <2> QED BY <2>2, <2>3
<1>3. CASE Destroy \/ \E r \in Requests : CallerStep(r)
    BY <1>3, CallerEffect, DestroyEffect DEF Withdraws
<1>4. CASE \E t \in Threads : HandlerStep(t)
    BY <1>1, <1>4, HandlerStays DEF poolVars
<1>5. CASE \E r \in Requests : PathStep(r) \/ IdStep(r)
    BY <1>1, <1>5, PathEffect, IdEffect DEF poolVars
<1>6. CASE \E r \in Requests : Enqueue(r)
    BY <1>6, EnqueueEffect
<1>7. CASE \E i \in JobIds : WorkStep(i) \/ Start(i)
    BY <1>1, <1>7, WorkEffect, StartEffect DEF poolVars, OnlyJob
<1>8. CASE UNCHANGED vars
    BY <1>1, <1>8 DEF vars, poolVars
<1> QED BY <1>2, <1>3, <1>4, <1>5, <1>6, <1>7, <1>8, NextCases

(* Nor does a job that is cancelled, or over, become another.              *)
LEMMA OverStays ==
    ASSUME TypesInv, [Next]_vars, NEW p \in Posts
    PROVE  /\ Cancelling(p) => Cancelling(p)'
           /\ Over(p) => Over(p)'
<1> DEFINE j == submit[p].job
<1>1. "cancelled" \in Terminal
    BY DEF Terminal
<1>2. ASSUME HasJob(p)
      PROVE  /\ HasJob(p)' /\ submit'[p].job = j
             /\ stop[j] => stop'[j]
             /\ status[j] \in Terminal => status'[j] = status[j]
             /\ status[j] = "withdrawn" => status'[j] \in {"withdrawn", "cancelled"}
    BY <1>2, PostsAre, JobStays, JobOfCall, StopStays, EndsStay, WithdrawnStays
<1>3. Cancelling(p) => Cancelling(p)'
    BY <1>1, <1>2 DEF Cancelling
<1>4. HasJob(p) /\ status[j] \in Terminal => Over(p)'
    BY <1>2 DEF Over
<1> QED BY <1>3, <1>4 DEF Over

-----------------------------------------------------------------------------
(* A POST and its call of submit                                           *)

(* A quiet step begins no call of submit, and ends none twice.             *)
LEMMA QuietCalls ==
    ASSUME TypesInv, QuietStep, NEW p \in Posts
    PROVE  /\ submit'[p].pc = "idle" <=> submit[p].pc = "idle"
           /\ submit[p].pc \in {"returned", "rejected"} => submit'[p].pc = submit[p].pc
<1>1. CASE UNCHANGED submit
    BY <1>1
<1>2. CASE \E t \in Threads : HandleQuietly(t)
    BY <1>1, <1>2, HandlerStays DEF HandleQuietly, HandlerStep, threadVars
<1>3. CASE \E j \in JobIds : OwnerQuietly(j)
    BY <1>1, <1>3, WorkEffect, StartEffect, EndEffect DEF OwnerQuietly, WorkStep, EndStep
<1>4. ASSUME NEW q \in Posts, ContinueSubmit(q)
      PROVE  /\ submit'[p].pc = "idle" <=> submit[p].pc = "idle"
             /\ submit[p].pc \in {"returned", "rejected"} => submit'[p].pc = submit[p].pc
    <2>1. OnlyCall(q) /\ submit[q].pc \notin {"idle", "returned", "rejected"} /\ submit'[q].pc # "idle"
        <3>1. CASE PushJob(q) \/ InsertSeen(q) \/ AddContext(q)
            BY <3>1, PostsAre, PathEffect DEF PathStep, PushJob, InsertSeen, AddContext
        <3>2. CASE Enqueue(q)
            BY <3>2, PostsAre, EnqueueEffect
        <3>3. CASE IdStep(q)
            BY <3>3, PostsAre, IdEffect
        <3> QED BY <1>4, <3>1, <3>2, <3>3 DEF ContinueSubmit, InSubmitStep, IdStep
    <2> QED BY <2>1, PostsAre DEF OnlyCall
<1>5. CASE \E q \in Posts : BeginDelete(q) \/ CancelJob(q)
    BY <1>1, <1>5, PostsAre, CallerEffect DEF BeginDelete, CancelJob, CancelStep, CallerStep
<1> QED BY <1>2, <1>3, <1>4, <1>5 DEF QuietStep, Quietly

(* Every step of the server preserves PostInv.                             *)
LEMMA PostNext ==
    ASSUME TypesInv, RegistryOK, PostInv, [ServerNext]_serverVars
    PROVE  PostInv'
<1>0. post \in [Posts -> {"idle", "submit", "submitting", "accepted", "refused", "unsaved"}]
    BY DEF RegistryOK
<1>1. CASE UNCHANGED post /\ \A p \in Posts :
             /\ submit'[p].pc = "idle" <=> submit[p].pc = "idle"
             /\ submit[p].pc \in {"returned", "rejected"} => submit'[p].pc = submit[p].pc
    BY <1>1 DEF PostInv
<1>2. CASE UNCHANGED <<post, submit>>
    BY <1>1, <1>2
<1>3. CASE QuietStep
    BY <1>1, <1>3, QuietRuns, QuietCalls
<1>4. CASE \E t \in ServerThreads, p \in Posts : RemoveUpload(t, p)
    BY <1>2, <1>4 DEF RemoveUpload, vars, threadVars
<1>5. CASE \E t \in Threads : ServerNotify(t)
    BY <1>2, <1>5, HandlerStays DEF ServerNotify, HandlerStep, threadVars
<1>6. CASE \E j \in JobIds : ServerProgress(j)
    BY <1>2, <1>6, WorkEffect DEF ServerProgress, WorkStep
<1>7. CASE \E p \in Posts : EndDelete(p) \/ Poll(p)
    BY <1>2, <1>7 DEF EndDelete, Poll, vars, threadVars
<1>8. ASSUME NEW p \in Posts, SaveUpload(p) PROVE PostInv'
    <2>1. PICK pc \in {"submit", "unsaved"} : post' = [post EXCEPT ![p] = pc]
        BY <1>8 DEF SaveUpload
    <2>2. post[p] = "idle" /\ UNCHANGED submit
        BY <1>8 DEF SaveUpload, vars, threadVars
    <2>3. post'[p] \in {"submit", "unsaved"} /\ \A q \in Posts \ {p} : post'[q] = post[q]
        BY <1>0, <2>1
    <2> QED BY <2>2, <2>3 DEF PostInv
<1>9. ASSUME NEW p \in Posts, SubmitJob(p) PROVE PostInv'
    <2>1. /\ OnlyCall(p) /\ submit[p].pc = "idle" /\ submit'[p].pc \in {"push", "rejected"}
        BY <1>9, PostsAre, SubmitEffect DEF SubmitJob
    <2>2. post'[p] = "submitting" /\ \A q \in Posts \ {p} : post'[q] = post[q]
        BY <1>0, <1>9 DEF SubmitJob
    <2> QED BY <2>1, <2>2, PostsAre DEF PostInv, OnlyCall
<1>10. ASSUME NEW p \in Posts, Refuse(p) PROVE PostInv'
    <2>1. /\ post[p] = "submitting" /\ submit[p].pc = "rejected"
          /\ post'[p] = "refused" /\ \A q \in Posts \ {p} : post'[q] = post[q]
          /\ UNCHANGED submit
        BY <1>0, <1>10 DEF Refuse, vars, threadVars
    <2> QED BY <2>1 DEF PostInv
<1>11. ASSUME NEW p \in Posts, AddEntry(p) PROVE PostInv'
    <2>1. /\ post[p] = "submitting" /\ submit[p].pc = "returned"
          /\ post'[p] = "accepted" /\ \A q \in Posts \ {p} : post'[q] = post[q]
          /\ UNCHANGED submit
        BY <1>0, <1>11 DEF AddEntry, vars, threadVars
    <2> QED BY <2>1 DEF PostInv
<1>12. CASE UNCHANGED serverVars
    BY <1>2, <1>12 DEF serverVars, vars, threadVars
<1> QED BY <1>3, <1>4, <1>5, <1>6, <1>7, <1>8, <1>9, <1>10, <1>11, <1>12, ServerCases

-----------------------------------------------------------------------------
(* What an entry says of its job                                           *)

(* A cancel that answers true has withdrawn its job, or told it to stop.   *)
LEMMA CancelNext ==
    ASSUME TypesInv, CancelInv, [Next]_vars
    PROVE  CancelInv'
<1>1. ASSUME NEW p \in Posts, canceller[p] = "true" PROVE Cancelling(p)'
    BY <1>1, OverStays DEF CancelInv
<1>2. CASE UNCHANGED canceller
    BY <1>1, <1>2 DEF CancelInv
<1>3. ASSUME NEW q \in Requests, HandleCancel(q) PROVE CancelInv'
    <2>1. canceller' = [canceller EXCEPT ![q] = "lookup"]
        BY <1>3 DEF HandleCancel
    <2> QED BY <1>1, <2>1, PostsAre DEF CancelInv, TypesInv, TypeOK
<1>4. ASSUME NEW q \in Requests, CancelLookup(q) PROVE CancelInv'
    <2> DEFINE j == submit[q].job
    <2>1. submit[q].pc = "returned" /\ UNCHANGED submit
        BY <1>4 DEF CancelLookup, TypesInv, SubmitOK
    <2>2. HasJob(q) /\ HasJob(q)' /\ j \in JobIds
        BY <2>1, JobOfCall DEF HasJob
    <2>3. CASE Pool!Withdraw(j)
        <3>1. "withdrawn" \in Pool!Status
            BY DEF Pool!Status
        <3>2. status'[j] = "withdrawn"
            BY <2>2, <2>3, <3>1, PoolMoves DEF Pool!Withdraw, OnlyJob
        <3>3. Cancelling(q)'
            BY <2>1, <2>2, <3>2 DEF Cancelling
        <3>4. \A p \in Posts \ {q} : canceller'[p] = canceller[p]
            BY <1>4, PostsAre DEF CancelLookup, TypesInv, TypeOK
        <3> QED BY <1>1, <3>3, <3>4 DEF CancelInv
    <2>4. CASE \E answer \in {"request", "false"} :
                 canceller' = [canceller EXCEPT ![q] = answer]
        BY <1>1, <2>4, PostsAre DEF CancelInv, TypesInv, TypeOK
    <2> QED BY <1>4, <2>3, <2>4 DEF CancelLookup
<1>5. ASSUME NEW q \in Requests, CancelRequest(q) PROVE CancelInv'
    <2>1. submit[q].pc = "returned" /\ UNCHANGED submit
        BY <1>5 DEF CancelRequest, TypesInv, SubmitOK
    <2>2. HasJob(q)' /\ submit[q].job \in JobIds
        BY <2>1, JobOfCall DEF HasJob
    <2>3. stop'[submit[q].job]
        BY <1>5, <2>2 DEF CancelRequest, TypesInv, TypeOK
    <2>4. Cancelling(q)'
        BY <2>1, <2>2, <2>3 DEF Cancelling
    <2>5. \A p \in Posts \ {q} : canceller'[p] = canceller[p]
        BY <1>5, PostsAre DEF CancelRequest, TypesInv, TypeOK
    <2> QED BY <1>1, <2>4, <2>5 DEF CancelInv
<1>6. CASE \E t \in Threads : HandlerStep(t)
    BY <1>2, <1>6, HandlerStays DEF threadVars
<1>7. CASE \E r \in Requests : PathStep(r) \/ Enqueue(r) \/ IdStep(r)
    BY <1>2, <1>7, PathEffect, EnqueueEffect, IdEffect
<1>8. CASE \E i \in JobIds : WorkStep(i) \/ Start(i) \/ EndStep(i)
    BY <1>2, <1>8, WorkEffect, StartEffect, EndEffect
<1>9. CASE Destroy \/ UNCHANGED vars
    BY <1>2, <1>9, DestroyEffect DEF vars, threadVars
<1> QED BY <1>3, <1>4, <1>5, <1>6, <1>7, <1>8, <1>9, NextCases DEF CallerStep

(* An event that is notified is of the job of its context's call.          *)
LEMMA NotifiedJob ==
    ASSUME RunnerInv, NEW t \in Threads, Notify(t)
    PROVE  LET p == handler[t].context IN
           /\ p \in Requests /\ HasJob(p)
           /\ t \in {Owning(submit[p].job), Submitting(p)}
           /\ handler[t].event \in Terminal => status[submit[p].job] = handler[t].event
<1>1. TypesInv /\ JobsInv /\ ThreadsInv /\ PlaceInv /\ ContextInv
    BY DEF RunnerInv, AnyInv
<1>2. Handling(t) /\ Calling(t)
    BY DEF Notify, Handling, Calling
<1>3. PICK r \in Requests : /\ HasJob(r) /\ submit[r].job = handler[t].job
                            /\ t \in {Owning(submit[r].job), Submitting(r)}
    BY <1>1, <1>2, HandlesFor
<1>4. handler[t].context = r
    BY <1>1, <1>2, <1>3, HandledCall
<1>5. handler[t].event \in Terminal => status[submit[r].job] = handler[t].event
    BY <1>1, <1>3, EndHandled DEF Ending
<1> QED BY <1>3, <1>4, <1>5

(* What TrueInv says of one entry.                                         *)
TrueOf(p) ==
    /\ registry[p] \in {"completed", "failed"} =>
         HasJob(p) /\ status[submit[p].job] = registry[p]
    /\ registry[p] = "cancelled" => Cancelling(p)

(* It holds on where the entry is left alone.                              *)
LEMMA TrueStays ==
    ASSUME TypesInv, [Next]_vars, NEW p \in Posts, TrueOf(p), registry'[p] = registry[p]
    PROVE  TrueOf(p)'
<1>1. Cancelling(p) => Cancelling(p)'
    BY OverStays
<1>2. ASSUME HasJob(p), status[submit[p].job] \in Terminal
      PROVE  HasJob(p)' /\ status'[submit'[p].job] = status[submit[p].job]
    BY <1>2, PostsAre, JobStays, JobOfCall, EndsStay
<1> QED BY <1>1, <1>2 DEF TrueOf, Terminal

(* A step that gives one entry an event that is true of its job.           *)
LEMMA TrueUpdate ==
    ASSUME TypesInv, [Next]_vars, TrueInv, RegistryOK,
           NEW t \in ServerThreads, NEW p \in Posts, NEW e \in Events, Update(t, p, e),
           e \in {"completed", "failed"} => HasJob(p) /\ status[submit[p].job] = e,
           e = "cancelled" => Cancelling(p)
    PROVE  TrueInv'
<1>1. \A q \in Posts : TrueOf(q)
    BY DEF TrueInv, TrueOf
<1>2. \A q \in Posts \ {p} : TrueOf(q)'
    BY <1>1, UpdateEffect, TrueStays
<1>3. TrueOf(p)'
    <2>1. CASE registry'[p] = registry[p]
        BY <1>1, <2>1, TrueStays
    <2>2. CASE registry'[p] = e
        <3>1. Cancelling(p) => Cancelling(p)'
            BY OverStays
        <3>2. ASSUME HasJob(p), status[submit[p].job] \in Terminal
              PROVE  HasJob(p)' /\ status'[submit'[p].job] = status[submit[p].job]
            BY <3>2, PostsAre, JobStays, JobOfCall, EndsStay
        <3> QED BY <2>2, <3>1, <3>2 DEF TrueOf, Terminal
    <2> QED BY <2>1, <2>2, UpdateEffect
<1> QED BY <1>2, <1>3 DEF TrueInv, TrueOf

(* Every step of the server preserves TrueInv.                             *)
LEMMA TrueNext ==
    ASSUME RunnerInv, RegistryOK, CancelInv, TrueInv, [ServerNext]_serverVars
    PROVE  TrueInv'
<1>0. TypesInv /\ [Next]_vars
    BY ServerRuns DEF RunnerInv, AnyInv
<1>1. CASE UNCHANGED registry
    <2>1. \A p \in Posts : TrueOf(p)'
        BY <1>0, <1>1, TrueStays DEF TrueInv, TrueOf
    <2> QED BY <2>1 DEF TrueInv, TrueOf
<1>2. ASSUME NEW t \in Threads, ServerNotify(t) PROVE TrueInv'
    <2> DEFINE p == handler[t].context
               e == handler[t].event
    <2>1. /\ t \in ServerThreads /\ p \in Posts /\ e \in Events /\ Update(t, p, e)
          /\ HasJob(p) /\ (e \in Terminal => status[submit[p].job] = e)
        BY <1>0, <1>2, ServerNotifyEffect, NotifiedJob
    <2>2. e = "cancelled" => Cancelling(p)
        BY <2>1 DEF Cancelling, Terminal
    <2>3. e \in {"completed", "failed"} => HasJob(p) /\ status[submit[p].job] = e
        BY <2>1 DEF Terminal
    <2> HIDE DEF p, e
    <2> QED BY <1>0, <2>1, <2>2, <2>3, TrueUpdate
<1>3. ASSUME NEW j \in JobIds, ServerProgress(j) PROVE TrueInv'
    <2>1. CASE UNCHANGED registry
        BY <1>1, <2>1
    <2>2. CASE owner[j].context \in Posts /\ Update(Owning(j), owner[j].context, "running")
        BY <1>0, <2>2, ServersThreads, NoneApart, TrueUpdate
    <2> QED BY <1>0, <1>3, <2>1, <2>2, ServerProgressEffect
<1>4. ASSUME NEW p \in Posts, AddEntry(p) PROVE TrueInv'
    <2>1. registry'[p] \in {"queued", registry[p]} /\ \A q \in Posts \ {p} : registry'[q] = registry[q]
        BY <1>4 DEF AddEntry, RegistryOK
    <2>2. \A q \in Posts : registry'[q] = registry[q] => TrueOf(q)'
        BY <1>0, TrueStays DEF TrueInv, TrueOf
    <2>3. registry'[p] = "queued" => TrueOf(p)'
        BY DEF TrueOf
    <2> QED BY <2>1, <2>2, <2>3 DEF TrueInv, TrueOf
<1>5. ASSUME NEW p \in Posts, EndDelete(p) PROVE TrueInv'
    <2>1. CASE UNCHANGED registry
        BY <1>1, <2>1
    <2>2. CASE canceller[p] = "true" /\ Update(Deleting(p), p, "cancelled")
        <3>1. Cancelling(p) /\ "cancelled" \in Events
            BY <2>2 DEF CancelInv, Events, Terminal
        <3> QED BY <1>0, <2>2, <3>1, ServersThreads, TrueUpdate
    <2> QED BY <1>5, <2>1, <2>2 DEF EndDelete, CancelTaken, DeleteStatus
<1>6. CASE \E t \in ServerThreads, p \in Posts : RemoveUpload(t, p)
    BY <1>1, <1>6 DEF RemoveUpload
<1>7. CASE \E p \in Posts : SaveUpload(p) \/ SubmitJob(p) \/ Refuse(p) \/ Poll(p)
    BY <1>1, <1>7 DEF SaveUpload, SubmitJob, EntryOnSubmit, Refuse, Poll
<1>8. CASE QuietStep
    BY <1>1, <1>8, QuietRuns
<1>9. CASE UNCHANGED serverVars
    BY <1>1, <1>9 DEF serverVars
<1> QED BY <1>2, <1>3, <1>4, <1>5, <1>6, <1>7, <1>8, <1>9, ServerCases

-----------------------------------------------------------------------------
(* When an upload is removed                                               *)

(* What UploadInv says of the POSTs, and of the threads in update.         *)
SavedInv ==
    \A p \in Posts : post[p] \in {"submit", "submitting", "accepted"} => p \in uploads \/ Over(p)
RemovingInv ==
    \A t \in ServerThreads, p \in Posts : <<t, p>> \in removing => Over(p)

(* A step that removes no upload, and begins no POST.                      *)
LEMMA SavedStays ==
    ASSUME TypesInv, [Next]_vars, SavedInv, uploads \subseteq uploads',
           \A p \in Posts : post'[p] \in {"submit", "submitting", "accepted"} =>
             post[p] \in {"submit", "submitting", "accepted"} \/ p \in uploads'
    PROVE  SavedInv'
BY OverStays DEF SavedInv

(* A step in which no thread is to remove another upload.                  *)
LEMMA RemovingStays ==
    ASSUME TypesInv, [Next]_vars, RemovingInv, removing' \subseteq removing
    PROVE  RemovingInv'
BY OverStays DEF RemovingInv

(* An update of an entry, which removes the upload if it is of an end.     *)
LEMMA UploadUpdate ==
    ASSUME TypesInv, [Next]_vars, RegistryOK, UploadInv,
           NEW t \in ServerThreads, NEW p \in Posts, NEW e \in Events, Update(t, p, e),
           e \in Terminal => Over(p), UNCHANGED <<post, uploads>>
    PROVE  UploadInv'
<1>1. SavedInv /\ RemovingInv
    BY DEF UploadInv, SavedInv, RemovingInv
<1>2. SavedInv'
    BY <1>1, SavedStays
<1>3. ASSUME NEW u \in ServerThreads, NEW q \in Posts, <<u, q>> \in removing' PROVE Over(q)
    <2>1. CASE <<u, q>> \in removing
        BY <1>1, <2>1 DEF RemovingInv
    <2>2. CASE <<u, q>> \notin removing
        <3>1. \A x \in removing' \ removing : x = <<t, p>> /\ e \in Terminal
            BY UpdateEffect
        <3>2. q = p /\ e \in Terminal
            BY <1>3, <2>2, <3>1
        <3> QED BY <3>2
    <2> QED BY <2>1, <2>2
<1>4. RemovingInv'
    BY <1>3, OverStays DEF RemovingInv
<1> QED BY <1>2, <1>4 DEF UploadInv, SavedInv, RemovingInv

(* Every step of the server preserves UploadInv.                           *)
LEMMA UploadNext ==
    ASSUME RunnerInv, RegistryOK, CancelInv, UploadInv, [ServerNext]_serverVars
    PROVE  UploadInv'
<1>0. /\ TypesInv /\ [Next]_vars /\ SavedInv /\ RemovingInv
      /\ post \in [Posts -> {"idle", "submit", "submitting", "accepted", "refused", "unsaved"}]
    BY ServerRuns DEF RunnerInv, AnyInv, UploadInv, SavedInv, RemovingInv, RegistryOK
<1>1. SavedInv' /\ RemovingInv' => UploadInv'
    BY DEF UploadInv, SavedInv, RemovingInv
<1>2. CASE UNCHANGED <<post, uploads, removing>>
    BY <1>0, <1>1, <1>2, SavedStays, RemovingStays
<1>3. ASSUME NEW t \in Threads, ServerNotify(t) PROVE UploadInv'
    <2> DEFINE p == handler[t].context
               e == handler[t].event
    <2>1. /\ t \in ServerThreads /\ p \in Posts /\ e \in Events /\ Update(t, p, e)
          /\ HasJob(p) /\ (e \in Terminal => status[submit[p].job] = e)
          /\ UNCHANGED <<post, uploads>>
        BY <1>0, <1>3, ServerNotifyEffect, NotifiedJob
    <2>2. e \in Terminal => Over(p)
        BY <2>1 DEF Over
    <2> HIDE DEF p, e
    <2> QED BY <1>0, <2>1, <2>2, UploadUpdate
<1>4. ASSUME NEW j \in JobIds, ServerProgress(j) PROVE UploadInv'
    <2>1. UNCHANGED <<post, uploads>>
        BY <1>0, <1>4, ServerProgressEffect
    <2>2. CASE UNCHANGED removing
        BY <1>2, <2>1, <2>2
    <2>3. CASE owner[j].context \in Posts /\ Update(Owning(j), owner[j].context, "running")
        BY <1>0, <2>1, <2>3, ServersThreads, NoneApart, UploadUpdate
    <2> QED BY <1>0, <1>4, <2>2, <2>3, ServerProgressEffect
<1>5. ASSUME NEW p \in Posts, EndDelete(p) PROVE UploadInv'
    <2>1. UNCHANGED <<post, uploads>>
        BY <1>5 DEF EndDelete
    <2>2. CASE UNCHANGED removing
        BY <1>2, <2>1, <2>2
    <2>3. CASE canceller[p] = "true" /\ Update(Deleting(p), p, "cancelled")
        <3>1. Over(p) /\ "cancelled" \in Events
            BY <2>3 DEF CancelInv, Over, Events, Terminal
        <3> QED BY <1>0, <2>1, <2>3, <3>1, ServersThreads, UploadUpdate
    <2> QED BY <1>5, <2>2, <2>3 DEF EndDelete, CancelTaken, DeleteStatus
<1>6. ASSUME NEW t \in ServerThreads, NEW p \in Posts, RemoveUpload(t, p) PROVE UploadInv'
    <2>1. /\ <<t, p>> \in removing /\ removing' = removing \ {<<t, p>>}
          /\ uploads' = uploads \ {p} /\ UNCHANGED post
        BY <1>6 DEF RemoveUpload
    <2>2. Over(p)
        BY <1>0, <2>1 DEF RemovingInv
    <2>3. SavedInv'
        BY <1>0, <2>1, <2>2, OverStays DEF SavedInv
    <2> QED BY <1>0, <1>1, <2>1, <2>3, RemovingStays
<1>7. ASSUME NEW p \in Posts, SaveUpload(p) PROVE UploadInv'
    <2>1. CASE /\ post' = [post EXCEPT ![p] = "submit"]
               /\ uploads' = uploads \union {p}
        BY <1>0, <1>1, <1>7, <2>1, SavedStays, RemovingStays DEF SaveUpload
    <2>2. CASE /\ post' = [post EXCEPT ![p] = "unsaved"]
               /\ uploads' \in {uploads, uploads \union {p}}
        BY <1>0, <1>1, <1>7, <2>2, SavedStays, RemovingStays DEF SaveUpload
    <2> QED BY <1>7, <2>1, <2>2 DEF SaveUpload
<1>8. ASSUME NEW p \in Posts, SubmitJob(p) PROVE UploadInv'
    BY <1>0, <1>1, <1>8, SavedStays, RemovingStays DEF SubmitJob
<1>9. ASSUME NEW p \in Posts, Refuse(p) PROVE UploadInv'
    <2>1. /\ post'[p] = "refused" /\ \A q \in Posts \ {p} : post'[q] = post[q]
          /\ uploads' = uploads \ {p} /\ UNCHANGED removing
        BY <1>0, <1>9 DEF Refuse
    <2>2. SavedInv'
        BY <1>0, <2>1, OverStays DEF SavedInv
    <2> QED BY <1>0, <1>1, <2>1, <2>2, RemovingStays
<1>10. ASSUME NEW p \in Posts, AddEntry(p) PROVE UploadInv'
    BY <1>0, <1>1, <1>10, SavedStays, RemovingStays DEF AddEntry
<1>11. CASE \E p \in Posts : Poll(p)
    BY <1>2, <1>11 DEF Poll
<1>12. CASE QuietStep
    BY <1>2, <1>12, QuietRuns
<1>13. CASE UNCHANGED serverVars
    BY <1>2, <1>13 DEF serverVars
<1> QED BY <1>3, <1>4, <1>5, <1>6, <1>7, <1>8, <1>9, <1>10, <1>11, <1>12, <1>13, ServerCases

-----------------------------------------------------------------------------
(* The last event of a job                                                 *)

(* What LastInv says of one job.                                           *)
LastOf(j) == owner[j].pc = "ended" /\ Handling(Owning(j)) => handler[Owning(j)].event \in Terminal

(* Every step preserves LastInv.                                           *)
LEMMA LastNext ==
    ASSUME TypesInv, LastInv, [Next]_vars
    PROVE  LastInv'
<1> SUFFICES ASSUME NEW j \in JobIds PROVE LastOf(j)'
    BY DEF LastInv, LastOf
<1> DEFINE t == Owning(j)
<1>0. LastOf(j) /\ t \in Threads
    BY ThreadNames DEF LastInv, LastOf
<1>1. CASE owner'[j].pc = owner[j].pc /\ handler'[t] = handler[t]
    BY <1>0, <1>1 DEF LastOf, Handling
<1>2. CASE owner'[j].pc # "ended"
    BY <1>2 DEF LastOf
<1>3. ASSUME NEW u \in Threads, HandlerStep(u) PROVE LastOf(j)'
    <2>1. UNCHANGED owner
        BY <1>3, HandlerStays DEF threadVars
    <2>2. CASE u = t
        BY <1>0, <1>3, <2>1, <2>2, HandlerStays, NoCallOK DEF LastOf, Handling
    <2>3. CASE u # t
        BY <1>0, <1>1, <1>3, <2>1, <2>3, HandlerStays
    <2> QED BY <2>2, <2>3
<1>4. CASE \E r \in Requests : PathStep(r)
    BY <1>1, <1>4, PathEffect
<1>5. CASE \E r \in Requests : Enqueue(r)
    BY <1>1, <1>5, EnqueueEffect
<1>6. ASSUME NEW r \in Requests, IdStep(r) PROVE LastOf(j)'
    <2>1. UNCHANGED owner /\ t # Submitting(r) /\ Submitting(r) \in Threads
        BY <1>6, IdEffect, ThreadNames
    <2>2. handler'[t] = handler[t]
        <3>1. CASE EmitQueued(r)
            BY <1>0, <2>1, <3>1, EmitQueuedEffect, EventHandled, NoneApart
        <3>2. CASE Register(r)
            BY <3>2, RegisterEffect
        <3>3. CASE Replay(r)
            BY <1>0, <2>1, <3>3, ReplayEffect, EventHandled DEF Replays
        <3> QED BY <1>6, <3>1, <3>2, <3>3 DEF IdStep
    <2> QED BY <1>1, <2>1, <2>2
<1>7. CASE Destroy \/ \E r \in Requests : CallerStep(r)
    <2>1. Withdraws /\ UNCHANGED handler
        BY <1>7, CallerEffect, DestroyEffect
    <2> QED BY <1>1, <1>2, <2>1 DEF Withdraws
<1>8. ASSUME NEW i \in JobIds, WorkStep(i) PROVE LastOf(j)'
    <2>1. OnlyOwner(i) /\ owner'[i].pc # "ended" /\ UNCHANGED handler
        BY <1>8, WorkEffect
    <2> QED BY <1>1, <1>2, <2>1 DEF OnlyOwner
<1>9. ASSUME NEW i \in JobIds, Start(i) PROVE LastOf(j)'
    <2>1. OnlyOwner(i) /\ owner'[i].pc = "begin" /\ HandleEvent(Owning(i), i, "running")
        BY <1>9, StartEffect
    <2>2. \A u \in Threads \ {Owning(i)} : handler'[u] = handler[u]
        BY <2>1, EventHandled, ThreadNames, NoneApart
    <2> QED BY <1>0, <1>1, <1>2, <2>1, <2>2, ThreadNames DEF OnlyOwner
<1>10. ASSUME NEW i \in JobIds, EndStep(i) PROVE LastOf(j)'
    <2>1. PICK e \in Terminal : HandleEvent(Owning(i), i, e)
        BY <1>10, EndEffect DEF Ends
    <2>2. /\ handler'[Owning(i)].event = e
          /\ \A u \in Threads \ {Owning(i)} : handler'[u] = handler[u]
        BY <2>1, EventHandled, ThreadNames, NoneApart
    <2>3. OnlyOwner(i)
        BY <1>10, EndEffect
    <2>4. CASE i = j
        BY <2>1, <2>2, <2>4 DEF LastOf
    <2>5. CASE i # j
        BY <1>0, <1>1, <2>2, <2>3, <2>5, ThreadNames DEF OnlyOwner
    <2> QED BY <2>4, <2>5
<1>11. CASE UNCHANGED vars
    BY <1>1, <1>11 DEF vars, threadVars
<1> QED BY <1>3, <1>4, <1>5, <1>6, <1>7, <1>8, <1>9, <1>10, <1>11, NextCases

-----------------------------------------------------------------------------
(* The theorems about one call at a time                                   *)

(* The initial state.                                                      *)
LEMMA ServerInitial == ServerInit => ServerInv
<1> SUFFICES ASSUME ServerInit PROVE ServerInv
    OBVIOUS
<1>1. RunnerInv /\ ClearedInv
    BY RunnerInit, ClearedInit DEF ServerInit
<1>2. PostInv
    BY PostsAre DEF ServerInit, Init, PostInv
<1>3. CancelInv
    BY PostsAre DEF ServerInit, Init, CancelInv
<1>4. TrueInv
    BY NoneApart DEF ServerInit, TrueInv, Terminal
<1>5. UploadInv
    BY DEF ServerInit, UploadInv
<1>6. LastInv
    BY ThreadNames, NoCallOK DEF ServerInit, Init, LastInv, Handling
<1> QED BY <1>1, <1>2, <1>3, <1>4, <1>5, <1>6 DEF ServerInv

(* Every step preserves the invariant.                                     *)
LEMMA ServerInductive ==
    ASSUME MaxSubmitters = 1, ServerInv, [ServerNext]_serverVars
    PROVE  ServerInv'
<1>1. /\ RunnerInv /\ ClearedInv /\ PostInv /\ CancelInv /\ TrueInv /\ UploadInv /\ LastInv
      /\ TypesInv /\ RegistryOK /\ [Next]_vars
    BY ServerRuns DEF ServerInv, RunnerInv, AnyInv, ClearedInv
<1>2. RunnerInv' /\ ClearedInv' /\ PostInv'
    BY <1>1, RunnerNext, ClearedNext, PostNext
<1>3. CancelInv' /\ TrueInv' /\ UploadInv' /\ LastInv'
    BY <1>1, CancelNext, TrueNext, UploadNext, LastNext
<1> QED BY <1>2, <1>3 DEF ServerInv

(* The invariant, from which the theorems follow.                          *)
LEMMA ServerAlways ==
    ASSUME MaxSubmitters = 1
    PROVE  ServerSpec => []ServerInv
BY ServerInitial, ServerInductive, PTL DEF ServerSpec

(* An entry is true of its own job, although DELETE writes an event of its *)
(* own some time after it looked at the entry and at the job.              *)
THEOREM StatusTruthfulCorrect ==
    ASSUME MaxSubmitters = 1
    PROVE  ServerSpec => []StatusTruthful
<1>1. ServerInv => StatusTruthful
    BY DEF ServerInv, TrueInv, Cancelling, StatusTruthful
<1> QED BY <1>1, ServerAlways, PTL

(* Nobody removes the upload of a job that is still to read it.            *)
THEOREM UploadKeptCorrect ==
    ASSUME MaxSubmitters = 1
    PROVE  ServerSpec => []UploadKept
<1>1. ASSUME ServerInv PROVE UploadKept
    <2> SUFFICES ASSUME NEW p \in Posts, submit[p].job \in JobIds,
                        status[submit[p].job] \in {"queued", "running"}, ~stop[submit[p].job]
                 PROVE  p \in uploads
        BY DEF UploadKept
    <2>1. TypesInv /\ RegistryOK /\ PostInv /\ UploadInv
        BY <1>1 DEF ServerInv, RunnerInv, AnyInv, ClearedInv
    <2>2. submit[p].pc \notin {"idle", "rejected"}
        BY <2>1, PostsAre DEF TypesInv, SubmitOK, HasJob
    <2>3. post[p] \in {"submitting", "accepted"}
        BY <2>1, <2>2 DEF PostInv, RegistryOK
    <2>4. ~Over(p)
        BY DEF Over, Cancelling, Terminal
    <2> QED BY <2>1, <2>3, <2>4 DEF UploadInv
<1> QED BY <1>1, ServerAlways, PTL

(* What is told of a job after its end is an end.                          *)
LEMMA ToldLast ==
    ASSUME ServerInv, NEW t \in Threads, Notify(t),
           EndTold(handler[t].context), registry[handler[t].context] # None
    PROVE  handler[t].event \in Terminal
<1> DEFINE p == handler[t].context
           j == submit[p].job
<1>1. /\ TypesInv /\ JobsInv /\ ThreadsInv /\ PlaceInv /\ TakenInv /\ ContextInv /\ ObservedInv
      /\ RunnerInv /\ EntryInv /\ PostInv /\ LastInv
    BY DEF ServerInv, RunnerInv, AnyInv, ClearedInv
<1>2. p \in Requests /\ HasJob(p) /\ t \in {Owning(j), Submitting(p)} /\ Handling(t)
    BY <1>1, NotifiedJob DEF Notify, Handling
<1>3. submit[p].pc = "returned"
    BY <1>1, <1>2, PostsAre DEF EntryInv, PostInv
<1>4. t = Owning(j)
    BY <1>1, <1>2, <1>3 DEF ThreadsInv
<1>5. Told(p)
    BY <1>1, <1>2 DEF ObservedInv, EndTold, HasEnd
<1>6. j \in JobIds /\ status[j] \in Terminal
    BY <1>1, <1>2, <1>5, ToldEnded, JobOfCall
<1>7. owner[j].pc = "ended"
    BY <1>1, <1>6 DEF TypesInv, OwnerOK
<1> QED BY <1>1, <1>2, <1>4, <1>6, <1>7 DEF LastInv

(* No progress is told of a job whose end was.                             *)
LEMMA ToldNoProgress ==
    ASSUME ServerInv, NEW j \in JobIds, owner[j].pc = "observe"
    PROVE  owner[j].context \in Requests /\ ~EndTold(owner[j].context)
<1>1. /\ TypesInv /\ JobsInv /\ ThreadsInv /\ PlaceInv /\ TakenInv /\ ContextInv /\ ObservedInv
    BY DEF ServerInv, RunnerInv, AnyInv
<1>2. owner[j].context \in Requests /\ submit[owner[j].context].job = j
    BY <1>1 DEF ContextInv
<1>3. status[j] \notin Terminal
    BY <1>1 DEF TypesInv, OwnerOK
<1>4. ~Told(owner[j].context)
    BY <1>1, <1>2, <1>3, ToldEnded
<1> QED BY <1>1, <1>2, <1>4 DEF ObservedInv, EndTold, HasEnd

(* Once an entry has taken the end of its job, it is never queued or       *)
(* running again.                                                          *)
THEOREM EndStaysCorrect ==
    ASSUME MaxSubmitters = 1
    PROVE  ServerSpec => EndStays
<1> DEFINE Stays == \A p \in Posts : EndTold(p) /\ registry[p] \in Terminal => registry'[p] \in Terminal
<1>1. ASSUME ServerInv, [ServerNext]_serverVars PROVE Stays
    <2> SUFFICES ASSUME NEW p \in Posts, EndTold(p), registry[p] \in Terminal
                 PROVE  registry'[p] \in Terminal
        OBVIOUS
    <2>0. TypesInv /\ RegistryOK /\ EntryInv /\ registry[p] # None
        BY <1>1, NoneApart DEF ServerInv, RunnerInv, AnyInv, ClearedInv
    <2>1. CASE UNCHANGED registry
        BY <2>1
    <2>2. ASSUME NEW t \in Threads, ServerNotify(t) PROVE registry'[p] \in Terminal
        <3> DEFINE c == handler[t].context
                   e == handler[t].event
        <3>1. /\ Notify(t) /\ t \in ServerThreads /\ c \in Posts /\ e \in Events
              /\ Update(t, c, e)
            BY <2>0, <2>2, ServerNotifyEffect
        <3>2. CASE c = p
            <4>1. e \in Terminal
                BY <1>1, <2>0, <3>1, <3>2, ToldLast
            <4> HIDE DEF c, e
            <4> QED BY <2>0, <3>1, <3>2, <4>1, UpdateEffect
        <3>3. CASE c # p
            <4> HIDE DEF c, e
            <4> QED BY <2>0, <3>1, <3>3, UpdateEffect
        <3> QED BY <3>2, <3>3
    <2>3. ASSUME NEW j \in JobIds, ServerProgress(j) PROVE registry'[p] \in Terminal
        <3>1. owner[j].context # p
            BY <1>1, <2>0, <2>3, ToldNoProgress DEF ServerProgress, ObserveProgress
        <3>2. CASE owner[j].context \in Posts /\ Update(Owning(j), owner[j].context, "running")
            <4>1. \A q \in Posts \ {owner[j].context} : registry'[q] = registry[q]
                BY <2>0, <3>2, UpdateEffect, ServersThreads, NoneApart
            <4> QED BY <3>1, <4>1
        <3> QED BY <2>0, <2>1, <2>3, <3>2, ServerProgressEffect
    <2>4. ASSUME NEW q \in Posts, AddEntry(q) PROVE registry'[p] \in Terminal
        BY <2>0, <2>4 DEF AddEntry, RegistryOK
    <2>5. ASSUME NEW q \in Posts, EndDelete(q) PROVE registry'[p] \in Terminal
        <3>1. CASE UNCHANGED registry
            BY <2>1, <3>1
        <3>2. CASE Update(Deleting(q), q, "cancelled")
            BY <2>0, <3>2, UpdateEffect, ServersThreads DEF Events, Terminal
        <3> QED BY <2>5, <3>1, <3>2 DEF EndDelete, DeleteStatus
    <2>6. CASE \E t \in ServerThreads, q \in Posts : RemoveUpload(t, q)
        BY <2>1, <2>6 DEF RemoveUpload
    <2>7. CASE \E q \in Posts : SaveUpload(q) \/ SubmitJob(q) \/ Refuse(q) \/ Poll(q)
        BY <2>1, <2>7 DEF SaveUpload, SubmitJob, EntryOnSubmit, Refuse, Poll
    <2>8. CASE QuietStep
        BY <2>1, <2>8, QuietRuns
    <2>9. CASE UNCHANGED serverVars
        BY <2>1, <2>9 DEF serverVars
    <2> QED BY <1>1, <2>2, <2>3, <2>4, <2>5, <2>6, <2>7, <2>8, <2>9, ServerCases
<1>2. ServerInv /\ [ServerNext]_serverVars => [Stays]_serverVars
    BY <1>1
<1> HIDE DEF Stays
<1>3. ServerSpec => [][Stays]_serverVars
    BY <1>2, ServerAlways, PTL DEF ServerSpec
<1> QED BY <1>3 DEF EndStays, Stays

=============================================================================
