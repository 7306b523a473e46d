----------------------------- MODULE HttpServer -----------------------------
(***************************************************************************)
(* stemsmith::http::server (src/src/http/server.cpp): its job_registry and *)
(* the handlers of POST, GET and DELETE, on top of JobRunner, with the     *)
(* browser's poller (src/frontend/src/hooks/useJobStatus.ts) as client.    *)
(*                                                                         *)
(* The observer that POST passes with a job is job_registry::update, which *)
(* the runner calls from Notify and from its progress callback: those two  *)
(* steps of JobRunner are joined with the update here.  The other steps of *)
(* JobRunner leave the server alone.  Crow runs handlers on several        *)
(* threads, so each access to the registry, the disk and the runner is an  *)
(* action.                                                                 *)
(*                                                                         *)
(* A POST gets an id of its own and saves the upload under a path of its   *)
(* own (the id comes first in the name), so one constant stands for the    *)
(* call, its id, its path and its entry.  A request that is refused before *)
(* anything is written, a GET or DELETE of an unknown id and a DELETE of a *)
(* job whose status is terminal change nothing and are stuttering.  There  *)
(* is one DELETE per job that gets as far as cancel.  The destructor is    *)
(* not modelled: the server is up for good.                                *)
(*                                                                         *)
(* A definition with no comment that stands directly before the one it     *)
(* varies is a mutant of it.                                               *)
(***************************************************************************)
EXTENDS JobRunner

(* Calls of POST /jobs that have passed validation.                        *)
Posts == Requests

ASSUME PostsAssumption == Posts \subseteq Paths

VARIABLES
    post,       \* program counter of handle_post_job
    uploads,    \* the uploads that are on disk
    registry,   \* registry_: the status in last_event of a job's entry
    removing,   \* threads in update that have yet to remove an upload
    deleter,    \* program counter of handle_delete_job
    view        \* the status the poller was given last

serverVars == <<vars, post, uploads, registry, removing, deleter, view>>

Deleting(p) == <<"delete", p>>
ServerThreads == Threads \union {Deleting(p) : p \in Posts}

(* The values of the variables.                                            *)
ServerTypeOK ==
    /\ TypeOK
    /\ post \in [Posts -> {"idle", "submit", "submitting", "accepted", "refused", "unsaved"}]
    /\ uploads \in SUBSET Posts
    /\ registry \in [Posts -> Events \union {None}]
    /\ removing \in SUBSET (ServerThreads \X Posts)
    /\ deleter \in [Posts -> {"idle", "cancel", "conflict", "accepted"}]
    /\ view \in [Posts -> Events \union {None}]

ServerInit ==
    /\ Init
    /\ post = [p \in Posts |-> "idle"]
    /\ uploads = {}
    /\ registry = [p \in Posts |-> None]
    /\ removing = {}
    /\ deleter = [p \in Posts |-> "idle"]
    /\ view = [p \in Posts |-> None]

-----------------------------------------------------------------------------
(* job_registry::update                                                    *)

Removes_Never(event) == FALSE
Removes_Always(event) == TRUE
Removes(event) == event \in Terminal

(* The critical section; an event of an unknown job is dropped.            *)
Update(t, p, event) ==
    IF registry[p] = None
    THEN UNCHANGED <<registry, removing>>
    ELSE /\ registry' = [registry EXCEPT ![p] = event]
         /\ removing' = IF Removes(event) THEN removing \union {<<t, p>>} ELSE removing

(* What update does after the lock is released.                            *)
RemoveUpload(t, p) ==
    /\ <<t, p>> \in removing
    /\ removing' = removing \ {<<t, p>>}
    /\ uploads' = uploads \ {p}
    /\ UNCHANGED <<vars, post, registry, deleter, view>>

InUpdate(t) == \E p \in Posts : <<t, p>> \in removing

-----------------------------------------------------------------------------
(* The runner's threads                                                    *)

(* notify_observers for a context whose observer submit has set.           *)
ObserverIsSet(p) == submit[p].pc \in {"replay", "returned"}

ServerNotify(t) ==
    /\ Notify(t)
    /\ Update(t, handler[t].context, handler[t].event)
    /\ UNCHANGED <<post, uploads, deleter, view>>

ServerProgress(j) ==
    /\ ObserveProgress(j)
    /\ LET p == owner[j].context IN
       IF p # None /\ ObserverIsSet(p)
       THEN Update(Owning(j), p, "running")
       ELSE UNCHANGED <<registry, removing>>
    /\ UNCHANGED <<post, uploads, deleter, view>>

(* The steps of the runner's threads in which no observer is called.       *)
HandleQuietly(t) ==
    /\ Lookup(t) \/ (Fulfil(t) /\ ~InUpdate(t))
    /\ UNCHANGED <<post, uploads, registry, removing, deleter, view>>

OwnerQuietly(j) ==
    /\ \/ Start(j)
       \/ BeginProcess(j)
       \/ Progress(j)
       \/ EngineReturns(j)
       \/ CheckStop(j)
       \/ End(j)
       \/ EndWithdrawn(j)
    /\ UNCHANGED <<post, uploads, registry, removing, deleter, view>>

-----------------------------------------------------------------------------
(* handle_post_job                                                         *)

(* next_id and the write of the upload; a write that fails may leave a     *)
(* part of the file and answers 500.  What the stream holds back of one    *)
(* that succeeds, until the handler returns, is left out.                  *)
SaveUpload(p) ==
    /\ post[p] = "idle"
    /\ \/ /\ post' = [post EXCEPT ![p] = "submit"]
          /\ uploads' = uploads \union {p}
       \/ /\ post' = [post EXCEPT ![p] = "unsaved"]
          /\ uploads' \in {uploads, uploads \union {p}}
    /\ UNCHANGED <<vars, registry, removing, deleter, view>>

EntryOnSubmit_Early(p) == [registry EXCEPT ![p] = "queued"]
EntryOnSubmit(p) == registry

(* svc_->submit, up to its first access to what it shares.                 *)
SubmitJob(p) ==
    /\ post[p] = "submit"
    /\ Submit(p, p)
    /\ post' = [post EXCEPT ![p] = "submitting"]
    /\ registry' = EntryOnSubmit(p)
    /\ UNCHANGED <<uploads, removing, deleter, view>>

ContinueSubmit(p) ==
    /\ InSubmitStep(p)
    /\ UNCHANGED <<post, uploads, registry, removing, deleter, view>>

(* submit has returned an error.                                           *)
Refuse(p) ==
    /\ post[p] = "submitting"
    /\ submit[p].pc = "rejected"
    /\ uploads' = uploads \ {p}
    /\ post' = [post EXCEPT ![p] = "refused"]
    /\ UNCHANGED <<vars, registry, removing, deleter, view>>

(* registry_.add, after submit has returned; emplace keeps an entry that   *)
(* is there.                                                               *)
AddEntry(p) ==
    /\ post[p] = "submitting"
    /\ submit[p].pc = "returned"
    /\ registry' = [registry EXCEPT ![p] = IF @ = None THEN "queued" ELSE @]
    /\ post' = [post EXCEPT ![p] = "accepted"]
    /\ UNCHANGED <<vars, uploads, removing, deleter, view>>

-----------------------------------------------------------------------------
(* handle_delete_job                                                       *)

(* registry_.get and the test of the status it returned.                   *)
BeginDelete(p) ==
    /\ deleter[p] = "idle"
    /\ registry[p] \notin Terminal \union {None}
    /\ HandleCancel(p)
    /\ deleter' = [deleter EXCEPT ![p] = "cancel"]
    /\ UNCHANGED <<post, uploads, registry, removing, view>>

CancelJob(p) ==
    /\ CancelStep(p)
    /\ UNCHANGED <<post, uploads, registry, removing, deleter, view>>

CancelTaken_Any(p) == canceller[p] \in {"true", "false"}
CancelTaken(p) == canceller[p] = "true"

DeleteStatus_Pending == "cancelling"
DeleteStatus == "cancelled"

(* cancel has returned; if it succeeded, an event of the handler's own     *)
(* says so.                                                                *)
EndDelete(p) ==
    /\ deleter[p] = "cancel"
    /\ canceller[p] \in {"true", "false"}
    /\ IF CancelTaken(p)
       THEN /\ Update(Deleting(p), p, DeleteStatus)
            /\ deleter' = [deleter EXCEPT ![p] = "accepted"]
       ELSE /\ deleter' = [deleter EXCEPT ![p] = "conflict"]
            /\ UNCHANGED <<registry, removing>>
    /\ UNCHANGED <<vars, post, uploads, view>>

-----------------------------------------------------------------------------
(* GET /jobs/<id>, as the browser repeats it until the status is terminal. *)

Poll(p) ==
    /\ post[p] = "accepted"
    /\ view[p] \notin Terminal
    /\ view' = [view EXCEPT ![p] = registry[p]]
    /\ UNCHANGED <<vars, post, uploads, registry, removing, deleter>>

-----------------------------------------------------------------------------

ServerHandlerStep(t) == ServerNotify(t) \/ HandleQuietly(t)

ServerOwnerStep(j) == ServerProgress(j) \/ OwnerQuietly(j)

PostStep(p) == SubmitJob(p) \/ ContinueSubmit(p) \/ Refuse(p) \/ AddEntry(p)

DeleteStep(p) == CancelJob(p) \/ EndDelete(p)

ServerNext ==
    \/ \E t \in ServerThreads, p \in Posts : RemoveUpload(t, p)
    \/ \E t \in Threads : ServerHandlerStep(t)
    \/ \E j \in JobIds : ServerOwnerStep(j)
    \/ \E p \in Posts : \/ SaveUpload(p)
                        \/ PostStep(p)
                        \/ BeginDelete(p)
                        \/ DeleteStep(p)
                        \/ Poll(p)

ServerSpec == ServerInit /\ [][ServerNext]_serverVars

(* Threads of the server and of the runner keep being scheduled, as in     *)
(* JobRunner's FairSpec, and the browser keeps polling. Nobody has to POST *)
(* or DELETE.                                                              *)
ServerFairSpec ==
    /\ ServerSpec
    /\ \A t \in ServerThreads, p \in Posts : WF_serverVars(RemoveUpload(t, p))
    /\ \A t \in Threads : WF_serverVars(ServerHandlerStep(t))
    /\ \A j \in JobIds : WF_serverVars(ServerOwnerStep(j))
    /\ \A p \in Posts : /\ WF_serverVars(PostStep(p))
                        /\ WF_serverVars(DeleteStep(p))
                        /\ WF_serverVars(Poll(p))

-----------------------------------------------------------------------------
(* Properties                                                              *)

EndTold(p) == \E i \in DOMAIN observed[p] : observed[p][i] \in Terminal

(* An entry says completed or failed only when its own job ended so, and   *)
(* cancelled only when the job was withdrawn or told to stop, although     *)
(* DELETE writes an event of its own some time after it looked at the      *)
(* entry and at the job.                                                   *)
StatusTruthful ==
    \A p \in Posts :
        LET j == submit[p].job IN
        /\ registry[p] \in {"completed", "failed"} => status[j] = registry[p]
        /\ registry[p] = "cancelled" => stop[j] \/ status[j] \in {"withdrawn", "cancelled"}

(* Nobody removes the upload of a job that is still to read it, unless the *)
(* job was told to stop: not the worker that reports its events, nor a     *)
(* DELETE that came too late or found the job in no container.             *)
UploadKept ==
    \A p \in Posts :
        LET j == submit[p].job IN
        j \in JobIds /\ status[j] \in {"queued", "running"} /\ ~stop[j]
            => p \in uploads

(* Once a client is told that its job has ended, or that its POST is       *)
(* refused, its upload is gone or a thread is about to remove it.          *)
UploadCleared ==
    \A p \in Posts :
        (registry[p] \in Terminal \/ view[p] \in Terminal \/ post[p] = "refused") /\ p \in uploads
            => \E t \in ServerThreads : <<t, p>> \in removing

(* Once an entry has taken the end of its job, it is never again queued or *)
(* running: not by a replay of events that were pending, nor by a late     *)
(* progress event, nor by add.                                             *)
EndStays ==
    [][\A p \in Posts :
         EndTold(p) /\ registry[p] \in Terminal => registry'[p] \in Terminal]_serverVars

(* The browser learns of the end of every job that had not ended when its  *)
(* entry was added, whatever DELETE and progress write in between.         *)
PollerStops ==
    \A p \in Posts : registry[p] # None /\ ~EndTold(p) ~> view[p] \in Terminal

(* "upload a WAV, and download stems when done" (README.md:23): the        *)
(* download of an accepted job that has completed is offered, once submit's*)
(* future says so.                                                         *)
DownloadWhenDone ==
    \A p \in Posts :
        post[p] = "accepted" /\ promise[p] = "completed" => registry[p] = "completed"

=============================================================================
