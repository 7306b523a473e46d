--------------------------- MODULE JobRunnerProofs ---------------------------
(* Proofs about JobRunner, for any paths and any finite set of calls: type *)
(* correctness whatever overlaps, and where the events and results of a    *)
(* job go while one call of submit is in progress at a time.               *)
EXTENDS JobRunner, FiniteSetTheorems, SequenceTheorems, TLAPS

-----------------------------------------------------------------------------
(* The inductive invariant: what holds however many calls overlap          *)

HasPath(r) ==
    submit[r].pc \in {"context", "enqueue", "queued", "register", "replay", "returned"}
HasJob(r) == submit[r].pc \in {"queued", "register", "replay", "returned"}
Registered(r) == submit[r].pc \in {"replay", "returned"}

(* A thread that has looked its job's context up.                          *)
Calling(t) == handler[t].pc \in {"notify", "fulfil"}

(* The locals of submit, handle_event and the pool's thread are set where  *)
(* they are used.                                                          *)
SubmitOK ==
    \A r \in Requests :
        /\ submit[r].pc \in {"push", "insert"} => submit[r].request \in Paths
        /\ submit[r].pc = "insert" => jobs # <<>>
        /\ HasPath(r) => submit[r].path \in Paths
        /\ HasJob(r) <=> submit[r].job \in JobIds
        /\ submit[r].pc # "replay" => submit[r].todo = <<>>
        /\ canceller[r] # "idle" => submit[r].pc = "returned"

HandlerOK ==
    \A t \in Threads :
        /\ handler[t].pc = "idle" => handler[t] = NoCall
        /\ Handling(t) => handler[t].job \in JobIds /\ handler[t].event \in Events
        /\ Calling(t) => handler[t].context \in Requests
        /\ handler[t].pc = "fulfil" => handler[t].event \in Terminal

OwnerOK ==
    \A j \in JobIds :
        /\ owner[j].pc = "none" <=> status[j] \in {"none", "queued"}
        /\ owner[j].pc = "withdrawn" <=> status[j] = "withdrawn"
        /\ owner[j].pc = "ended" <=> status[j] \in Terminal
        /\ status[j] # "none" => owner[j].path \in Paths
        /\ owner[j].pc = "emit" => owner[j].result \in Terminal

TypesInv == TypeOK /\ SubmitOK /\ HandlerOK /\ OwnerOK

(* A job is of the one call that enqueued it.                              *)
JobsInv ==
    /\ \A r, q \in Requests : HasJob(r) /\ submit[r].job = submit[q].job => r = q
    /\ \A j \in JobIds : status[j] # "none" <=> \E r \in Requests : submit[r].job = j
    /\ \A r \in Requests : HasJob(r) => owner[submit[r].job].path = submit[r].path

(* A thread of the pool handles events of its own job, submit those of its *)
(* own, and neither begins with one before it is done with another.        *)
ThreadsInv ==
    /\ \A j \in JobIds :
         Handling(Owning(j)) => handler[Owning(j)].job = j /\ owner[j].pc \in {"begin", "ended"}
    /\ \A r \in Requests : LET t == Submitting(r) IN
         Handling(t) => /\ handler[t].job = submit[r].job
                        /\ \/ submit[r].pc = "register" /\ handler[t].event = "queued"
                           \/ submit[r].pc = "replay"

-----------------------------------------------------------------------------
(* The inductive invariant: one call of submit at a time                   *)

OneInv ==
    /\ \A r, q \in Requests : InSubmit(r) /\ InSubmit(q) => r = q
    /\ \A r \in Requests : submit[r].pc = "insert" => Last(jobs) = submit[r].request

(* From AddContext on, a path leads to the call that took it, and from     *)
(* Register on, an id to its path, both until its job's end is looked up.  *)
MapsInv ==
    /\ \A p \in Paths : contexts[p] # None =>
         LET r == contexts[p] IN HasPath(r) /\ submit[r].pc # "context" /\ submit[r].path = p
    /\ \A r \in Requests : submit[r].pc \in {"enqueue", "queued", "register"} =>
         contexts[submit[r].path] = r
    /\ \A r \in Requests : submit[r].pc \in {"queued", "register"} =>
         paths_by_id[submit[r].job] = None
    /\ \A r \in Requests : Registered(r) =>
         IF paths_by_id[submit[r].job] = None
         THEN contexts[submit[r].path] # r
         ELSE paths_by_id[submit[r].job] = submit[r].path /\ contexts[submit[r].path] = r
    /\ \A j \in JobIds : paths_by_id[j] # None => status[j] # "none"

(* The catalog has a path from the moment a call has taken it.             *)
CatalogInv ==
    /\ \A p \in Paths :
         p \in seen_paths <=> \/ contexts[p] # None
                              \/ \E r \in Requests : /\ submit[r].pc = "context"
                                                     /\ submit[r].path = p
    /\ \A r \in Requests :
         /\ submit[r].pc \in {"push", "insert"} => submit[r].request \notin seen_paths
         /\ submit[r].pc = "context" => contexts[submit[r].path] = None

(* Where the end of a call's job is: with the pool's thread, kept, to be   *)
(* replayed, with submit, or in the promise.                               *)
HasEnd(seq) == \E i \in DOMAIN seq : seq[i] \in Terminal

Ending(t) == handler[t].event \in Terminal

(* It is there at most once, and is the job's.                             *)
EndsOnce(seq, end) ==
    \A i \in DOMAIN seq : seq[i] \in Terminal =>
        seq[i] = end /\ \A k \in DOMAIN seq : seq[k] \in Terminal => k = i

(* What the pool's thread handles, what is kept, what is to be replayed,   *)
(* what submit handles and the promise: one of them has the end, at most.  *)
OneEnd(end, own, kept, todo, sub, result) ==
    /\ own \in Terminal => /\ own = end
                           /\ ~HasEnd(kept) /\ ~HasEnd(todo) /\ sub \notin Terminal
                           /\ result = None
    /\ HasEnd(kept) => ~HasEnd(todo) /\ sub \notin Terminal /\ result = None
    /\ HasEnd(todo) => sub \notin Terminal /\ result = None
    /\ sub \in Terminal => sub = end /\ result = None
    /\ result # None => result = end
    /\ EndsOnce(kept, end) /\ EndsOnce(todo, end)

PlaceOf(r) ==
    LET j == submit[r].job
    IN OneEnd(status[j], handler[Owning(j)].event, pending[j],
              submit[r].todo, handler[Submitting(r)].event, promise[r])

PlaceInv ==
    /\ \A r \in Requests : HasJob(r) => PlaceOf(r)
    /\ \A j \in JobIds : status[j] = "none" => pending[j] = <<>>

(* What is kept of a registered job is not its end.                        *)
KeptInv == \A r \in Requests : Registered(r) => ~HasEnd(pending[submit[r].job])

(* It was looked up, by a thread or by one that is done.                   *)
Took(t) == Calling(t) /\ Ending(t)
Taken(r) == Took(Owning(submit[r].job)) \/ Took(Submitting(r)) \/ promise[r] # None

(* The maps forget a job when its end is looked up, and not before.        *)
TakenInv ==
    \A r \in Requests :
        /\ promise[r] # None => HasJob(r)
        /\ HasJob(r) =>
             (Taken(r) <=> Registered(r) /\ paths_by_id[submit[r].job] = None)

(* Whom a thread has looked up is the call of its job.                     *)
ContextInv ==
    /\ \A t \in Threads : Calling(t) => submit[handler[t].context].job = handler[t].job
    /\ \A j \in JobIds : owner[j].pc = "observe" =>
         owner[j].context \in Requests /\ submit[owner[j].context].job = j

(* The observers are told of an end between its lookup and the promise.    *)
Told(r) ==
    \/ \E t \in Threads : handler[t].pc = "fulfil" /\ handler[t].context = r
    \/ promise[r] # None

ObservedInv ==
    \A r \in Requests :
        /\ HasEnd(observed[r]) <=> Told(r)
        /\ HasEnd(observed[r]) => HasJob(r) /\ EndsOnce(observed[r], status[submit[r].job])

AnyInv == TypesInv /\ JobsInv /\ ThreadsInv

RunnerInv ==
    /\ AnyInv /\ OneInv /\ MapsInv /\ CatalogInv
    /\ PlaceInv /\ KeptInv /\ TakenInv /\ ContextInv /\ ObservedInv

-----------------------------------------------------------------------------
(* Jobs and threads                                                        *)

(* The jobs, as the pool and the runner number them.                       *)
LEMMA Jobs == JobIds \subseteq Nat /\ NoJob \notin JobIds /\ Pool!JobIds = JobIds
<1>1. Cardinality(Requests) \in Nat
    BY RequestsAssumption, FS_CardinalityType
<1> QED BY <1>1 DEF JobIds, NoJob, MaxJobs, Pool!JobIds

(* Two threads are different if their names are.                           *)
LEMMA ThreadNames ==
    /\ \A r \in Requests : Submitting(r) \in Threads
    /\ \A j \in JobIds : Owning(j) \in Threads
    /\ \A r, q \in Requests : Submitting(r) = Submitting(q) => r = q
    /\ \A i, j \in JobIds : Owning(i) = Owning(j) => i = j
    /\ \A r \in Requests, j \in JobIds : Submitting(r) # Owning(j)
    /\ \A t \in Threads : \/ \E r \in Requests : t = Submitting(r)
                          \/ \E j \in JobIds : t = Owning(j)
BY DEF Threads, Submitting, Owning

(* None is no event.                                                       *)
LEMMA NoneApart ==
    /\ None \notin Requests /\ None \notin Paths /\ None \notin Events /\ None \notin Terminal
    /\ Terminal \subseteq Events
    /\ "queued" \in Events \ Terminal /\ "running" \in Events \ Terminal
BY NoneAssumption DEF Events, Terminal

(* An idle thread.                                                         *)
LEMMA NoCallOK ==
    /\ NoCall \in HandlerLocals
    /\ NoCall.pc = "idle" /\ NoCall.event = None
BY DEF NoCall, HandlerLocals

-----------------------------------------------------------------------------
(* What the steps do to a thread's locals                                  *)

SubmitPcs == {"idle", "push", "insert", "context", "enqueue", "queued", "register", "replay",
              "returned", "rejected"}

OwnerPcs == {"none", "withdrawn", "begin", "progress", "observe", "result", "check", "emit",
             "ended"}

(* What moving a program counter does.                                     *)
LEMMA SubmitGoes ==
    ASSUME TypesInv, NEW r \in Requests, NEW pc \in SubmitPcs, GoSubmit(r, pc)
    PROVE  /\ submit' \in [Requests -> SubmitLocals]
           /\ submit'[r].pc = pc /\ submit'[r].request = submit[r].request
           /\ submit'[r].path = submit[r].path /\ submit'[r].job = submit[r].job
           /\ submit'[r].todo = submit[r].todo
           /\ \A q \in Requests \ {r} : submit'[q] = submit[q]
BY DEF TypesInv, TypeOK, GoSubmit, SubmitLocals, SubmitPcs

(* The same of the pool's thread.                                          *)
LEMMA OwnerGoes ==
    ASSUME TypesInv, NEW j \in JobIds, NEW pc \in OwnerPcs, GoOwner(j, pc)
    PROVE  /\ owner' \in [JobIds -> OwnerLocals]
           /\ owner'[j].pc = pc /\ owner'[j].path = owner[j].path
           /\ owner'[j].context = owner[j].context /\ owner'[j].result = owner[j].result
           /\ \A i \in JobIds \ {j} : owner'[i] = owner[i]
BY DEF TypesInv, TypeOK, GoOwner, OwnerLocals, OwnerPcs

(* What HandleEvent does.                                                  *)
LEMMA EventHandled ==
    ASSUME TypesInv, NEW t \in Threads, NEW j \in JobIds, NEW e \in Events, HandleEvent(t, j, e)
    PROVE  /\ handler' \in [Threads -> HandlerLocals]
           /\ handler'[t].pc = "lookup" /\ handler'[t].job = j /\ handler'[t].event = e
           /\ \A u \in Threads \ {t} : handler'[u] = handler[u]
           /\ HandlerOK'
<1>1. /\ handler' \in [Threads -> HandlerLocals]
      /\ handler'[t].pc = "lookup" /\ handler'[t].job = j /\ handler'[t].event = e
      /\ \A u \in Threads \ {t} : handler'[u] = handler[u]
    BY DEF TypesInv, TypeOK, HandleEvent, HandlerLocals
<1> QED BY <1>1 DEF TypesInv, HandlerOK, Handling, Calling

-----------------------------------------------------------------------------
(* The steps, by what they change                                          *)

(* Lookup, where the id is not known.                                      *)
Keeps(t) ==
    /\ handler[t].pc = "lookup" /\ paths_by_id[handler[t].job] = None
    /\ handler' \in [Threads -> HandlerLocals]
    /\ handler'[t] = NoCall
    /\ \A u \in Threads \ {t} : handler'[u] = handler[u]
    /\ pending' \in [JobIds -> Seq(Events)]
    /\ pending'[handler[t].job] = Append(pending[handler[t].job], handler[t].event)
    /\ \A j \in JobIds \ {handler[t].job} : pending'[j] = pending[j]
    /\ UNCHANGED <<poolVars, jobs, promise, threadVars, observed>>
    /\ UNCHANGED <<seen_paths, contexts, paths_by_id>>

(* Lookup, where it is.                                                    *)
Finds(t) ==
    LET p == paths_by_id[handler[t].job] IN
    /\ handler[t].pc = "lookup" /\ p \in Paths
    /\ handler' \in [Threads -> HandlerLocals]
    /\ contexts[p] = None => handler'[t] = NoCall
    /\ contexts[p] # None =>
         /\ handler'[t].pc = "notify" /\ handler'[t].context = contexts[p]
         /\ handler'[t].job = handler[t].job /\ handler'[t].event = handler[t].event
    /\ \A u \in Threads \ {t} : handler'[u] = handler[u]
    /\ UNCHANGED <<poolVars, jobs, promise, threadVars, observed, pending>>

(* What else it does then: the end of a job is forgotten.                  *)
Forgets(t) ==
    LET p == paths_by_id[handler[t].job] IN
    /\ handler[t].event \in Terminal
    /\ paths_by_id' \in [JobIds -> Paths \union {None}]
    /\ contexts' \in [Paths -> Requests \union {None}]
    /\ paths_by_id'[handler[t].job] = None
    /\ \A j \in JobIds \ {handler[t].job} : paths_by_id'[j] = paths_by_id[j]
    /\ contexts'[p] = None
    /\ \A q \in Paths \ {p} : contexts'[q] = contexts[q]
    /\ seen_paths' = seen_paths \ {p}

(* Lookup keeps the event, or finds the context, and then forgets an ended *)
(* job.                                                                    *)
LEMMA LookupCases ==
    ASSUME TypesInv, NEW t \in Threads, Lookup(t)
    PROVE  \/ Keeps(t)
           \/ /\ Finds(t)
              /\ \/ Forgets(t)
                 \/ /\ handler[t].event \notin Terminal
                    /\ UNCHANGED <<seen_paths, contexts, paths_by_id>>
<1> DEFINE j == handler[t].job
           e == handler[t].event
           p == paths_by_id[j]
<1>1. j \in JobIds /\ e \in Events /\ handler[t] \in HandlerLocals /\ handler[t].pc = "lookup"
    BY DEF TypesInv, TypeOK, HandlerOK, Handling, Lookup
<1>2. p \in Paths \union {None} /\ None \notin Paths
    BY <1>1, NoneApart DEF TypesInv, TypeOK
<1>3. CASE p = None
    <2>1. /\ pending' = [pending EXCEPT ![j] = Append(@, e)]
          /\ handler' = [handler EXCEPT ![t] = NoCall]
          /\ UNCHANGED <<seen_paths, contexts, paths_by_id>>
        BY <1>3 DEF Lookup
    <2>2. pending \in [JobIds -> Seq(Events)] /\ handler \in [Threads -> HandlerLocals]
        BY DEF TypesInv, TypeOK
    <2>3. Append(pending[j], e) \in Seq(Events)
        BY <1>1, <2>2, AppendProperties
    <2>4. /\ pending' \in [JobIds -> Seq(Events)] /\ pending'[j] = Append(pending[j], e)
          /\ \A i \in JobIds \ {j} : pending'[i] = pending[i]
        BY <1>1, <2>1, <2>2, <2>3
    <2>5. /\ handler' \in [Threads -> HandlerLocals] /\ handler'[t] = NoCall
          /\ \A u \in Threads \ {t} : handler'[u] = handler[u]
        BY <2>1, <2>2, NoCallOK
    <2> QED BY <1>1, <1>3, <2>1, <2>4, <2>5 DEF Keeps, Lookup
<1>4. CASE p \in Paths
    <2>1. /\ handler' = [handler EXCEPT ![t] =
                           IF contexts[p] = None THEN NoCall
                           ELSE [@ EXCEPT !.pc = "notify", !.context = contexts[p]]]
          /\ UNCHANGED pending
        BY <1>2, <1>4 DEF Lookup
    <2>2. /\ handler \in [Threads -> HandlerLocals]
          /\ contexts \in [Paths -> Requests \union {None}]
          /\ paths_by_id \in [JobIds -> Paths \union {None}]
        BY DEF TypesInv, TypeOK
    <2>3. contexts[p] \in Requests \union {None}
        BY <1>4, <2>2
    <2>4. /\ contexts[p] = None => handler'[t] = NoCall
          /\ contexts[p] # None =>
               /\ handler'[t].pc = "notify" /\ handler'[t].context = contexts[p]
               /\ handler'[t].job = j /\ handler'[t].event = e
          /\ handler' \in [Threads -> HandlerLocals]
          /\ \A u \in Threads \ {t} : handler'[u] = handler[u]
        <3>1. CASE contexts[p] = None
            BY <2>1, <2>2, <3>1, NoCallOK
        <3>2. CASE contexts[p] # None
            BY <1>1, <2>1, <2>2, <2>3, <3>2 DEF HandlerLocals
        <3> QED BY <3>1, <3>2
    <2>5. Finds(t)
        BY <1>1, <1>4, <2>1, <2>4 DEF Finds, Lookup
    <2>6. CASE e \in Terminal
        <3>1. /\ paths_by_id' = [paths_by_id EXCEPT ![j] = None]
              /\ contexts' = [contexts EXCEPT ![p] = None]
              /\ seen_paths' = seen_paths \ {p}
            BY <1>2, <1>4, <2>6 DEF Lookup, ForgetsJob
        <3> QED BY <1>1, <1>4, <2>2, <2>5, <2>6, <3>1 DEF Forgets
    <2>7. CASE e \notin Terminal
        BY <1>2, <1>4, <2>5, <2>7 DEF Lookup, ForgetsJob
    <2> QED BY <2>6, <2>7
<1> QED BY <1>2, <1>3, <1>4

(* notify_observers has told the context's observers.                      *)
LEMMA NotifyEffect ==
    ASSUME TypesInv, NEW t \in Threads, Notify(t)
    PROVE  /\ handler[t].pc = "notify" /\ handler[t].context \in Requests
           /\ handler[t].event \in Events
           /\ handler' \in [Threads -> HandlerLocals]
           /\ \A u \in Threads \ {t} : handler'[u] = handler[u]
           /\ handler[t].event \notin Terminal => handler'[t] = NoCall
           /\ handler[t].event \in Terminal =>
                /\ handler'[t].pc = "fulfil" /\ handler'[t].event = handler[t].event
                /\ handler'[t].job = handler[t].job /\ handler'[t].context = handler[t].context
           /\ observed' \in [Requests -> Seq(Events)]
           /\ observed'[handler[t].context] =
                Append(observed[handler[t].context], handler[t].event)
           /\ \A r \in Requests \ {handler[t].context} : observed'[r] = observed[r]
           /\ UNCHANGED <<poolVars, runnerVars, promise, threadVars>>
<1> DEFINE r == handler[t].context
           e == handler[t].event
<1>1. /\ r \in Requests /\ e \in Events /\ handler[t] \in HandlerLocals
      /\ handler[t].pc = "notify" /\ handler \in [Threads -> HandlerLocals]
      /\ observed \in [Requests -> Seq(Events)]
    BY DEF TypesInv, TypeOK, HandlerOK, Handling, Calling, Notify
<1>2. /\ observed' = [observed EXCEPT ![r] = Append(@, e)]
      /\ handler' = [handler EXCEPT ![t] = IF e \in Terminal THEN [@ EXCEPT !.pc = "fulfil"]
                                                             ELSE NoCall]
      /\ UNCHANGED <<poolVars, runnerVars, promise, threadVars>>
    BY DEF Notify, Observe, Fulfils
<1>3. Append(observed[r], e) \in Seq(Events)
    BY <1>1, AppendProperties
<1>4. /\ observed' \in [Requests -> Seq(Events)] /\ observed'[r] = Append(observed[r], e)
      /\ \A q \in Requests \ {r} : observed'[q] = observed[q]
    BY <1>1, <1>2, <1>3
<1>5. CASE e \in Terminal
    <2>1. /\ handler' \in [Threads -> HandlerLocals]
          /\ \A u \in Threads \ {t} : handler'[u] = handler[u]
          /\ handler'[t].pc = "fulfil" /\ handler'[t].event = e
          /\ handler'[t].job = handler[t].job /\ handler'[t].context = r
        BY <1>1, <1>2, <1>5 DEF HandlerLocals
    <2> QED BY <1>1, <1>2, <1>4, <1>5, <2>1
<1>6. CASE e \notin Terminal
    BY <1>1, <1>2, <1>4, <1>6, NoCallOK
<1> QED BY <1>5, <1>6

(* What Fulfil does.                                                       *)
LEMMA FulfilEffect ==
    ASSUME TypesInv, NEW t \in Threads, Fulfil(t)
    PROVE  /\ handler[t].pc = "fulfil" /\ handler[t].context \in Requests
           /\ handler[t].event \in Terminal
           /\ handler' \in [Threads -> HandlerLocals]
           /\ handler'[t] = NoCall
           /\ \A u \in Threads \ {t} : handler'[u] = handler[u]
           /\ promise' \in [Requests -> Terminal \union {None}]
           /\ promise'[handler[t].context] = handler[t].event
           /\ \A r \in Requests \ {handler[t].context} : promise'[r] = promise[r]
           /\ UNCHANGED <<poolVars, runnerVars, threadVars, observed>>
<1>1. /\ handler[t].pc = "fulfil" /\ handler[t].context \in Requests
      /\ handler[t].event \in Terminal
      /\ handler \in [Threads -> HandlerLocals]
      /\ promise \in [Requests -> Terminal \union {None}]
    BY DEF TypesInv, TypeOK, HandlerOK, Calling, Fulfil
<1> QED BY <1>1, NoCallOK DEF Fulfil

-----------------------------------------------------------------------------
(* submit, step by step: each changes the locals of its own call only      *)

OnlyCall(r) ==
    /\ submit' \in [Requests -> SubmitLocals]
    /\ \A q \in Requests \ {r} : submit'[q] = submit[q]

(* What Submit does.                                                       *)
LEMMA SubmitEffect ==
    ASSUME TypesInv, NEW r \in Requests, NEW p \in Paths, Submit(r, p)
    PROVE  /\ OnlyCall(r)
           /\ submit[r].pc = "idle" /\ submit'[r].pc \in {"push", "rejected"}
           /\ submit'[r].pc = "push" => p \notin seen_paths
           /\ submit'[r].request = p /\ submit'[r].path = submit[r].path
           /\ submit'[r].job = submit[r].job /\ submit'[r].todo = submit[r].todo
           /\ UNCHANGED <<poolVars, runnerVars, promise, owner, canceller, handler, observed>>
<1>1. PICK pc \in IF AlreadySeen(p) THEN {"rejected"} ELSE {"push", "rejected"} :
        submit' = [submit EXCEPT ![r].pc = pc, ![r].request = p]
    BY DEF Submit
<1>2. pc \in {"push", "rejected"} /\ (pc = "push" => p \notin seen_paths)
    BY <1>1 DEF AlreadySeen
<1>3. /\ OnlyCall(r) /\ submit'[r].pc = pc
      /\ submit'[r].request = p /\ submit'[r].path = submit[r].path
      /\ submit'[r].job = submit[r].job /\ submit'[r].todo = submit[r].todo
    BY <1>1, <1>2 DEF OnlyCall, TypesInv, TypeOK, SubmitLocals
<1> QED BY <1>2, <1>3 DEF Submit

(* What InsertSeen does.                                                   *)
LEMMA InsertEffect ==
    ASSUME TypesInv, NEW r \in Requests, InsertSeen(r)
    PROVE  /\ OnlyCall(r)
           /\ submit[r].pc = "insert" /\ submit'[r].pc = "context"
           /\ submit'[r].path = Last(jobs) /\ submit'[r].path \in Paths
           /\ submit'[r].request = submit[r].request
           /\ submit'[r].job = submit[r].job /\ submit'[r].todo = submit[r].todo
           /\ submit[r].request \in Paths
           /\ seen_paths' = seen_paths \union {submit[r].request}
           /\ UNCHANGED <<poolVars, jobs, contexts, paths_by_id, pending, promise, owner,
                          canceller, handler, observed>>
<1>1. /\ submit[r].pc = "insert" /\ submit[r].request \in Paths
      /\ jobs \in Seq(Paths) /\ jobs # <<>>
    BY DEF TypesInv, TypeOK, SubmitOK, InsertSeen
<1>2. Last(jobs) \in Paths
    BY <1>1, EmptySeq, LenProperties DEF Last
<1>3. submit' = [submit EXCEPT ![r].pc = "context", ![r].path = Last(jobs)]
    BY DEF InsertSeen
<1>4. /\ OnlyCall(r) /\ submit'[r].pc = "context" /\ submit'[r].path = Last(jobs)
      /\ submit'[r].request = submit[r].request
      /\ submit'[r].job = submit[r].job /\ submit'[r].todo = submit[r].todo
    BY <1>2, <1>3 DEF OnlyCall, TypesInv, TypeOK, SubmitLocals
<1> QED BY <1>1, <1>2, <1>4 DEF InsertSeen

(* The job it is given is a new one.                                       *)
LEMMA EnqueueEffect ==
    ASSUME TypesInv, NEW r \in Requests, Enqueue(r)
    PROVE  /\ OnlyCall(r)
           /\ submit[r].pc = "enqueue" /\ submit'[r].pc = "queued"
           /\ submit'[r].path = submit[r].path /\ submit'[r].request = submit[r].request
           /\ submit'[r].todo = submit[r].todo
           /\ submit'[r].job \in JobIds
           /\ status[submit'[r].job] = "none"
           /\ status' \in [JobIds -> Pool!Status] /\ status'[submit'[r].job] = "queued"
           /\ owner' \in [JobIds -> OwnerLocals]
           /\ owner'[submit'[r].job].path = submit[r].path
           /\ owner'[submit'[r].job].pc = owner[submit'[r].job].pc
           /\ owner'[submit'[r].job].result = owner[submit'[r].job].result
           /\ owner'[submit'[r].job].context = owner[submit'[r].job].context
           /\ \A i \in JobIds \ {submit'[r].job} :
                status'[i] = status[i] /\ owner'[i] = owner[i]
           /\ UNCHANGED <<open, stop, runnerVars, promise, canceller, handler, observed>>
<1>1. PICK j \in JobIds :
        /\ Pool!Accept(j)
        /\ submit' = [submit EXCEPT ![r].pc = "queued", ![r].job = j]
        /\ owner' = [owner EXCEPT ![j].path = submit[r].path]
    BY DEF Enqueue
<1>2. submit[r].pc = "enqueue" /\ submit[r].path \in Paths
    BY DEF Enqueue, TypesInv, SubmitOK, HasPath
<1>3. /\ OnlyCall(r) /\ submit'[r].pc = "queued" /\ submit'[r].job = j
      /\ submit'[r].path = submit[r].path /\ submit'[r].request = submit[r].request
      /\ submit'[r].todo = submit[r].todo
    BY <1>1 DEF OnlyCall, TypesInv, TypeOK, SubmitLocals
<1>4. /\ owner' \in [JobIds -> OwnerLocals] /\ owner'[j].path = submit[r].path
      /\ owner'[j].pc = owner[j].pc /\ owner'[j].result = owner[j].result
      /\ owner'[j].context = owner[j].context
      /\ \A i \in JobIds \ {j} : owner'[i] = owner[i]
    BY <1>1, <1>2 DEF TypesInv, TypeOK, OwnerLocals
<1>5. /\ status[j] = "none" /\ status' \in [JobIds -> Pool!Status] /\ status'[j] = "queued"
      /\ \A i \in JobIds \ {j} : status'[i] = status[i]
      /\ UNCHANGED open
    BY <1>1, Jobs DEF Pool!Accept, Pool!Move, TypesInv, TypeOK, Pool!LifecycleTypeOK, Pool!Status
<1> QED BY <1>1, <1>2, <1>3, <1>4, <1>5 DEF Enqueue

(* The job of a call that has one.                                         *)
LEMMA JobOfCall ==
    ASSUME TypesInv, NEW r \in Requests, HasJob(r)
    PROVE  submit[r].job \in JobIds /\ submit[r].path \in Paths
BY DEF TypesInv, SubmitOK, HasJob, HasPath

(* What Register does.                                                     *)
LEMMA RegisterEffect ==
    ASSUME TypesInv, NEW r \in Requests, Register(r)
    PROVE  /\ OnlyCall(r)
           /\ submit[r].pc = "register" /\ submit'[r].pc = "replay"
           /\ handler[Submitting(r)].pc = "idle"
           /\ submit[r].job \in JobIds
           /\ submit'[r].path = submit[r].path /\ submit'[r].request = submit[r].request
           /\ submit'[r].job = submit[r].job /\ submit'[r].todo = pending[submit[r].job]
           /\ paths_by_id' \in [JobIds -> Paths \union {None}]
           /\ paths_by_id'[submit[r].job] = submit[r].path
           /\ \A j \in JobIds \ {submit[r].job} : paths_by_id'[j] = paths_by_id[j]
           /\ pending' \in [JobIds -> Seq(Events)] /\ pending'[submit[r].job] = <<>>
           /\ \A j \in JobIds \ {submit[r].job} : pending'[j] = pending[j]
           /\ UNCHANGED <<poolVars, seen_paths, jobs, contexts, promise, owner, canceller,
                          handler, observed>>
<1> DEFINE j == submit[r].job
           p == submit[r].path
<1>1. submit[r].pc = "register" /\ ~Handling(Submitting(r)) /\ j \in JobIds /\ p \in Paths
    BY JobOfCall DEF Register, HasJob
<1>2. /\ paths_by_id' = [paths_by_id EXCEPT ![j] = p]
      /\ pending' = [pending EXCEPT ![j] = <<>>]
      /\ submit' = [submit EXCEPT ![r].pc = "replay", ![r].todo = pending[j]]
    BY DEF Register, LeftPending, TakenPending
<1>3. pending \in [JobIds -> Seq(Events)] /\ paths_by_id \in [JobIds -> Paths \union {None}]
    BY DEF TypesInv, TypeOK
<1>4. <<>> \in Seq(Events) /\ pending[j] \in Seq(Events)
    BY <1>1, <1>3, EmptySeq
<1>5. /\ OnlyCall(r) /\ submit'[r].pc = "replay" /\ submit'[r].todo = pending[j]
      /\ submit'[r].path = p /\ submit'[r].request = submit[r].request
      /\ submit'[r].job = j
    BY <1>2, <1>4 DEF OnlyCall, TypesInv, TypeOK, SubmitLocals
<1>6. /\ paths_by_id' \in [JobIds -> Paths \union {None}] /\ paths_by_id'[j] = p
      /\ \A i \in JobIds \ {j} : paths_by_id'[i] = paths_by_id[i]
      /\ pending' \in [JobIds -> Seq(Events)] /\ pending'[j] = <<>>
      /\ \A i \in JobIds \ {j} : pending'[i] = pending[i]
    BY <1>1, <1>2, <1>3, <1>4
<1>7. handler[Submitting(r)].pc = "idle"
    BY <1>1 DEF Handling
<1> QED BY <1>1, <1>5, <1>6, <1>7 DEF Register

(* One event of those that were kept goes to handle_event.                 *)
Replays(r) ==
    /\ submit[r].todo # <<>> /\ submit[r].todo \in Seq(Events)
    /\ submit'[r].pc = "replay" /\ submit'[r].todo = Tail(submit[r].todo)
    /\ HandleEvent(Submitting(r), submit[r].job, Head(submit[r].todo))
    /\ Head(submit[r].todo) \in Events

(* What Replay does: it returns, or handles what comes first.              *)
LEMMA ReplayEffect ==
    ASSUME TypesInv, NEW r \in Requests, Replay(r)
    PROVE  /\ OnlyCall(r)
           /\ submit[r].pc = "replay" /\ handler[Submitting(r)].pc = "idle"
           /\ submit[r].job \in JobIds
           /\ submit'[r].path = submit[r].path /\ submit'[r].request = submit[r].request
           /\ submit'[r].job = submit[r].job
           /\ \/ /\ submit[r].todo = <<>> /\ submit'[r].todo = <<>>
                 /\ submit'[r].pc = "returned"
                 /\ UNCHANGED handler
              \/ Replays(r)
           /\ UNCHANGED <<poolVars, runnerVars, promise, owner, canceller, observed>>
<1> DEFINE todo == submit[r].todo
<1>1. /\ submit[r].pc = "replay" /\ ~Handling(Submitting(r)) /\ submit[r].job \in JobIds
      /\ UNCHANGED <<poolVars, runnerVars, promise, owner, canceller, observed>>
    BY JobOfCall DEF Replay, HasJob
<1>2. todo \in Seq(Events) /\ handler[Submitting(r)].pc = "idle"
    BY <1>1 DEF TypesInv, TypeOK, SubmitLocals, Handling
<1>3. CASE todo = <<>>
    <2>1. GoSubmit(r, "returned") /\ UNCHANGED handler
        BY <1>3 DEF Replay
    <2>2. /\ OnlyCall(r) /\ submit'[r].pc = "returned" /\ submit'[r].path = submit[r].path
          /\ submit'[r].request = submit[r].request /\ submit'[r].job = submit[r].job
          /\ submit'[r].todo = todo
        BY <2>1, SubmitGoes DEF OnlyCall, SubmitPcs
    <2> QED BY <1>1, <1>2, <1>3, <2>1, <2>2
<1>4. CASE todo # <<>>
    <2>1. /\ HandleEvent(Submitting(r), submit[r].job, Head(todo))
          /\ submit' = [submit EXCEPT ![r].todo = Tail(@)]
        BY <1>4 DEF Replay
    <2>2. Head(todo) \in Events /\ Tail(todo) \in Seq(Events)
        BY <1>2, <1>4, HeadTailProperties
    <2>3. /\ OnlyCall(r) /\ submit'[r].pc = submit[r].pc /\ submit'[r].path = submit[r].path
          /\ submit'[r].request = submit[r].request /\ submit'[r].job = submit[r].job
          /\ submit'[r].todo = Tail(todo)
        BY <2>1, <2>2 DEF OnlyCall, TypesInv, TypeOK, SubmitLocals
    <2> QED BY <1>1, <1>2, <1>4, <2>1, <2>2, <2>3 DEF Replays
<1> QED BY <1>3, <1>4

-----------------------------------------------------------------------------
(* The pool's thread for a job: each step changes its own locals only      *)

OnlyOwner(j) ==
    /\ owner' \in [JobIds -> OwnerLocals]
    /\ \A i \in JobIds \ {j} : owner'[i] = owner[i]

(* A step within process_job, or the look at the stop flag.                *)
WorkStep(j) ==
    BeginProcess(j) \/ Progress(j) \/ ObserveProgress(j) \/ EngineReturns(j) \/ CheckStop(j)

(* A progress callback has returned.                                       *)
CallbackEnds(o, pc, threw) == [o EXCEPT !.pc = pc, !.threw = threw, !.context = None]

(* The locals of the pool's thread after it.                               *)
LEMMA CallbackLocals ==
    ASSUME NEW o \in OwnerLocals, NEW pc \in OwnerPcs, NEW threw \in BOOLEAN
    PROVE  /\ CallbackEnds(o, pc, threw) \in OwnerLocals
           /\ CallbackEnds(o, pc, threw).pc = pc
           /\ CallbackEnds(o, pc, threw).path = o.path
BY DEF OwnerLocals, OwnerPcs, CallbackEnds

(* What a step within process_job does.                                    *)
LEMMA WorkEffect ==
    ASSUME TypesInv, NEW j \in JobIds, WorkStep(j)
    PROVE  /\ OnlyOwner(j)
           /\ owner[j].pc \in {"begin", "progress", "observe", "result", "check"}
           /\ owner'[j].pc \in {"progress", "observe", "result", "check", "emit"}
           /\ owner[j].pc = "begin" => handler[Owning(j)].pc = "idle"
           /\ owner'[j].path = owner[j].path
           /\ owner'[j].pc = "emit" => owner'[j].result \in Terminal
           /\ owner'[j].pc = "observe" =>
                owner[j].pc = "progress" /\ owner'[j].context = contexts[owner[j].path]
           /\ UNCHANGED <<poolVars, runnerVars, promise, submit, canceller, handler, observed>>
<1>1. owner \in [JobIds -> OwnerLocals] /\ contexts \in [Paths -> Requests \union {None}]
      /\ status \in [JobIds -> Pool!Status]
    BY Jobs DEF TypesInv, TypeOK, Pool!LifecycleTypeOK
<1>2. CASE BeginProcess(j)
    <2>1. PICK pc \in {"check", "progress", "result"} : GoOwner(j, pc)
        BY <1>2 DEF BeginProcess
    <2>2. pc \in OwnerPcs
        BY DEF OwnerPcs
    <2>3. OnlyOwner(j) /\ owner'[j].pc = pc /\ owner'[j].path = owner[j].path
        BY <2>1, <2>2, OwnerGoes DEF OnlyOwner
    <2> QED BY <1>2, <2>3 DEF BeginProcess, Handling
<1>3. CASE Progress(j)
    <2>1. owner[j].path \in Paths
        <3>1. status[j] \notin {"none", "queued"}
            BY <1>3 DEF Progress, TypesInv, OwnerOK
        <3> QED BY <3>1 DEF TypesInv, OwnerOK
    <2>2. contexts[owner[j].path] \in Requests \union {None}
        BY <1>1, <2>1
    <2>3. owner' = [owner EXCEPT ![j].pc = "observe", ![j].context = contexts[owner[j].path]]
        BY <1>3 DEF Progress
    <2>4. /\ OnlyOwner(j) /\ owner'[j].pc = "observe"
          /\ owner'[j].path = owner[j].path /\ owner'[j].context = contexts[owner[j].path]
        BY <1>1, <2>2, <2>3 DEF OnlyOwner, OwnerLocals
    <2> QED BY <1>3, <2>4 DEF Progress
<1>4. CASE ObserveProgress(j)
    <2>1. stop[j] \in BOOLEAN
        BY DEF TypesInv, TypeOK
    <2>2. "check" \in OwnerPcs /\ "result" \in OwnerPcs /\ owner[j] \in OwnerLocals
        BY <1>1 DEF OwnerPcs
    <2>3. PICK pc \in {"check", "result"} :
            owner' = [owner EXCEPT ![j].pc = pc, ![j].threw = stop[j], ![j].context = None]
        BY <1>4 DEF ObserveProgress
    <2> DEFINE n == CallbackEnds(owner[j], pc, stop[j])
    <2>4. n \in OwnerLocals /\ n.pc = pc /\ n.path = owner[j].path
        BY <2>1, <2>2, CallbackLocals
    <2>5. owner' = [owner EXCEPT ![j] = n]
        BY <1>1, <2>3, Zenon DEF CallbackEnds
    <2> HIDE DEF n
    <2>6. OnlyOwner(j) /\ owner'[j].path = owner[j].path /\ owner'[j].pc \in {"check", "result"}
        BY <1>1, <2>4, <2>5 DEF OnlyOwner
    <2> QED BY <1>4, <2>6 DEF ObserveProgress
<1>5. CASE EngineReturns(j)
    <2>1. PICK failed \in BOOLEAN :
            owner' = [owner EXCEPT ![j].pc = "check", ![j].threw = failed /\ ~stop[j]]
        BY <1>5 DEF EngineReturns
    <2>2. (failed /\ ~stop[j]) \in BOOLEAN
        OBVIOUS
    <2>3. OnlyOwner(j) /\ owner'[j].path = owner[j].path /\ owner'[j].pc = "check"
        BY <1>1, <2>1, <2>2 DEF OnlyOwner, OwnerLocals
    <2> QED BY <1>5, <2>3 DEF EngineReturns
<1>6. CASE CheckStop(j)
    <2>1. PICK result \in Terminal :
            owner' = [owner EXCEPT ![j].pc = "emit", ![j].result = result]
        BY <1>6 DEF CheckStop, Terminal
    <2>2. /\ OnlyOwner(j) /\ owner'[j].path = owner[j].path /\ owner'[j].pc = "emit"
          /\ owner'[j].result = result
        BY <1>1, <2>1 DEF OnlyOwner, OwnerLocals
    <2> QED BY <1>6, <2>2 DEF CheckStop
<1> QED BY <1>2, <1>3, <1>4, <1>5, <1>6 DEF WorkStep

OnlyJob(j, from, to) ==
    /\ status' \in [JobIds -> Pool!Status]
    /\ status[j] = from /\ status'[j] = to
    /\ \A i \in JobIds \ {j} : status'[i] = status[i]
    /\ UNCHANGED open

(* What a move of the pool does.                                           *)
LEMMA PoolMoves ==
    ASSUME TypesInv, NEW j \in JobIds, NEW from, NEW to \in Pool!Status, Pool!Move(j, from, to)
    PROVE  OnlyJob(j, from, to)
BY Jobs DEF TypesInv, TypeOK, Pool!LifecycleTypeOK, Pool!Move, OnlyJob

(* What Start does.                                                        *)
LEMMA StartEffect ==
    ASSUME TypesInv, NEW j \in JobIds, Start(j)
    PROVE  /\ OnlyJob(j, "queued", "running")
           /\ HandleEvent(Owning(j), j, "running")
           /\ OnlyOwner(j) /\ owner'[j].pc = "begin" /\ owner'[j].path = owner[j].path
           /\ UNCHANGED <<stop, runnerVars, promise, submit, canceller, observed>>
<1>1. /\ Pool!Move(j, "queued", "running") /\ GoOwner(j, "begin")
      /\ HandleEvent(Owning(j), j, "running")
      /\ UNCHANGED <<stop, runnerVars, promise, submit, canceller, observed>>
    BY DEF Start, Pool!Start
<1>2. "running" \in Pool!Status /\ "begin" \in OwnerPcs
    BY DEF Pool!Status, OwnerPcs
<1>3. OnlyJob(j, "queued", "running")
    BY <1>1, <1>2, PoolMoves
<1>4. OnlyOwner(j) /\ owner'[j].pc = "begin" /\ owner'[j].path = owner[j].path
    BY <1>1, <1>2, OwnerGoes DEF OnlyOwner
<1> QED BY <1>1, <1>3, <1>4

(* The job ends, by either way.                                            *)
EndStep(j) == End(j) \/ EndWithdrawn(j)

Ends(j, result) ==
    /\ result \in Terminal
    /\ OnlyJob(j, status[j], result)
    /\ HandleEvent(Owning(j), j, result)

(* What the step that ends a job does.                                     *)
LEMMA EndEffect ==
    ASSUME TypesInv, NEW j \in JobIds, EndStep(j)
    PROVE  /\ \E result \in Terminal : Ends(j, result)
           /\ status[j] \in {"running", "withdrawn"} /\ owner[j].pc \in {"emit", "withdrawn"}
           /\ OnlyOwner(j) /\ owner'[j].pc = "ended" /\ owner'[j].path = owner[j].path
           /\ UNCHANGED <<stop, runnerVars, promise, submit, canceller, observed>>
<1>1. \A e \in Terminal : e \in Pool!Status
    BY DEF Terminal, Pool!Status, Pool!Ended
<1>2. /\ GoOwner(j, "ended") /\ "ended" \in OwnerPcs
      /\ UNCHANGED <<stop, runnerVars, promise, submit, canceller, observed>>
    BY DEF EndStep, End, EndWithdrawn, OwnerPcs
<1>3. OnlyOwner(j) /\ owner'[j].pc = "ended" /\ owner'[j].path = owner[j].path
    BY <1>2, OwnerGoes DEF OnlyOwner
<1>4. CASE End(j)
    <2>1. owner[j].pc = "emit" /\ owner[j].result \in Terminal
        BY <1>4 DEF End, TypesInv, OwnerOK
    <2>2. Pool!Move(j, "running", owner[j].result) /\ HandleEvent(Owning(j), j, owner[j].result)
        BY <1>4 DEF End
    <2>3. status[j] = "running" /\ OnlyJob(j, "running", owner[j].result)
        BY <1>1, <2>1, <2>2, PoolMoves DEF OnlyJob
    <2> QED BY <1>2, <1>3, <2>1, <2>2, <2>3 DEF Ends
<1>5. CASE EndWithdrawn(j)
    <2>1. owner[j].pc = "withdrawn" /\ "cancelled" \in Terminal
        BY <1>5 DEF EndWithdrawn, Terminal
    <2>2. Pool!Move(j, "withdrawn", "cancelled") /\ HandleEvent(Owning(j), j, "cancelled")
        BY <1>5 DEF EndWithdrawn, Pool!CancelWithdrawn
    <2>3. status[j] = "withdrawn" /\ OnlyJob(j, "withdrawn", "cancelled")
        BY <1>1, <2>1, <2>2, PoolMoves DEF OnlyJob
    <2> QED BY <1>2, <1>3, <2>1, <2>2, <2>3 DEF Ends
<1> QED BY <1>4, <1>5 DEF EndStep

-----------------------------------------------------------------------------
(* cancel and the destructor withdraw jobs that have not started           *)

CallerStep(r) == HandleCancel(r) \/ CancelLookup(r) \/ CancelRequest(r)

Withdraws ==
    /\ status' \in [JobIds -> Pool!Status] /\ owner' \in [JobIds -> OwnerLocals]
    /\ \A j \in JobIds :
         \/ status'[j] = status[j] /\ owner'[j] = owner[j]
         \/ /\ status[j] = "queued" /\ status'[j] = "withdrawn"
            /\ owner'[j].pc = "withdrawn" /\ owner'[j].path = owner[j].path

(* What the steps of cancel do.                                            *)
LEMMA CallerEffect ==
    ASSUME TypesInv, NEW r \in Requests, CallerStep(r)
    PROVE  /\ Withdraws
           /\ stop' \in [JobIds -> BOOLEAN] /\ open' \in BOOLEAN
           /\ canceller' \in [Requests -> {"idle", "lookup", "request", "true", "false"}]
           /\ \A q \in Requests : canceller'[q] # "idle" => submit[q].pc = "returned"
           /\ UNCHANGED <<runnerVars, promise, submit, handler, observed>>
<1>1. /\ status \in [JobIds -> Pool!Status] /\ owner \in [JobIds -> OwnerLocals]
      /\ stop \in [JobIds -> BOOLEAN] /\ open \in BOOLEAN
      /\ canceller \in [Requests -> {"idle", "lookup", "request", "true", "false"}]
      /\ \A q \in Requests : canceller[q] # "idle" => submit[q].pc = "returned"
    BY Jobs DEF TypesInv, TypeOK, Pool!LifecycleTypeOK, SubmitOK
<1>2. CASE HandleCancel(r)
    BY <1>1, <1>2 DEF HandleCancel, Withdraws, poolVars
<1>3. CASE CancelRequest(r)
    BY <1>1, <1>3 DEF CancelRequest, Withdraws
<1>4. CASE CancelLookup(r)
    <2> DEFINE j == submit[r].job
    <2>1. canceller[r] = "lookup" /\ submit[r].pc = "returned"
        BY <1>1, <1>4 DEF CancelLookup
    <2>2. j \in JobIds
        BY <2>1, JobOfCall DEF HasJob
    <2>3. UNCHANGED <<stop, runnerVars, promise, submit, handler, observed>>
        BY <1>4 DEF CancelLookup
    <2>4. CASE /\ Pool!Withdraw(j) /\ GoOwner(j, "withdrawn")
               /\ canceller' = [canceller EXCEPT ![r] = "true"]
        <3>1. "withdrawn" \in Pool!Status /\ "withdrawn" \in OwnerPcs
            BY DEF Pool!Status, OwnerPcs
        <3>2. OnlyJob(j, "queued", "withdrawn")
            BY <2>2, <2>4, <3>1, PoolMoves DEF Pool!Withdraw
        <3>3. OnlyOwner(j) /\ owner'[j].pc = "withdrawn" /\ owner'[j].path = owner[j].path
            BY <2>2, <2>4, <3>1, OwnerGoes DEF OnlyOwner
        <3>4. Withdraws /\ UNCHANGED open
            BY <2>2, <3>2, <3>3 DEF Withdraws, OnlyJob, OnlyOwner
        <3> QED BY <1>1, <2>1, <2>3, <2>4, <3>4
    <2>5. CASE /\ \E answer \in {"request", "false"} :
                    canceller' = [canceller EXCEPT ![r] = answer]
               /\ UNCHANGED <<status, open, owner>>
        BY <1>1, <2>1, <2>3, <2>5 DEF Withdraws
    <2> QED BY <1>4, <2>4, <2>5 DEF CancelLookup
<1> QED BY <1>2, <1>3, <1>4 DEF CallerStep

(* What the destructor does.                                               *)
LEMMA DestroyEffect ==
    ASSUME TypesInv, Destroy
    PROVE  /\ Withdraws
           /\ stop' \in [JobIds -> BOOLEAN] /\ open' \in BOOLEAN
           /\ UNCHANGED <<runnerVars, promise, submit, canceller, handler, observed>>
<1>1. /\ status \in [JobIds -> Pool!Status] /\ owner \in [JobIds -> OwnerLocals]
      /\ stop \in [JobIds -> BOOLEAN] /\ Pool!JobIds = JobIds
    BY Jobs DEF TypesInv, TypeOK, Pool!LifecycleTypeOK
<1>2. /\ open' = FALSE
      /\ status' = [j \in JobIds |-> IF status[j] = "queued" THEN "withdrawn" ELSE status[j]]
      /\ owner' = [j \in JobIds |-> IF status[j] = "queued"
                                    THEN [owner[j] EXCEPT !.pc = "withdrawn"] ELSE owner[j]]
      /\ stop' = [j \in JobIds |-> stop[j] \/ InRunning(j)]
      /\ UNCHANGED <<runnerVars, promise, submit, canceller, handler, observed>>
    BY <1>1 DEF Destroy, Pool!Close
<1>3. status' \in [JobIds -> Pool!Status]
    BY <1>1, <1>2 DEF Pool!Status
<1>4. \A j \in JobIds : (stop[j] \/ InRunning(j)) \in BOOLEAN
    BY <1>1 DEF InRunning
<1>5. stop' \in [JobIds -> BOOLEAN]
    BY <1>2, <1>4
<1>6. \A j \in JobIds : [owner[j] EXCEPT !.pc = "withdrawn"] \in OwnerLocals
    BY <1>1 DEF OwnerLocals
<1>7. owner' \in [JobIds -> OwnerLocals]
    BY <1>1, <1>2, <1>6
<1>8. \A j \in JobIds : /\ [owner[j] EXCEPT !.pc = "withdrawn"].pc = "withdrawn"
                        /\ [owner[j] EXCEPT !.pc = "withdrawn"].path = owner[j].path
    BY <1>1 DEF OwnerLocals
<1>9. Withdraws
    BY <1>2, <1>3, <1>7, <1>8 DEF Withdraws
<1> QED BY <1>2, <1>5, <1>9

-----------------------------------------------------------------------------
(* Type correctness                                                        *)

(* Parts of TypesInv that a step leaves alone.                             *)
LEMMA Frames ==
    ASSUME TypesInv
    PROVE  /\ UNCHANGED <<submit, jobs, canceller>> => SubmitOK'
           /\ UNCHANGED handler => HandlerOK'
           /\ UNCHANGED <<owner, status>> => OwnerOK'
           /\ UNCHANGED <<status, open>> => Pool!LifecycleTypeOK'
<1>1. ASSUME UNCHANGED <<submit, jobs, canceller>> PROVE SubmitOK'
    BY <1>1 DEF TypesInv, SubmitOK, HasPath, HasJob
<1>2. ASSUME UNCHANGED handler PROVE HandlerOK'
    BY <1>2 DEF TypesInv, HandlerOK, Handling, Calling
<1>3. ASSUME UNCHANGED <<owner, status>> PROVE OwnerOK'
    BY <1>3 DEF TypesInv, OwnerOK
<1>4. ASSUME UNCHANGED <<status, open>> PROVE Pool!LifecycleTypeOK'
    BY <1>4 DEF TypesInv, TypeOK, Pool!LifecycleTypeOK
<1> QED BY <1>1, <1>2, <1>3, <1>4

(* The initial state.                                                      *)
LEMMA TypesInit == Init => TypesInv
<1> SUFFICES ASSUME Init PROVE TypesInv
    OBVIOUS
<1>1. <<>> \in Seq(Paths) /\ <<>> \in Seq(Events)
    BY EmptySeq
<1>2. \A j \in JobIds : status[j] = "none"
    BY Jobs DEF Init, Pool!Init
<1>3. TypeOK
    <2>1. Pool!LifecycleTypeOK
        BY DEF Init, Pool!Init, Pool!LifecycleTypeOK, Pool!Status
    <2>2. submit \in [Requests -> SubmitLocals]
        BY <1>1 DEF Init, SubmitLocals
    <2>3. owner \in [JobIds -> OwnerLocals]
        BY DEF Init, OwnerLocals
    <2>4. handler \in [Threads -> HandlerLocals]
        BY NoCallOK DEF Init
    <2>5. /\ stop \in [JobIds -> BOOLEAN] /\ seen_paths \in SUBSET Paths /\ jobs \in Seq(Paths)
          /\ contexts \in [Paths -> Requests \union {None}]
          /\ paths_by_id \in [JobIds -> Paths \union {None}]
          /\ pending \in [JobIds -> Seq(Events)]
          /\ promise \in [Requests -> Terminal \union {None}]
          /\ canceller \in [Requests -> {"idle", "lookup", "request", "true", "false"}]
          /\ observed \in [Requests -> Seq(Events)]
        BY <1>1 DEF Init
    <2> QED BY <2>1, <2>2, <2>3, <2>4, <2>5 DEF TypeOK
<1>4. SubmitOK
    BY Jobs DEF Init, SubmitOK, HasPath, HasJob
<1>5. HandlerOK
    BY NoCallOK DEF Init, HandlerOK, Handling, Calling
<1>6. OwnerOK
    BY <1>2 DEF Init, OwnerOK, Terminal
<1> QED BY <1>3, <1>4, <1>5, <1>6 DEF TypesInv

(* handle_event                                                            *)
LEMMA HandlerTypes ==
    ASSUME TypesInv, NEW t \in Threads, HandlerStep(t)
    PROVE  TypesInv'
<1> DEFINE j == handler[t].job
           p == paths_by_id[j]
<1>1. CASE Lookup(t)
    <2>1. /\ UNCHANGED <<poolVars, jobs, promise, threadVars, observed>>
          /\ handler[t].pc = "lookup" /\ j \in JobIds /\ handler[t].event \in Events
        BY <1>1 DEF Lookup, TypesInv, HandlerOK, Handling
    <2>2. SubmitOK' /\ OwnerOK' /\ Pool!LifecycleTypeOK'
        BY <2>1, Frames DEF poolVars, threadVars
    <2>3. /\ handler' \in [Threads -> HandlerLocals] /\ HandlerOK'
          /\ pending' \in [JobIds -> Seq(Events)]
        <3>1. CASE Keeps(t)
            <4>1. HandlerOK'
                BY <3>1, NoCallOK DEF Keeps, TypesInv, HandlerOK, Handling, Calling
            <4> QED BY <3>1, <4>1 DEF Keeps
        <3>2. CASE Finds(t)
            <4>1. contexts[p] \in Requests \union {None} /\ None \notin Requests
                BY <3>2, NoneApart DEF Finds, TypesInv, TypeOK
            <4>2. HandlerOK'
                BY <2>1, <3>2, <4>1, NoCallOK DEF Finds, TypesInv, HandlerOK, Handling, Calling
            <4>3. UNCHANGED pending /\ handler' \in [Threads -> HandlerLocals]
                BY <3>2 DEF Finds
            <4> QED BY <4>2, <4>3 DEF TypesInv, TypeOK
        <3> QED BY <1>1, <3>1, <3>2, LookupCases
    <2>4. /\ seen_paths' \in SUBSET Paths /\ contexts' \in [Paths -> Requests \union {None}]
          /\ paths_by_id' \in [JobIds -> Paths \union {None}]
        <3>1. CASE UNCHANGED <<seen_paths, contexts, paths_by_id>>
            BY <3>1 DEF TypesInv, TypeOK
        <3>2. CASE Forgets(t)
            BY <3>2 DEF Forgets, TypesInv, TypeOK
        <3> QED BY <1>1, <3>1, <3>2, LookupCases DEF Keeps
    <2> QED BY <2>1, <2>2, <2>3, <2>4 DEF TypesInv, TypeOK, poolVars, threadVars
<1>2. CASE Notify(t)
    <2>1. /\ UNCHANGED <<poolVars, runnerVars, promise, threadVars>>
          /\ handler' \in [Threads -> HandlerLocals] /\ observed' \in [Requests -> Seq(Events)]
        BY <1>2, NotifyEffect
    <2>2. SubmitOK' /\ OwnerOK' /\ Pool!LifecycleTypeOK'
        BY <2>1, Frames DEF poolVars, threadVars, runnerVars
    <2>3. HandlerOK'
        <3>1. handler[t].job \in JobIds
            BY <1>2 DEF Notify, TypesInv, HandlerOK, Handling
        <3> QED BY <1>2, <3>1, NotifyEffect, NoCallOK DEF TypesInv, HandlerOK, Handling, Calling
    <2> QED BY <2>1, <2>2, <2>3 DEF TypesInv, TypeOK, poolVars, threadVars, runnerVars
<1>3. CASE Fulfil(t)
    <2>1. /\ UNCHANGED <<poolVars, runnerVars, threadVars, observed>>
          /\ handler' \in [Threads -> HandlerLocals]
          /\ promise' \in [Requests -> Terminal \union {None}]
        BY <1>3, FulfilEffect
    <2>2. SubmitOK' /\ OwnerOK' /\ Pool!LifecycleTypeOK'
        BY <2>1, Frames DEF poolVars, threadVars, runnerVars
    <2>3. HandlerOK'
        BY <1>3, FulfilEffect, NoCallOK DEF TypesInv, HandlerOK, Handling, Calling
    <2> QED BY <2>1, <2>2, <2>3 DEF TypesInv, TypeOK, poolVars, threadVars, runnerVars
<1> QED BY <1>1, <1>2, <1>3 DEF HandlerStep

(* cancel is only asked of a call that has returned.                       *)
LEMMA NotCancelled ==
    ASSUME TypesInv, NEW r \in Requests, submit[r].pc # "returned"
    PROVE  canceller[r] = "idle"
BY DEF TypesInv, SubmitOK

(* submit                                                                  *)
LEMMA SubmitTypes ==
    ASSUME TypesInv, NEW r \in Requests, (\E p \in Paths : Submit(r, p)) \/ InSubmitStep(r)
    PROVE  TypesInv'
<1>1. CASE \E p \in Paths : Submit(r, p)
    <2>1. PICK p \in Paths : Submit(r, p)
        BY <1>1
    <2>2. /\ OnlyCall(r)
          /\ UNCHANGED <<poolVars, runnerVars, promise, owner, canceller, handler, observed>>
        BY <2>1, SubmitEffect
    <2>3. HandlerOK' /\ OwnerOK' /\ Pool!LifecycleTypeOK'
        BY <2>2, Frames DEF poolVars
    <2>4. SubmitOK'
        BY <2>1, SubmitEffect, NotCancelled
           DEF OnlyCall, TypesInv, SubmitOK, HasPath, HasJob, runnerVars
    <2> QED BY <2>2, <2>3, <2>4 DEF TypesInv, TypeOK, OnlyCall, poolVars, runnerVars
<1>2. CASE PushJob(r)
    <2>1. /\ submit[r].pc = "push" /\ jobs' = Append(jobs, submit[r].request)
          /\ GoSubmit(r, "insert")
          /\ UNCHANGED <<poolVars, seen_paths, contexts, paths_by_id, pending, promise, owner,
                         canceller, handler, observed>>
        BY <1>2 DEF PushJob
    <2>2. submit[r].request \in Paths /\ jobs \in Seq(Paths)
        BY <2>1 DEF TypesInv, TypeOK, SubmitOK
    <2>3. jobs' \in Seq(Paths) /\ jobs' # <<>>
        BY <2>1, <2>2, AppendProperties, EmptySeq
    <2>4. /\ submit' \in [Requests -> SubmitLocals] /\ submit'[r].pc = "insert"
          /\ submit'[r].request = submit[r].request /\ submit'[r].path = submit[r].path
          /\ submit'[r].job = submit[r].job /\ submit'[r].todo = submit[r].todo
          /\ \A q \in Requests \ {r} : submit'[q] = submit[q]
        BY <2>1, SubmitGoes DEF SubmitPcs
    <2>5. HandlerOK' /\ OwnerOK' /\ Pool!LifecycleTypeOK'
        BY <2>1, Frames DEF poolVars
    <2>6. SubmitOK'
        BY <2>1, <2>2, <2>3, <2>4, NotCancelled DEF TypesInv, SubmitOK, HasPath, HasJob
    <2> QED BY <2>1, <2>3, <2>4, <2>5, <2>6 DEF TypesInv, TypeOK, poolVars
<1>3. CASE InsertSeen(r)
    <2>1. /\ OnlyCall(r)
          /\ seen_paths' = seen_paths \union {submit[r].request} /\ submit[r].request \in Paths
          /\ UNCHANGED <<poolVars, jobs, contexts, paths_by_id, pending, promise, owner,
                         canceller, handler, observed>>
        BY <1>3, InsertEffect
    <2>2. HandlerOK' /\ OwnerOK' /\ Pool!LifecycleTypeOK'
        BY <2>1, Frames DEF poolVars
    <2>3. SubmitOK'
        BY <1>3, InsertEffect, NotCancelled DEF OnlyCall, TypesInv, SubmitOK, HasPath, HasJob
    <2> QED BY <2>1, <2>2, <2>3 DEF TypesInv, TypeOK, OnlyCall, poolVars
<1>4. CASE AddContext(r)
    <2>1. /\ submit[r].pc = "context" /\ GoSubmit(r, "enqueue")
          /\ contexts' = [contexts EXCEPT ![submit[r].path] = r]
          /\ UNCHANGED <<poolVars, seen_paths, jobs, paths_by_id, pending, promise, owner,
                         canceller, handler, observed>>
        BY <1>4 DEF AddContext
    <2>2. /\ submit' \in [Requests -> SubmitLocals] /\ submit'[r].pc = "enqueue"
          /\ submit'[r].request = submit[r].request /\ submit'[r].path = submit[r].path
          /\ submit'[r].job = submit[r].job /\ submit'[r].todo = submit[r].todo
          /\ \A q \in Requests \ {r} : submit'[q] = submit[q]
        BY <2>1, SubmitGoes DEF SubmitPcs
    <2>3. contexts' \in [Paths -> Requests \union {None}]
        BY <2>1 DEF TypesInv, TypeOK
    <2>4. HandlerOK' /\ OwnerOK' /\ Pool!LifecycleTypeOK'
        BY <2>1, Frames DEF poolVars
    <2>5. SubmitOK'
        BY <2>1, <2>2, NotCancelled DEF TypesInv, SubmitOK, HasPath, HasJob
    <2> QED BY <2>1, <2>2, <2>3, <2>4, <2>5 DEF TypesInv, TypeOK, poolVars
<1>5. CASE Enqueue(r)
    <2>1. /\ OnlyCall(r)
          /\ status' \in [JobIds -> Pool!Status] /\ owner' \in [JobIds -> OwnerLocals]
          /\ UNCHANGED <<open, stop, runnerVars, promise, canceller, handler, observed>>
        BY <1>5, EnqueueEffect
    <2>2. HandlerOK' /\ Pool!LifecycleTypeOK'
        BY <2>1, Frames, Jobs DEF Pool!LifecycleTypeOK, TypesInv, TypeOK
    <2>3. OwnerOK'
        <3>1. submit[r].path \in Paths
            BY <1>5, EnqueueEffect DEF TypesInv, SubmitOK, HasPath
        <3> QED BY <1>5, <3>1, EnqueueEffect DEF TypesInv, OwnerOK, Terminal
    <2>4. SubmitOK'
        BY <1>5, EnqueueEffect, NotCancelled
           DEF OnlyCall, TypesInv, SubmitOK, HasPath, HasJob, runnerVars
    <2> QED BY <2>1, <2>2, <2>3, <2>4 DEF TypesInv, TypeOK, OnlyCall, runnerVars
<1>6. CASE EmitQueued(r)
    <2>1. /\ submit[r].pc = "queued" /\ GoSubmit(r, "register")
          /\ HandleEvent(Submitting(r), submit[r].job, "queued")
          /\ UNCHANGED <<poolVars, runnerVars, promise, owner, canceller, observed>>
        BY <1>6 DEF EmitQueued
    <2>2. handler' \in [Threads -> HandlerLocals] /\ HandlerOK'
        BY <2>1, JobOfCall, ThreadNames, NoneApart, EventHandled DEF HasJob
    <2>3. /\ submit' \in [Requests -> SubmitLocals] /\ submit'[r].pc = "register"
          /\ submit'[r].request = submit[r].request /\ submit'[r].path = submit[r].path
          /\ submit'[r].job = submit[r].job /\ submit'[r].todo = submit[r].todo
          /\ \A q \in Requests \ {r} : submit'[q] = submit[q]
        BY <2>1, SubmitGoes DEF SubmitPcs
    <2>4. OwnerOK' /\ Pool!LifecycleTypeOK'
        BY <2>1, Frames DEF poolVars
    <2>5. SubmitOK'
        BY <2>1, <2>3, NotCancelled DEF TypesInv, SubmitOK, HasPath, HasJob, runnerVars
    <2> QED BY <2>1, <2>2, <2>3, <2>4, <2>5 DEF TypesInv, TypeOK, poolVars, runnerVars
<1>7. CASE Register(r)
    <2>1. /\ OnlyCall(r) /\ pending' \in [JobIds -> Seq(Events)]
          /\ paths_by_id' \in [JobIds -> Paths \union {None}]
          /\ UNCHANGED <<poolVars, seen_paths, jobs, contexts, promise, owner, canceller,
                         handler, observed>>
        BY <1>7, RegisterEffect
    <2>2. HandlerOK' /\ OwnerOK' /\ Pool!LifecycleTypeOK'
        BY <2>1, Frames DEF poolVars
    <2>3. SubmitOK'
        BY <1>7, RegisterEffect, NotCancelled DEF OnlyCall, TypesInv, SubmitOK, HasPath, HasJob
    <2> QED BY <2>1, <2>2, <2>3 DEF TypesInv, TypeOK, OnlyCall, poolVars
<1>8. CASE Replay(r)
    <2>1. /\ OnlyCall(r) /\ submit[r].job \in JobIds
          /\ UNCHANGED <<poolVars, runnerVars, promise, owner, canceller, observed>>
        BY <1>8, ReplayEffect
    <2>2. handler' \in [Threads -> HandlerLocals] /\ HandlerOK'
        <3>1. CASE UNCHANGED handler
            BY <3>1, Frames DEF TypesInv, TypeOK
        <3>2. CASE Replays(r)
            BY <2>1, <3>2, ThreadNames, EventHandled DEF Replays
        <3> QED BY <1>8, <3>1, <3>2, ReplayEffect
    <2>3. OwnerOK' /\ Pool!LifecycleTypeOK'
        BY <2>1, Frames DEF poolVars
    <2>4. SubmitOK'
        <3>1. submit'[r].pc # "replay" => submit'[r].todo = <<>>
            BY <1>8, ReplayEffect DEF Replays
        <3>2. submit[r].pc = "replay" /\ submit'[r].pc \in {"replay", "returned"}
            BY <1>8, ReplayEffect DEF Replays
        <3>3. submit'[r].path = submit[r].path /\ submit'[r].job = submit[r].job
            BY <1>8, ReplayEffect
        <3> QED BY <2>1, <3>1, <3>2, <3>3, NotCancelled
                DEF OnlyCall, TypesInv, SubmitOK, HasPath, HasJob, runnerVars
    <2> QED BY <2>1, <2>2, <2>3, <2>4 DEF TypesInv, TypeOK, OnlyCall, poolVars, runnerVars
<1> QED BY <1>1, <1>2, <1>3, <1>4, <1>5, <1>6, <1>7, <1>8 DEF InSubmitStep

(* The pool's thread for a job                                             *)
LEMMA OwnerTypes ==
    ASSUME TypesInv, NEW j \in JobIds, OwnerStep(j)
    PROVE  TypesInv'
<1>1. status \in [JobIds -> Pool!Status] /\ open \in BOOLEAN /\ Pool!JobIds = JobIds
    BY Jobs DEF TypesInv, TypeOK, Pool!LifecycleTypeOK
<1>2. CASE WorkStep(j)
    <2>1. /\ OnlyOwner(j)
          /\ UNCHANGED <<poolVars, runnerVars, promise, submit, canceller, handler, observed>>
        BY <1>2, WorkEffect
    <2>2. SubmitOK' /\ HandlerOK' /\ Pool!LifecycleTypeOK'
        BY <2>1, Frames DEF poolVars, runnerVars
    <2>3. OwnerOK'
        BY <1>2, WorkEffect DEF OnlyOwner, TypesInv, OwnerOK, poolVars
    <2> QED BY <2>1, <2>2, <2>3 DEF TypesInv, TypeOK, OnlyOwner, poolVars, runnerVars
<1>3. CASE Start(j)
    <2>1. /\ OnlyOwner(j) /\ OnlyJob(j, "queued", "running")
          /\ HandleEvent(Owning(j), j, "running")
          /\ UNCHANGED <<stop, runnerVars, promise, submit, canceller, observed>>
        BY <1>3, StartEffect
    <2>2. handler' \in [Threads -> HandlerLocals] /\ HandlerOK'
        BY <2>1, ThreadNames, NoneApart, EventHandled
    <2>3. SubmitOK' /\ Pool!LifecycleTypeOK'
        BY <1>1, <2>1, Frames DEF OnlyJob, Pool!LifecycleTypeOK, runnerVars
    <2>4. OwnerOK'
        BY <1>3, StartEffect DEF OnlyOwner, OnlyJob, TypesInv, OwnerOK, Terminal
    <2> QED BY <2>1, <2>2, <2>3, <2>4 DEF TypesInv, TypeOK, OnlyOwner, runnerVars
<1>4. CASE EndStep(j)
    <2>1. PICK result \in Terminal : Ends(j, result)
        BY <1>4, EndEffect
    <2>2. /\ OnlyOwner(j) /\ OnlyJob(j, status[j], result) /\ HandleEvent(Owning(j), j, result)
          /\ UNCHANGED <<stop, runnerVars, promise, submit, canceller, observed>>
        BY <1>4, <2>1, EndEffect DEF Ends
    <2>3. handler' \in [Threads -> HandlerLocals] /\ HandlerOK'
        BY <2>2, ThreadNames, NoneApart, EventHandled
    <2>4. SubmitOK' /\ Pool!LifecycleTypeOK'
        BY <1>1, <2>2, Frames DEF OnlyJob, Pool!LifecycleTypeOK, runnerVars
    <2>5. OwnerOK'
        BY <1>4, <2>2, EndEffect DEF OnlyOwner, OnlyJob, TypesInv, OwnerOK, Terminal
    <2> QED BY <2>2, <2>3, <2>4, <2>5 DEF TypesInv, TypeOK, OnlyOwner, runnerVars
<1> QED BY <1>2, <1>3, <1>4 DEF OwnerStep, WorkStep, EndStep

(* cancel and the destructor                                               *)
LEMMA WithdrawTypes ==
    ASSUME TypesInv, Destroy \/ \E r \in Requests : CallerStep(r)
    PROVE  TypesInv'
<1>1. /\ Withdraws /\ stop' \in [JobIds -> BOOLEAN] /\ open' \in BOOLEAN
      /\ canceller' \in [Requests -> {"idle", "lookup", "request", "true", "false"}]
      /\ \A q \in Requests : canceller'[q] # "idle" => submit[q].pc = "returned"
      /\ UNCHANGED <<runnerVars, promise, submit, handler, observed>>
    BY CallerEffect, DestroyEffect DEF TypesInv, TypeOK, SubmitOK
<1>2. HandlerOK' /\ Pool!LifecycleTypeOK'
    BY <1>1, Frames, Jobs DEF Withdraws, Pool!LifecycleTypeOK
<1>3. OwnerOK'
    BY <1>1 DEF Withdraws, TypesInv, OwnerOK, Terminal
<1>4. SubmitOK'
    BY <1>1 DEF TypesInv, SubmitOK, HasPath, HasJob, runnerVars
<1> QED BY <1>1, <1>2, <1>3, <1>4 DEF TypesInv, TypeOK, Withdraws, runnerVars

(* The types are kept by every step.                                       *)
LEMMA TypesNext == TypesInv /\ [Next]_vars => TypesInv'
<1>1. ASSUME TypesInv, UNCHANGED vars PROVE TypesInv'
    <2>1. SubmitOK' /\ HandlerOK' /\ OwnerOK' /\ Pool!LifecycleTypeOK'
        BY <1>1, Frames DEF vars, poolVars, runnerVars, threadVars
    <2> QED BY <1>1, <2>1 DEF TypesInv, TypeOK, vars, poolVars, runnerVars, threadVars
<1>2. ASSUME TypesInv, Next PROVE TypesInv'
    BY <1>2, HandlerTypes, SubmitTypes, OwnerTypes, WithdrawTypes DEF Next, CallerStep, CancelStep
<1> QED BY <1>1, <1>2

(* Type correctness of the runner, for any paths and calls of submit, and  *)
(* however many of them overlap.                                           *)
THEOREM RunnerTypeCorrect == Spec => []TypeOK
<1>1. TypesInv => TypeOK
    BY DEF TypesInv
<1> QED BY <1>1, TypesInit, TypesNext, PTL DEF Spec

-----------------------------------------------------------------------------
(* Jobs have one call each                                                 *)

(* A step that gives no call a job.                                        *)
LEMMA JobsStay ==
    ASSUME TypesInv, TypesInv', JobsInv,
           \A q \in Requests : /\ submit'[q].job = submit[q].job
                               /\ HasJob(q)' => submit'[q].path = submit[q].path,
           \A j \in JobIds : /\ status'[j] = "none" <=> status[j] = "none"
                             /\ owner'[j].path = owner[j].path
    PROVE  JobsInv'
<1>1. \A q \in Requests : HasJob(q)' => HasJob(q) /\ submit[q].job \in JobIds
    BY DEF TypesInv, SubmitOK
<1>2. (\A r, q \in Requests : HasJob(r) /\ submit[r].job = submit[q].job => r = q)'
    BY <1>1 DEF JobsInv
<1>3. (\A j \in JobIds : status[j] # "none" <=> \E r \in Requests : submit[r].job = j)'
    BY DEF JobsInv
<1>4. (\A r \in Requests : HasJob(r) => owner[submit[r].job].path = submit[r].path)'
    BY <1>1 DEF JobsInv
<1> QED BY <1>2, <1>3, <1>4 DEF JobsInv

(* A step of submit before its pool call, or after it.                     *)
PathStep(r) == (\E p \in Paths : Submit(r, p)) \/ PushJob(r) \/ InsertSeen(r) \/ AddContext(r)
IdStep(r) == EmitQueued(r) \/ Register(r) \/ Replay(r)

(* What the steps before the pool has the job do, together.                *)
LEMMA PathEffect ==
    ASSUME TypesInv, NEW r \in Requests, PathStep(r)
    PROVE  /\ OnlyCall(r)
           /\ submit'[r].pc \in {"push", "insert", "context", "enqueue", "rejected"}
           /\ submit[r].pc \in {"idle", "push", "insert", "context"}
           /\ submit'[r].job = submit[r].job /\ submit'[r].todo = submit[r].todo
           /\ UNCHANGED <<poolVars, paths_by_id, pending, promise, owner, canceller, handler,
                          observed>>
<1>1. CASE \E p \in Paths : Submit(r, p)
    <2>1. PICK p \in Paths : Submit(r, p)
        BY <1>1
    <2> QED BY <2>1, SubmitEffect DEF runnerVars
<1>2. CASE PushJob(r)
    <2>1. submit[r].pc = "push" /\ GoSubmit(r, "insert")
        BY <1>2 DEF PushJob
    <2> QED BY <1>2, <2>1, SubmitGoes DEF PushJob, OnlyCall, SubmitPcs
<1>3. CASE InsertSeen(r)
    BY <1>3, InsertEffect
<1>4. CASE AddContext(r)
    <2>1. submit[r].pc = "context" /\ GoSubmit(r, "enqueue")
        BY <1>4 DEF AddContext
    <2> QED BY <1>4, <2>1, SubmitGoes DEF AddContext, OnlyCall, SubmitPcs
<1> QED BY <1>1, <1>2, <1>3, <1>4 DEF PathStep

(* What EmitQueued does.                                                   *)
LEMMA EmitQueuedEffect ==
    ASSUME TypesInv, NEW r \in Requests, EmitQueued(r)
    PROVE  /\ OnlyCall(r)
           /\ submit[r].pc = "queued" /\ submit'[r].pc = "register"
           /\ submit'[r].job = submit[r].job /\ submit[r].job \in JobIds
           /\ submit'[r].path = submit[r].path /\ submit'[r].todo = submit[r].todo
           /\ submit'[r].request = submit[r].request
           /\ HandleEvent(Submitting(r), submit[r].job, "queued")
           /\ UNCHANGED <<poolVars, runnerVars, promise, owner, canceller, observed>>
<1>1. submit[r].pc = "queued" /\ GoSubmit(r, "register")
    BY DEF EmitQueued
<1> QED BY <1>1, SubmitGoes, JobOfCall DEF EmitQueued, OnlyCall, SubmitPcs, HasJob

(* What the steps after the pool has the job do, together.                 *)
LEMMA IdEffect ==
    ASSUME TypesInv, NEW r \in Requests, IdStep(r)
    PROVE  /\ OnlyCall(r)
           /\ submit[r].pc \in {"queued", "register", "replay"}
           /\ submit'[r].pc \in {"register", "replay", "returned"}
           /\ submit'[r].job = submit[r].job /\ submit[r].job \in JobIds
           /\ submit'[r].path = submit[r].path
           /\ UNCHANGED <<poolVars, seen_paths, jobs, contexts, promise, owner, canceller,
                          observed>>
<1>1. CASE EmitQueued(r)
    BY <1>1, EmitQueuedEffect DEF runnerVars
<1>2. CASE Register(r)
    BY <1>2, RegisterEffect
<1>3. CASE Replay(r)
    BY <1>3, ReplayEffect DEF Replays, runnerVars
<1> QED BY <1>1, <1>2, <1>3 DEF IdStep

(* Every step preserves JobsInv.                                           *)
LEMMA JobsNext ==
    ASSUME TypesInv, TypesInv', JobsInv, [Next]_vars
    PROVE  JobsInv'
<1>1. CASE UNCHANGED <<submit, status, owner>>
    BY <1>1, JobsStay
<1>2. ASSUME NEW r \in Requests, PathStep(r) PROVE JobsInv'
    <2>1. ~HasJob(r)'
        BY <1>2, PathEffect DEF HasJob
    <2> QED BY <1>2, <2>1, PathEffect, JobsStay DEF OnlyCall, poolVars
<1>3. ASSUME NEW r \in Requests, Enqueue(r) PROVE JobsInv'
    <2> DEFINE j == submit'[r].job
    <2>1. /\ j \in JobIds /\ status[j] = "none" /\ status'[j] = "queued"
          /\ owner'[j].path = submit'[r].path
          /\ \A q \in Requests \ {r} : submit'[q] = submit[q]
          /\ \A i \in JobIds \ {j} : status'[i] = status[i] /\ owner'[i] = owner[i]
          /\ submit[r].pc = "enqueue"
        BY <1>3, EnqueueEffect DEF OnlyCall
    <2> HIDE DEF j
    <2>2. \A q \in Requests : submit[q].job # j
        BY <2>1 DEF JobsInv
    <2>3. \A q \in Requests \ {r} : submit'[q].job # j /\ (HasJob(q)' <=> HasJob(q))
        BY <2>1, <2>2 DEF HasJob
    <2>4. submit[r].job \notin JobIds /\ submit'[r].job = j
        BY <2>1 DEF TypesInv, SubmitOK, HasJob, j
    <2>5. \A q \in Requests \ {r} : HasJob(q)' => submit[q].job \in JobIds \ {j}
        BY <2>2, <2>3 DEF TypesInv, SubmitOK
    <2>6. (\A u, q \in Requests : HasJob(u) /\ submit[u].job = submit[q].job => u = q)'
        BY <2>1, <2>3, <2>4 DEF JobsInv
    <2>7. (\A i \in JobIds : status[i] # "none" <=> \E q \in Requests : submit[q].job = i)'
        <3>1. \A i \in JobIds \ {j} :
                (status'[i] # "none") <=> \E q \in Requests : submit'[q].job = i
            BY <2>1, <2>4 DEF JobsInv
        <3>2. (status'[j] # "none") <=> \E q \in Requests : submit'[q].job = j
            BY <2>1, <2>4
        <3> QED BY <3>1, <3>2
    <2>8. (\A q \in Requests : HasJob(q) => owner[submit[q].job].path = submit[q].path)'
        BY <2>1, <2>3, <2>4, <2>5 DEF JobsInv
    <2> QED BY <2>6, <2>7, <2>8 DEF JobsInv
<1>4. ASSUME NEW r \in Requests, IdStep(r) PROVE JobsInv'
    BY <1>4, IdEffect, JobsStay DEF OnlyCall, poolVars
<1>5. ASSUME NEW j \in JobIds, WorkStep(j) PROVE JobsInv'
    BY <1>5, WorkEffect, JobsStay DEF OnlyOwner, poolVars
<1>6. ASSUME NEW j \in JobIds, Start(j) PROVE JobsInv'
    BY <1>6, StartEffect, JobsStay DEF OnlyOwner, OnlyJob
<1>7. ASSUME NEW j \in JobIds, EndStep(j) PROVE JobsInv'
    <2>1. "none" \notin Terminal
        BY DEF Terminal
    <2> QED BY <1>7, <2>1, EndEffect, JobsStay DEF OnlyOwner, OnlyJob, Ends
<1>8. ASSUME Destroy \/ \E r \in Requests : CallerStep(r) PROVE JobsInv'
    <2>1. Withdraws /\ UNCHANGED submit
        BY <1>8, CallerEffect, DestroyEffect
    <2> QED BY <2>1, JobsStay DEF Withdraws
<1>9. ASSUME NEW t \in Threads, HandlerStep(t) PROVE JobsInv'
    <2>1. UNCHANGED <<submit, status, owner>>
        BY <1>9 DEF HandlerStep, Lookup, Notify, Fulfil, poolVars, threadVars
    <2> QED BY <1>1, <2>1
<1>10. CASE UNCHANGED vars
    BY <1>1, <1>10 DEF vars, poolVars, threadVars
<1> QED BY <1>2, <1>3, <1>4, <1>5, <1>6, <1>7, <1>8, <1>9, <1>10
        DEF Next, InSubmitStep, PathStep, IdStep, OwnerStep, WorkStep, EndStep, CallerStep,
            CancelStep

-----------------------------------------------------------------------------
(* Threads handle events of their own job                                  *)

(* A step in which no thread begins or ends to handle an event.            *)
LEMMA ThreadsStay ==
    ASSUME TypesInv, ThreadsInv,
           UNCHANGED handler,
           \A j \in JobIds : Handling(Owning(j)) => owner'[j].pc = owner[j].pc,
           \A r \in Requests : Handling(Submitting(r)) =>
             submit'[r].pc = submit[r].pc /\ submit'[r].job = submit[r].job
    PROVE  ThreadsInv'
<1>1. \A t : Handling(t)' <=> Handling(t)
    BY DEF Handling
<1> QED BY <1>1 DEF ThreadsInv

(* Who is given an event handles one of its own.                           *)
LEMMA ThreadsHandle ==
    ASSUME TypesInv, ThreadsInv, NEW t \in Threads, NEW j \in JobIds, NEW e \in Events,
           HandleEvent(t, j, e),
           \A i \in JobIds : t = Owning(i) => i = j /\ owner'[i].pc \in {"begin", "ended"},
           \A r \in Requests : t = Submitting(r) =>
             /\ j = submit'[r].job
             /\ (submit'[r].pc = "register" /\ e = "queued") \/ submit'[r].pc = "replay",
           \A i \in JobIds : Handling(Owning(i)) /\ t # Owning(i) => owner'[i].pc = owner[i].pc,
           \A r \in Requests : Handling(Submitting(r)) /\ t # Submitting(r) =>
             submit'[r].pc = submit[r].pc /\ submit'[r].job = submit[r].job
    PROVE  ThreadsInv'
<1>1. /\ handler'[t].pc = "lookup" /\ handler'[t].job = j /\ handler'[t].event = e
      /\ \A u \in Threads \ {t} : handler'[u] = handler[u]
    BY EventHandled
<1>2. \A u \in Threads \ {t} : Handling(u)' <=> Handling(u)
    BY <1>1 DEF Handling
<1>3. ASSUME NEW i \in JobIds, Handling(Owning(i))'
      PROVE  handler'[Owning(i)].job = i /\ owner'[i].pc \in {"begin", "ended"}
    <2>1. CASE t = Owning(i)
        BY <1>1, <2>1
    <2>2. CASE t # Owning(i)
        BY <1>1, <1>2, <1>3, <2>2, ThreadNames DEF ThreadsInv
    <2> QED BY <2>1, <2>2
<1>4. ASSUME NEW r \in Requests, Handling(Submitting(r))'
      PROVE  /\ handler'[Submitting(r)].job = submit'[r].job
             /\ \/ submit'[r].pc = "register" /\ handler'[Submitting(r)].event = "queued"
                \/ submit'[r].pc = "replay"
    <2>1. CASE t = Submitting(r)
        BY <1>1, <2>1
    <2>2. CASE t # Submitting(r)
        BY <1>1, <1>2, <1>4, <2>2, ThreadNames DEF ThreadsInv
    <2> QED BY <2>1, <2>2
<1> QED BY <1>3, <1>4 DEF ThreadsInv

(* handle_event itself stays with its job and event until it is done.      *)
LEMMA HandlerStays ==
    ASSUME TypesInv, NEW t \in Threads, HandlerStep(t)
    PROVE  /\ Handling(t)
           /\ \A u \in Threads \ {t} : handler'[u] = handler[u]
           /\ \/ handler'[t] = NoCall
              \/ handler'[t].job = handler[t].job /\ handler'[t].event = handler[t].event
           /\ UNCHANGED <<poolVars, threadVars, jobs>>
<1>1. CASE Lookup(t)
    BY <1>1, LookupCases DEF Lookup, Keeps, Finds, Handling
<1>2. CASE Notify(t)
    BY <1>2, NotifyEffect DEF Handling, runnerVars
<1>3. CASE Fulfil(t)
    BY <1>3, FulfilEffect DEF Handling, runnerVars
<1> QED BY <1>1, <1>2, <1>3 DEF HandlerStep

(* Every step preserves ThreadsInv.                                        *)
LEMMA ThreadsNext ==
    ASSUME TypesInv, ThreadsInv, [Next]_vars
    PROVE  ThreadsInv'
<1>1. CASE UNCHANGED <<submit, owner, handler>>
    BY <1>1, ThreadsStay
<1>2. ASSUME NEW t \in Threads, HandlerStep(t) PROVE ThreadsInv'
    <2>1. \A u \in Threads : Handling(u)' => /\ Handling(u) /\ handler'[u].job = handler[u].job
                                             /\ handler'[u].event = handler[u].event
        BY <1>2, HandlerStays, NoCallOK DEF Handling
    <2>2. UNCHANGED <<submit, owner>>
        BY <1>2, HandlerStays DEF threadVars
    <2> QED BY <2>1, <2>2, ThreadNames DEF ThreadsInv
<1>3. ASSUME NEW r \in Requests, PathStep(r) PROVE ThreadsInv'
    <2>1. ~Handling(Submitting(r))
        BY <1>3, PathEffect DEF ThreadsInv
    <2> QED BY <1>3, <2>1, PathEffect, ThreadsStay DEF OnlyCall
<1>4. ASSUME NEW r \in Requests, Enqueue(r) PROVE ThreadsInv'
    <2>1. ~Handling(Submitting(r))
        BY <1>4, EnqueueEffect DEF ThreadsInv
    <2>2. \A i \in JobIds : owner'[i].pc = owner[i].pc
        BY <1>4, EnqueueEffect
    <2> QED BY <1>4, <2>1, <2>2, EnqueueEffect, ThreadsStay DEF OnlyCall
<1>5. ASSUME NEW r \in Requests, EmitQueued(r) PROVE ThreadsInv'
    <2>1. /\ HandleEvent(Submitting(r), submit[r].job, "queued") /\ submit[r].job \in JobIds
          /\ submit'[r].job = submit[r].job /\ submit'[r].pc = "register"
          /\ \A q \in Requests \ {r} : submit'[q] = submit[q]
          /\ UNCHANGED owner
        BY <1>5, EmitQueuedEffect DEF OnlyCall
    <2> QED BY <2>1, ThreadNames, NoneApart, ThreadsHandle
<1>6. ASSUME NEW r \in Requests, Register(r) PROVE ThreadsInv'
    BY <1>6, RegisterEffect, ThreadsStay DEF OnlyCall, Handling
<1>7. ASSUME NEW r \in Requests, Replay(r) PROVE ThreadsInv'
    <2>1. CASE UNCHANGED handler
        BY <1>7, <2>1, ReplayEffect, ThreadsStay DEF OnlyCall, Handling
    <2>2. CASE Replays(r)
        <3>1. /\ HandleEvent(Submitting(r), submit[r].job, Head(submit[r].todo))
              /\ Head(submit[r].todo) \in Events /\ submit[r].job \in JobIds
              /\ submit'[r].job = submit[r].job /\ submit'[r].pc = "replay"
              /\ \A q \in Requests \ {r} : submit'[q] = submit[q]
              /\ UNCHANGED owner
            BY <1>7, <2>2, ReplayEffect DEF Replays, OnlyCall
        <3> QED BY <3>1, ThreadNames, ThreadsHandle
    <2> QED BY <1>7, <2>1, <2>2, ReplayEffect
<1>8. ASSUME NEW j \in JobIds, WorkStep(j) PROVE ThreadsInv'
    <2>1. ~Handling(Owning(j))
        BY <1>8, WorkEffect DEF ThreadsInv, Handling
    <2> QED BY <1>8, <2>1, WorkEffect, ThreadsStay DEF OnlyOwner
<1>9. ASSUME NEW j \in JobIds, Start(j) PROVE ThreadsInv'
    <2>1. /\ HandleEvent(Owning(j), j, "running") /\ owner'[j].pc = "begin"
          /\ \A i \in JobIds \ {j} : owner'[i] = owner[i]
          /\ UNCHANGED submit
        BY <1>9, StartEffect DEF OnlyOwner
    <2> QED BY <2>1, ThreadNames, NoneApart, ThreadsHandle
<1>10. ASSUME NEW j \in JobIds, EndStep(j) PROVE ThreadsInv'
    <2>1. PICK e \in Terminal : Ends(j, e)
        BY <1>10, EndEffect
    <2>2. /\ HandleEvent(Owning(j), j, e) /\ owner'[j].pc = "ended" /\ e \in Events
          /\ \A i \in JobIds \ {j} : owner'[i] = owner[i]
          /\ UNCHANGED submit
        BY <1>10, <2>1, EndEffect, NoneApart DEF OnlyOwner, Ends
    <2> QED BY <2>2, ThreadNames, ThreadsHandle
<1>11. ASSUME Destroy \/ \E r \in Requests : CallerStep(r) PROVE ThreadsInv'
    <2>1. Withdraws /\ UNCHANGED <<submit, handler>>
        BY <1>11, CallerEffect, DestroyEffect
    <2>2. \A j \in JobIds : Handling(Owning(j)) => owner[j].pc # "none"
        BY DEF ThreadsInv
    <2>3. \A j \in JobIds : Handling(Owning(j)) => owner'[j].pc = owner[j].pc
        BY <2>1, <2>2 DEF Withdraws, TypesInv, OwnerOK
    <2> QED BY <2>1, <2>3, ThreadsStay
<1>12. CASE UNCHANGED vars
    BY <1>1, <1>12 DEF vars, threadVars
<1> QED BY <1>2, <1>3, <1>4, <1>5, <1>6, <1>7, <1>8, <1>9, <1>10, <1>11, <1>12
        DEF Next, InSubmitStep, PathStep, OwnerStep, WorkStep, EndStep, CallerStep, CancelStep

-----------------------------------------------------------------------------
(* One call of submit at a time                                            *)

(* A step in which no call of submit begins.                               *)
LEMMA OneStays ==
    ASSUME OneInv, jobs' = jobs,
           \A q \in Requests : /\ InSubmit(q)' => InSubmit(q)
                               /\ submit'[q].pc = "insert" => submit[q].pc = "insert"
                               /\ submit'[q].pc = "insert" => submit'[q].request = submit[q].request
    PROVE  OneInv'
BY DEF OneInv

(* Every step preserves OneInv: the bound on submitters is used here, and  *)
(* only here.                                                              *)
LEMMA OneNext ==
    ASSUME MaxSubmitters = 1, TypesInv, OneInv, [Next]_vars
    PROVE  OneInv'
<1>1. CASE UNCHANGED <<submit, jobs>>
    BY <1>1, OneStays DEF InSubmit, Returned
<1>2. ASSUME NEW r \in Requests, NEW p \in Paths, Submit(r, p) PROVE OneInv'
    <2> DEFINE S == {q \in Requests : InSubmit(q)}
    <2>1. Cardinality(S) < 1
        BY <1>2 DEF Submit
    <2>2. IsFiniteSet(S) /\ Cardinality(S) \in Nat
        <3>1. S \subseteq Requests
            OBVIOUS
        <3>2. IsFiniteSet(S)
            BY <3>1, RequestsAssumption, FS_Subset
        <3> QED BY <3>2, FS_CardinalityType
    <2>3. S = {}
        <3>1. Cardinality(S) = 0
            BY <2>1, <2>2
        <3> QED BY <2>2, <3>1, FS_EmptySet
    <2>4. \A q \in Requests : ~InSubmit(q)
        BY <2>3
    <2>5. /\ \A q \in Requests \ {r} : submit'[q] = submit[q]
          /\ submit'[r].pc \in {"push", "rejected"}
        BY <1>2, SubmitEffect DEF OnlyCall
    <2>6. \A q \in Requests \ {r} : ~InSubmit(q)' /\ submit'[q].pc # "insert"
        BY <2>4, <2>5 DEF InSubmit, Returned
    <2> QED BY <2>5, <2>6 DEF OneInv
<1>3. ASSUME NEW r \in Requests, PushJob(r) PROVE OneInv'
    <2>1. /\ jobs' = Append(jobs, submit[r].request) /\ jobs \in Seq(Paths)
          /\ submit[r].pc = "push" /\ submit[r].request \in Paths /\ GoSubmit(r, "insert")
        BY <1>3 DEF PushJob, TypesInv, TypeOK, SubmitOK
    <2>2. Last(jobs') = submit[r].request
        BY <2>1, AppendProperties DEF Last
    <2>3. /\ submit'[r].pc = "insert" /\ submit'[r].request = submit[r].request
          /\ \A q \in Requests \ {r} : submit'[q] = submit[q]
        BY <2>1, SubmitGoes DEF SubmitPcs
    <2>4. InSubmit(r)
        BY <2>1 DEF InSubmit, Returned
    <2>5. \A q \in Requests \ {r} : ~InSubmit(q)
        BY <2>4 DEF OneInv
    <2>6. \A q \in Requests \ {r} : ~InSubmit(q)' /\ submit'[q].pc # "insert"
        BY <2>3, <2>5 DEF InSubmit, Returned
    <2> QED BY <2>2, <2>3, <2>6 DEF OneInv
<1>4. ASSUME NEW r \in Requests, InsertSeen(r) \/ AddContext(r) \/ Enqueue(r) \/ IdStep(r)
      PROVE  OneInv'
    <2>1. /\ \A q \in Requests \ {r} : submit'[q] = submit[q]
          /\ submit[r].pc \in {"insert", "context", "enqueue", "queued", "register", "replay"}
          /\ submit'[r].pc # "insert"
        <3>1. CASE InsertSeen(r)
            BY <3>1, InsertEffect DEF OnlyCall
        <3>2. CASE AddContext(r)
            <4>1. submit[r].pc = "context" /\ GoSubmit(r, "enqueue")
                BY <3>2 DEF AddContext
            <4> QED BY <4>1, SubmitGoes DEF SubmitPcs
        <3>3. CASE Enqueue(r)
            BY <3>3, EnqueueEffect DEF OnlyCall
        <3>4. CASE IdStep(r)
            BY <3>4, IdEffect DEF OnlyCall
        <3> QED BY <1>4, <3>1, <3>2, <3>3, <3>4
    <2>2. jobs' = jobs
        BY <1>4, InsertEffect, EnqueueEffect, IdEffect DEF AddContext, runnerVars
    <2>3. InSubmit(r)
        BY <2>1 DEF InSubmit, Returned
    <2> QED BY <2>1, <2>2, <2>3, OneStays DEF InSubmit, Returned
<1>5. ASSUME NEW t \in Threads, HandlerStep(t) PROVE OneInv'
    BY <1>1, <1>5, HandlerStays DEF threadVars
<1>6. ASSUME NEW j \in JobIds, OwnerStep(j) PROVE OneInv'
    BY <1>1, <1>6, WorkEffect, StartEffect, EndEffect
       DEF OwnerStep, WorkStep, EndStep, runnerVars
<1>7. ASSUME Destroy \/ \E r \in Requests : CallerStep(r) PROVE OneInv'
    BY <1>1, <1>7, CallerEffect, DestroyEffect DEF runnerVars
<1>8. CASE UNCHANGED vars
    BY <1>1, <1>8 DEF vars, threadVars, runnerVars
<1> QED BY <1>2, <1>3, <1>4, <1>5, <1>6, <1>7, <1>8
        DEF Next, InSubmitStep, IdStep, CallerStep, CancelStep

-----------------------------------------------------------------------------
(* The maps                                                                *)

(* An id that leads to a path is of a call that has it, and that the path  *)
(* leads to.                                                               *)
LEMMA MappedCall ==
    ASSUME TypesInv, JobsInv, MapsInv, NEW j \in JobIds, paths_by_id[j] # None
    PROVE  \E r \in Requests :
             /\ submit[r].job = j /\ HasJob(r) /\ Registered(r)
             /\ submit[r].path = paths_by_id[j] /\ contexts[paths_by_id[j]] = r
<1>1. PICK r \in Requests : submit[r].job = j
    BY DEF MapsInv, JobsInv
<1>2. HasJob(r)
    BY <1>1 DEF TypesInv, SubmitOK
<1>3. Registered(r)
    BY <1>1, <1>2 DEF MapsInv, HasJob, Registered
<1> QED BY <1>1, <1>2, <1>3 DEF MapsInv

(* Who is handling an event, and for whom: the pool's thread for a job, or *)
(* the call that enqueued it, and no other call's.                         *)
LEMMA HandlesFor ==
    ASSUME TypesInv, JobsInv, ThreadsInv, NEW t \in Threads, Handling(t)
    PROVE  \E r \in Requests :
             /\ HasJob(r) /\ submit[r].job = handler[t].job
             /\ t \in {Owning(submit[r].job), Submitting(r)}
             /\ \A q \in Requests \ {r} : HasJob(q) =>
                  submit[q].job # handler[t].job /\ t \notin {Owning(submit[q].job), Submitting(q)}
<1>1. ASSUME NEW r \in Requests, HasJob(r), submit[r].job = handler[t].job,
             t \in {Owning(submit[r].job), Submitting(r)},
             NEW q \in Requests \ {r}, HasJob(q)
      PROVE  submit[q].job # handler[t].job /\ t \notin {Owning(submit[q].job), Submitting(q)}
    <2>1. submit[q].job # submit[r].job /\ submit[q].job \in JobIds /\ submit[r].job \in JobIds
        BY <1>1, JobOfCall DEF JobsInv
    <2> QED BY <1>1, <2>1, ThreadNames
<1>2. CASE \E q \in Requests : t = Submitting(q)
    <2>1. PICK q \in Requests : t = Submitting(q)
        BY <1>2
    <2>2. handler[t].job = submit[q].job /\ submit[q].pc \in {"register", "replay"}
        BY <2>1 DEF ThreadsInv
    <2>3. HasJob(q)
        BY <2>2 DEF HasJob
    <2> QED BY <1>1, <2>1, <2>2, <2>3
<1>3. CASE \E j \in JobIds : t = Owning(j)
    <2>1. PICK j \in JobIds : t = Owning(j)
        BY <1>3
    <2>2. handler[t].job = j /\ owner[j].pc \in {"begin", "ended"}
        BY <2>1 DEF ThreadsInv
    <2>3. status[j] # "none"
        BY <2>2 DEF TypesInv, OwnerOK
    <2>4. PICK q \in Requests : submit[q].job = j
        BY <2>3 DEF JobsInv
    <2>5. HasJob(q)
        BY <2>4 DEF TypesInv, SubmitOK
    <2> QED BY <1>1, <2>1, <2>2, <2>4, <2>5
<1> QED BY <1>2, <1>3, ThreadNames

(* A step that leaves the maps alone, and at most takes a path.            *)
LEMMA MapsStay ==
    ASSUME TypesInv, MapsInv, UNCHANGED <<contexts, paths_by_id>>,
           \A q \in Requests :
             \/ submit'[q] = submit[q]
             \/ /\ submit[q].pc \in {"idle", "push", "insert"}
                /\ submit'[q].pc \in {"push", "insert", "context", "rejected"},
           \A j \in JobIds : status[j] # "none" => status'[j] # "none"
    PROVE  MapsInv'
<1>1. \A q \in Requests : submit'[q] # submit[q] =>
        /\ ~HasPath(q)
        /\ submit'[q].pc \notin {"enqueue", "queued", "register"}
        /\ ~Registered(q)'
    BY DEF HasPath, Registered
<1>2. \A p \in Paths : contexts[p] # None => contexts[p] \in Requests
    BY DEF TypesInv, TypeOK
<1>3. (\A p \in Paths : contexts[p] # None =>
         LET r == contexts[p] IN HasPath(r) /\ submit[r].pc # "context" /\ submit[r].path = p)'
    <2> SUFFICES ASSUME NEW p \in Paths, NEW r, r = contexts'[p], r # None
                 PROVE  HasPath(r)' /\ submit'[r].pc # "context" /\ submit'[r].path = p
        BY DEF HasPath
    <2>1. r = contexts[p] /\ r \in Requests
        BY <1>2
    <2>2. HasPath(r) /\ submit[r].pc # "context" /\ submit[r].path = p
        BY <2>1 DEF MapsInv
    <2>3. submit'[r] = submit[r]
        BY <1>1, <2>1, <2>2
    <2> QED BY <2>2, <2>3 DEF HasPath
<1>4. (\A r \in Requests : submit[r].pc \in {"enqueue", "queued", "register"} =>
         contexts[submit[r].path] = r)'
    BY <1>1 DEF MapsInv
<1>5. (\A r \in Requests : submit[r].pc \in {"queued", "register"} =>
         paths_by_id[submit[r].job] = None)'
    BY <1>1 DEF MapsInv
<1>6. (\A r \in Requests : Registered(r) =>
         IF paths_by_id[submit[r].job] = None
         THEN contexts[submit[r].path] # r
         ELSE paths_by_id[submit[r].job] = submit[r].path /\ contexts[submit[r].path] = r)'
    BY <1>1 DEF MapsInv, Registered
<1>7. (\A j \in JobIds : paths_by_id[j] # None => status[j] # "none")'
    BY DEF MapsInv
<1> QED BY <1>3, <1>4, <1>5, <1>6, <1>7 DEF MapsInv

(* Every step preserves MapsInv.                                           *)
LEMMA MapsNext ==
    ASSUME TypesInv, JobsInv, ThreadsInv, MapsInv, CatalogInv, [Next]_vars
    PROVE  MapsInv'
<1>1. CASE UNCHANGED <<submit, contexts, paths_by_id, status>>
    BY <1>1, MapsStay
<1>2. ASSUME NEW r \in Requests, PathStep(r), ~AddContext(r) PROVE MapsInv'
    <2>1. UNCHANGED contexts
        BY <1>2, SubmitEffect, InsertEffect DEF PathStep, PushJob, runnerVars
    <2>2. /\ submit[r].pc \in {"idle", "push", "insert"}
          /\ submit'[r].pc \in {"push", "insert", "context", "rejected"}
        <3>1. CASE PushJob(r)
            <4>1. submit[r].pc = "push" /\ GoSubmit(r, "insert")
                BY <3>1 DEF PushJob
            <4> QED BY <4>1, SubmitGoes DEF SubmitPcs
        <3> QED BY <1>2, <3>1, SubmitEffect, InsertEffect DEF PathStep
    <2> QED BY <1>2, <2>1, <2>2, PathEffect, MapsStay DEF OnlyCall, poolVars
<1>3. ASSUME NEW r \in Requests, AddContext(r) PROVE MapsInv'
    <2>1. /\ submit[r].pc = "context" /\ GoSubmit(r, "enqueue")
          /\ contexts' = [contexts EXCEPT ![submit[r].path] = r]
          /\ UNCHANGED <<status, paths_by_id>>
        BY <1>3 DEF AddContext, poolVars
    <2>2. /\ submit'[r].pc = "enqueue" /\ submit'[r].path = submit[r].path
          /\ \A q \in Requests \ {r} : submit'[q] = submit[q]
        BY <2>1, SubmitGoes DEF SubmitPcs
    <2> DEFINE p == submit[r].path
    <2>3. p \in Paths /\ contexts[p] = None /\ None \notin Requests
        BY <2>1, NoneApart DEF TypesInv, SubmitOK, HasPath, CatalogInv
    <2>4. contexts'[p] = r /\ \A q \in Paths \ {p} : contexts'[q] = contexts[q]
        BY <2>1, <2>3 DEF TypesInv, TypeOK
    <2>5. \A q \in Requests : HasPath(q) => submit[q].path \in Paths
        BY DEF TypesInv, SubmitOK
    <2>6. (\A q \in Paths : contexts[q] # None =>
             HasPath(contexts[q]) /\ submit[contexts[q]].pc # "context"
             /\ submit[contexts[q]].path = q)'
        <3> SUFFICES ASSUME NEW q \in Paths, NEW c, c = contexts'[q], c # None
                     PROVE  HasPath(c)' /\ submit'[c].pc # "context" /\ submit'[c].path = q
            BY DEF HasPath
        <3>1. CASE q = p
            BY <2>2, <2>4, <3>1 DEF HasPath
        <3>2. CASE q # p
            <4>1. c = contexts[q] /\ c \in Requests
                BY <2>4, <3>2 DEF TypesInv, TypeOK
            <4>2. HasPath(c) /\ submit[c].pc # "context" /\ submit[c].path = q
                BY <4>1 DEF MapsInv
            <4>3. submit'[c] = submit[c]
                BY <2>1, <2>2, <4>1, <4>2
            <4> QED BY <4>2, <4>3 DEF HasPath
        <3> QED BY <3>1, <3>2
    <2>7. (\A q \in Requests : submit[q].pc \in {"enqueue", "queued", "register"} =>
             contexts[submit[q].path] = q)'
        BY <2>2, <2>3, <2>4, <2>5 DEF MapsInv, HasPath
    <2>8. (\A q \in Requests : submit[q].pc \in {"queued", "register"} =>
             paths_by_id[submit[q].job] = None)'
        BY <2>1, <2>2 DEF MapsInv
    <2>9. (\A q \in Requests : Registered(q) =>
             IF paths_by_id[submit[q].job] = None
             THEN contexts[submit[q].path] # q
             ELSE paths_by_id[submit[q].job] = submit[q].path /\ contexts[submit[q].path] = q)'
        BY <2>1, <2>2, <2>3, <2>4, <2>5 DEF MapsInv, Registered, HasPath
    <2>10. (\A j \in JobIds : paths_by_id[j] # None => status[j] # "none")'
        BY <2>1 DEF MapsInv
    <2> QED BY <2>6, <2>7, <2>8, <2>9, <2>10 DEF MapsInv
<1>4. ASSUME NEW r \in Requests, Enqueue(r) PROVE MapsInv'
    <2> DEFINE j == submit'[r].job
    <2>1. /\ j \in JobIds /\ status[j] = "none" /\ status'[j] = "queued"
          /\ submit[r].pc = "enqueue" /\ submit'[r].pc = "queued"
          /\ submit'[r].path = submit[r].path
          /\ \A q \in Requests \ {r} : submit'[q] = submit[q]
          /\ \A i \in JobIds \ {j} : status'[i] = status[i]
          /\ UNCHANGED <<contexts, paths_by_id>>
        BY <1>4, EnqueueEffect DEF OnlyCall, runnerVars
    <2> HIDE DEF j
    <2>2. paths_by_id[j] = None /\ submit'[r].job = j
        BY <2>1 DEF MapsInv, j
    <2>3. \A i \in JobIds : status[i] # "none" => status'[i] # "none"
        BY <2>1
    <2>4. \A q \in Requests : HasPath(q) =>
            /\ HasPath(q)' /\ submit'[q].path = submit[q].path
            /\ submit[q].pc # "context" => submit'[q].pc # "context"
        BY <2>1 DEF HasPath
    <2>5. \A q \in Paths : contexts[q] # None => contexts[q] \in Requests
        BY DEF TypesInv, TypeOK
    <2> QED BY <2>1, <2>2, <2>3, <2>4, <2>5 DEF MapsInv, Registered
<1>5. ASSUME NEW r \in Requests, EmitQueued(r) \/ Replay(r) PROVE MapsInv'
    <2>1. \/ submit[r].pc = "queued" /\ submit'[r].pc = "register"
          \/ submit[r].pc = "replay" /\ submit'[r].pc \in {"replay", "returned"}
        BY <1>5, EmitQueuedEffect, ReplayEffect DEF Replays
    <2>2. /\ submit'[r].path = submit[r].path /\ submit'[r].job = submit[r].job
          /\ \A q \in Requests \ {r} : submit'[q] = submit[q]
          /\ UNCHANGED <<contexts, paths_by_id, status>>
        BY <1>5, EmitQueuedEffect, ReplayEffect DEF OnlyCall, runnerVars, poolVars
    <2>3. \A q \in Paths : contexts[q] # None => contexts[q] \in Requests
        BY DEF TypesInv, TypeOK
    <2> QED BY <2>1, <2>2, <2>3 DEF MapsInv, HasPath, Registered
<1>6. ASSUME NEW r \in Requests, Register(r) PROVE MapsInv'
    <2> DEFINE j == submit[r].job
    <2>1. /\ submit[r].pc = "register" /\ submit'[r].pc = "replay" /\ j \in JobIds
          /\ submit'[r].path = submit[r].path /\ submit'[r].job = j
          /\ paths_by_id'[j] = submit[r].path
          /\ \A i \in JobIds \ {j} : paths_by_id'[i] = paths_by_id[i]
          /\ \A q \in Requests \ {r} : submit'[q] = submit[q]
          /\ UNCHANGED <<contexts, status>>
        BY <1>6, RegisterEffect DEF OnlyCall, poolVars
    <2>2. submit[r].path \in Paths /\ None \notin Paths /\ contexts[submit[r].path] = r
          /\ status[j] # "none"
        BY <2>1, NoneApart DEF TypesInv, SubmitOK, HasPath, MapsInv, JobsInv
    <2>3. \A q \in Requests \ {r} : HasJob(q) => submit[q].job \in JobIds \ {j}
        BY <2>1, JobOfCall DEF JobsInv
    <2>4. \A q \in Paths : contexts[q] # None => contexts[q] \in Requests
        BY DEF TypesInv, TypeOK
    <2>5. (\A q \in Requests : Registered(q) =>
             IF paths_by_id[submit[q].job] = None
             THEN contexts[submit[q].path] # q
             ELSE paths_by_id[submit[q].job] = submit[q].path /\ contexts[submit[q].path] = q)'
        <3>1. \A q \in Requests \ {r} :
                Registered(q) => paths_by_id'[submit[q].job] = paths_by_id[submit[q].job]
            BY <2>1, <2>3 DEF Registered, HasJob
        <3> QED BY <2>1, <2>2, <3>1 DEF MapsInv, Registered
    <2>6. (\A q \in Requests : submit[q].pc \in {"queued", "register"} =>
             paths_by_id[submit[q].job] = None)'
        BY <2>1, <2>3 DEF MapsInv, HasJob
    <2>7. (\A i \in JobIds : paths_by_id[i] # None => status[i] # "none")'
        BY <2>1, <2>2 DEF MapsInv
    <2>8. (\A q \in Requests : submit[q].pc \in {"enqueue", "queued", "register"} =>
             contexts[submit[q].path] = q)'
        BY <2>1 DEF MapsInv
    <2>9. \A q \in Requests : HasPath(q) =>
            /\ HasPath(q)' /\ submit'[q].path = submit[q].path
            /\ submit[q].pc # "context" => submit'[q].pc # "context"
        BY <2>1 DEF HasPath
    <2>10. (\A p \in Paths : contexts[p] # None =>
             LET q == contexts[p] IN HasPath(q) /\ submit[q].pc # "context" /\ submit[q].path = p)'
        BY <2>1, <2>4, <2>9 DEF MapsInv
    <2> QED BY <2>5, <2>6, <2>7, <2>8, <2>10 DEF MapsInv
<1>7. ASSUME NEW t \in Threads, Lookup(t), Finds(t), Forgets(t) PROVE MapsInv'
    <2> DEFINE j == handler[t].job
               p == paths_by_id[j]
    <2>1. j \in JobIds /\ p \in Paths /\ p # None
        BY <1>7, NoneApart DEF Finds, TypesInv, HandlerOK, Handling
    <2>2. PICK r \in Requests : /\ submit[r].job = j /\ HasJob(r) /\ Registered(r)
                                /\ submit[r].path = p /\ contexts[p] = r
        BY <2>1, MappedCall
    <2>3. /\ paths_by_id'[j] = None /\ \A i \in JobIds \ {j} : paths_by_id'[i] = paths_by_id[i]
          /\ contexts'[p] = None /\ \A q \in Paths \ {p} : contexts'[q] = contexts[q]
          /\ UNCHANGED <<submit, status>>
        BY <1>7 DEF Forgets, Finds, poolVars, threadVars
    <2> HIDE DEF j, p
    <2>4. \A q \in Requests \ {r} : HasJob(q) => submit[q].job \in JobIds \ {j}
        BY <2>2, JobOfCall DEF JobsInv
    <2>5. \A q \in Requests : HasPath(q) => submit[q].path \in Paths
        BY DEF TypesInv, SubmitOK
    <2>6. (\A q \in Paths : contexts[q] # None =>
             LET c == contexts[q] IN HasPath(c) /\ submit[c].pc # "context" /\ submit[c].path = q)'
        BY <2>3 DEF MapsInv, HasPath
    <2>7. (\A q \in Requests : submit[q].pc \in {"enqueue", "queued", "register"} =>
             contexts[submit[q].path] = q)'
        BY <2>2, <2>3, <2>5 DEF MapsInv, HasPath, Registered
    <2>8. (\A q \in Requests : submit[q].pc \in {"queued", "register"} =>
             paths_by_id[submit[q].job] = None)'
        BY <2>2, <2>3, <2>4 DEF MapsInv, HasJob, Registered
    <2>9. (\A q \in Requests : Registered(q) =>
             IF paths_by_id[submit[q].job] = None
             THEN contexts[submit[q].path] # q
             ELSE paths_by_id[submit[q].job] = submit[q].path /\ contexts[submit[q].path] = q)'
        <3> SUFFICES ASSUME NEW q \in Requests, Registered(q)
                     PROVE  IF paths_by_id'[submit[q].job] = None
                            THEN contexts'[submit[q].path] # q
                            ELSE /\ paths_by_id'[submit[q].job] = submit[q].path
                                 /\ contexts'[submit[q].path] = q
            BY <2>3 DEF Registered
        <3>1. HasJob(q) /\ HasPath(q) /\ submit[q].path \in Paths /\ None \notin Requests
            BY <2>5, NoneApart DEF Registered, HasJob, HasPath
        <3>2. CASE q = r
            BY <2>2, <2>3, <3>1, <3>2
        <3>3. CASE q # r
            BY <2>2, <2>3, <2>4, <3>1, <3>3 DEF MapsInv
        <3> QED BY <3>2, <3>3
    <2>10. (\A i \in JobIds : paths_by_id[i] # None => status[i] # "none")'
        BY <2>1, <2>3 DEF MapsInv
    <2> QED BY <2>6, <2>7, <2>8, <2>9, <2>10 DEF MapsInv
<1>8. ASSUME NEW t \in Threads, HandlerStep(t) PROVE MapsInv'
    <2>1. UNCHANGED <<submit, status>>
        BY <1>8, HandlerStays DEF poolVars, threadVars
    <2>2. CASE UNCHANGED <<contexts, paths_by_id>>
        BY <1>1, <2>1, <2>2
    <2>3. CASE Lookup(t)
        BY <1>7, <2>2, <2>3, LookupCases DEF Keeps
    <2> QED BY <1>8, <2>2, <2>3 DEF HandlerStep, Notify, Fulfil, runnerVars
<1>9. ASSUME NEW j \in JobIds, OwnerStep(j) PROVE MapsInv'
    <2>1. UNCHANGED <<submit, contexts, paths_by_id>>
        BY <1>9, WorkEffect, StartEffect, EndEffect
           DEF OwnerStep, WorkStep, EndStep, runnerVars
    <2>2. "none" \notin Terminal
        BY DEF Terminal
    <2>3. \A i \in JobIds : status[i] # "none" => status'[i] # "none"
        BY <1>9, <2>2, WorkEffect, StartEffect, EndEffect
           DEF OwnerStep, WorkStep, EndStep, poolVars, OnlyJob, Ends
    <2> QED BY <2>1, <2>3, MapsStay
<1>10. ASSUME Destroy \/ \E r \in Requests : CallerStep(r) PROVE MapsInv'
    <2>1. Withdraws /\ UNCHANGED <<submit, contexts, paths_by_id>>
        BY <1>10, CallerEffect, DestroyEffect DEF runnerVars
    <2>2. \A i \in JobIds : status[i] # "none" => status'[i] # "none"
        BY <2>1 DEF Withdraws
    <2> QED BY <2>1, <2>2, MapsStay
<1>11. CASE UNCHANGED vars
    BY <1>1, <1>11 DEF vars, threadVars, runnerVars, poolVars
<1> QED BY <1>2, <1>3, <1>4, <1>5, <1>6, <1>8, <1>9, <1>10, <1>11
        DEF Next, InSubmitStep, PathStep, CallerStep, CancelStep

-----------------------------------------------------------------------------
(* The catalog                                                             *)

(* A step that leaves the catalog and contexts_ alone.                     *)
LEMMA CatalogStays ==
    ASSUME CatalogInv, UNCHANGED <<seen_paths, contexts>>,
           \A q \in Requests :
             /\ submit'[q].pc = "context" <=> submit[q].pc = "context"
             /\ submit[q].pc = "context" => submit'[q].path = submit[q].path
             /\ submit'[q].pc \in {"push", "insert"} => submit'[q].request \notin seen_paths
    PROVE  CatalogInv'
BY DEF CatalogInv

(* Between the check for a duplicate and AddContext no other call moves.   *)
LEMMA Alone ==
    ASSUME OneInv, NEW r \in Requests, InSubmit(r), OnlyCall(r)
    PROVE  \A q \in Requests \ {r} :
             /\ submit[q].pc \notin {"push", "insert", "context"}
             /\ submit'[q].pc \notin {"push", "insert", "context"}
BY DEF OneInv, OnlyCall, InSubmit, Returned

(* Every step preserves CatalogInv.                                        *)
LEMMA CatalogNext ==
    ASSUME TypesInv, JobsInv, OneInv, MapsInv, CatalogInv, [Next]_vars
    PROVE  CatalogInv'
<1>1. ASSUME UNCHANGED <<submit, seen_paths, contexts>> PROVE CatalogInv'
    BY <1>1, CatalogStays DEF CatalogInv
<1>2. ASSUME NEW r \in Requests, NEW p \in Paths, Submit(r, p) PROVE CatalogInv'
    <2>1. /\ \A q \in Requests \ {r} : submit'[q] = submit[q]
          /\ submit[r].pc = "idle" /\ submit'[r].pc \in {"push", "rejected"}
          /\ submit'[r].pc = "push" => submit'[r].request \notin seen_paths
          /\ UNCHANGED <<seen_paths, contexts>>
        BY <1>2, SubmitEffect DEF OnlyCall, runnerVars
    <2> QED BY <2>1, CatalogStays DEF CatalogInv
<1>3. ASSUME NEW r \in Requests, PushJob(r) PROVE CatalogInv'
    <2>1. submit[r].pc = "push" /\ GoSubmit(r, "insert") /\ UNCHANGED <<seen_paths, contexts>>
        BY <1>3 DEF PushJob
    <2>2. /\ submit'[r].pc = "insert" /\ submit'[r].request = submit[r].request
          /\ \A q \in Requests \ {r} : submit'[q] = submit[q]
        BY <2>1, SubmitGoes DEF SubmitPcs
    <2> QED BY <2>1, <2>2, CatalogStays DEF CatalogInv
<1>4. ASSUME NEW r \in Requests, InsertSeen(r) PROVE CatalogInv'
    <2> DEFINE p == submit[r].request
    <2>1. /\ OnlyCall(r) /\ submit[r].pc = "insert" /\ submit'[r].pc = "context"
          /\ submit'[r].path = Last(jobs)
          /\ seen_paths' = seen_paths \union {p} /\ UNCHANGED contexts
        BY <1>4, InsertEffect
    <2>2. Last(jobs) = p /\ p \notin seen_paths
        BY <2>1 DEF OneInv, CatalogInv
    <2>3. \A q \in Requests \ {r} :
            /\ submit[q].pc \notin {"push", "insert", "context"}
            /\ submit'[q].pc \notin {"push", "insert", "context"}
        BY <2>1, Alone DEF InSubmit, Returned
    <2>4. \A q \in Paths : q \in seen_paths <=> contexts[q] # None
        BY <2>1, <2>3 DEF CatalogInv
    <2>5. p \in Paths /\ contexts[p] = None
        BY <2>1, <2>2, <2>4 DEF TypesInv, SubmitOK
    <2> HIDE DEF p
    <2> QED BY <2>1, <2>2, <2>3, <2>4, <2>5 DEF CatalogInv
<1>5. ASSUME NEW r \in Requests, AddContext(r) PROVE CatalogInv'
    <2> DEFINE p == submit[r].path
    <2>1. /\ submit[r].pc = "context" /\ GoSubmit(r, "enqueue")
          /\ contexts' = [contexts EXCEPT ![p] = r] /\ UNCHANGED seen_paths
        BY <1>5 DEF AddContext
    <2>2. OnlyCall(r) /\ submit'[r].pc = "enqueue"
        BY <2>1, SubmitGoes DEF SubmitPcs, OnlyCall
    <2>3. \A q \in Requests \ {r} :
            /\ submit[q].pc \notin {"push", "insert", "context"}
            /\ submit'[q].pc \notin {"push", "insert", "context"}
        BY <2>1, <2>2, Alone DEF InSubmit, Returned
    <2>4. \A q \in Paths : q \in seen_paths <=> contexts[q] # None \/ q = p
        BY <2>1, <2>3 DEF CatalogInv
    <2>5. p \in Paths /\ contexts \in [Paths -> Requests \union {None}] /\ None # r
        BY <2>1, NoneApart DEF TypesInv, TypeOK, SubmitOK, HasPath
    <2> HIDE DEF p
    <2>6. \A q \in Paths : q \in seen_paths' <=> contexts'[q] # None
        BY <2>1, <2>4, <2>5
    <2>7. \A q \in Requests : submit'[q].pc \notin {"push", "insert", "context"}
        BY <2>2, <2>3
    <2> QED BY <2>6, <2>7 DEF CatalogInv
<1>6. ASSUME NEW r \in Requests, Enqueue(r) \/ IdStep(r) PROVE CatalogInv'
    <2>1. /\ \A q \in Requests \ {r} : submit'[q] = submit[q]
          /\ submit[r].pc \in {"enqueue", "queued", "register", "replay"}
          /\ submit'[r].pc \in {"queued", "register", "replay", "returned"}
        BY <1>6, EnqueueEffect, IdEffect DEF OnlyCall
    <2>2. UNCHANGED <<seen_paths, contexts>>
        BY <1>6, EnqueueEffect, IdEffect DEF runnerVars
    <2> QED BY <2>1, <2>2, CatalogStays DEF CatalogInv
<1>7. ASSUME NEW t \in Threads, Lookup(t), Finds(t), Forgets(t) PROVE CatalogInv'
    <2> DEFINE p == paths_by_id[handler[t].job]
    <2>1. /\ contexts'[p] = None /\ \A q \in Paths \ {p} : contexts'[q] = contexts[q]
          /\ seen_paths' = seen_paths \ {p} /\ UNCHANGED submit
        BY <1>7 DEF Forgets, Finds, threadVars
    <2>2. p \in Paths /\ contexts[p] # None
        <3>1. handler[t].job \in JobIds /\ p \in Paths
            BY <1>7 DEF Finds, TypesInv, HandlerOK, Handling
        <3> QED BY <3>1, NoneApart, MappedCall
    <2> HIDE DEF p
    <2>3. \A q \in Requests : submit[q].pc = "context" => submit[q].path # p
        BY <2>2 DEF CatalogInv
    <2>4. \A q \in Requests : submit[q].pc = "context" => submit[q].path \in Paths
        BY DEF TypesInv, SubmitOK, HasPath
    <2> QED BY <2>1, <2>2, <2>3, <2>4 DEF CatalogInv
<1>8. ASSUME NEW t \in Threads, HandlerStep(t) PROVE CatalogInv'
    <2>1. UNCHANGED submit
        BY <1>8, HandlerStays DEF threadVars
    <2>2. CASE UNCHANGED <<seen_paths, contexts>>
        BY <1>1, <2>1, <2>2
    <2>3. CASE Lookup(t)
        BY <1>7, <2>2, <2>3, LookupCases DEF Keeps
    <2> QED BY <1>8, <2>2, <2>3 DEF HandlerStep, Notify, Fulfil, runnerVars
<1>9. ASSUME NEW j \in JobIds, OwnerStep(j) PROVE CatalogInv'
    BY <1>1, <1>9, WorkEffect, StartEffect, EndEffect
       DEF OwnerStep, WorkStep, EndStep, runnerVars
<1>10. ASSUME Destroy \/ \E r \in Requests : CallerStep(r) PROVE CatalogInv'
    BY <1>1, <1>10, CallerEffect, DestroyEffect DEF runnerVars
<1>11. CASE UNCHANGED vars
    BY <1>1, <1>11 DEF vars, threadVars, runnerVars
<1> QED BY <1>2, <1>3, <1>4, <1>5, <1>6, <1>8, <1>9, <1>10, <1>11
        DEF Next, InSubmitStep, IdStep, CallerStep, CancelStep

-----------------------------------------------------------------------------
(* One end                                                                 *)

(* An end in a sequence that grows at its end, and is taken from its head. *)
LEMMA EndAppended ==
    ASSUME NEW seq \in Seq(Events), NEW e \in Events, NEW end, EndsOnce(seq, end),
           e \in Terminal => e = end /\ ~HasEnd(seq)
    PROVE  /\ HasEnd(Append(seq, e)) <=> HasEnd(seq) \/ e \in Terminal
           /\ EndsOnce(Append(seq, e), end)
<1> DEFINE long == Append(seq, e)
<1>1. /\ Len(seq) \in Nat /\ DOMAIN seq = 1 .. Len(seq)
      /\ DOMAIN long = 1 .. Len(seq) + 1
      /\ \A i \in 1 .. Len(seq) : long[i] = seq[i]
      /\ long[Len(seq) + 1] = e
    BY AppendProperties, LenProperties
<1>2. DOMAIN long = DOMAIN seq \union {Len(seq) + 1} /\ Len(seq) + 1 \notin DOMAIN seq
    BY <1>1
<1> HIDE DEF long
<1>3. HasEnd(long) <=> HasEnd(seq) \/ e \in Terminal
    BY <1>1, <1>2 DEF HasEnd
<1>4. EndsOnce(long, end)
    <2> SUFFICES ASSUME NEW i \in DOMAIN long, long[i] \in Terminal
                 PROVE  long[i] = end /\ \A k \in DOMAIN long : long[k] \in Terminal => k = i
        BY DEF EndsOnce
    <2>1. CASE e \in Terminal
        BY <1>1, <1>2, <2>1 DEF HasEnd
    <2>2. CASE e \notin Terminal
        BY <1>1, <1>2, <2>2 DEF EndsOnce
    <2> QED BY <2>1, <2>2
<1> QED BY <1>3, <1>4 DEF long

(* An end in a sequence that is taken from its head.                       *)
LEMMA EndTaken ==
    ASSUME NEW seq \in Seq(Events), seq # <<>>, NEW end, EndsOnce(seq, end)
    PROVE  /\ HasEnd(seq) <=> Head(seq) \in Terminal \/ HasEnd(Tail(seq))
           /\ Head(seq) \in Terminal => Head(seq) = end /\ ~HasEnd(Tail(seq))
           /\ EndsOnce(Tail(seq), end)
<1> DEFINE short == Tail(seq)
           n == Len(seq)
<1>1. /\ n \in Nat \ {0} /\ DOMAIN seq = 1 .. n /\ short \in Seq(Events)
      /\ Len(short) = n - 1 /\ \A i \in 1 .. Len(short) : short[i] = seq[i + 1]
      /\ Head(seq) = seq[1]
    BY LenProperties, HeadTailProperties, EmptySeq
<1>2. DOMAIN short = 1 .. n - 1
    BY <1>1, LenProperties
<1> HIDE DEF short, n
<1>3. /\ \A i \in DOMAIN short : i + 1 \in DOMAIN seq /\ short[i] = seq[i + 1] /\ i + 1 # 1
      /\ \A i \in DOMAIN seq \ {1} : i - 1 \in DOMAIN short /\ seq[i] = short[i - 1]
      /\ 1 \in DOMAIN seq
    <2>1. ASSUME NEW i \in DOMAIN short
          PROVE  i + 1 \in DOMAIN seq /\ short[i] = seq[i + 1] /\ i + 1 # 1
        BY <1>1, <1>2
    <2>2. ASSUME NEW i \in DOMAIN seq \ {1}
          PROVE  i - 1 \in DOMAIN short /\ seq[i] = short[i - 1]
        <3>1. i - 1 \in 1 .. n - 1 /\ (i - 1) + 1 = i
            BY <1>1
        <3> QED BY <1>1, <1>2, <3>1
    <2> QED BY <1>1, <2>1, <2>2
<1>4. HasEnd(seq) <=> Head(seq) \in Terminal \/ HasEnd(short)
    BY <1>1, <1>3 DEF HasEnd
<1>5. Head(seq) \in Terminal => Head(seq) = end /\ ~HasEnd(short)
    BY <1>1, <1>3 DEF HasEnd, EndsOnce
<1>6. EndsOnce(short, end)
    <2> SUFFICES ASSUME NEW i \in DOMAIN short, short[i] \in Terminal
                 PROVE  /\ short[i] = end
                        /\ \A k \in DOMAIN short : short[k] \in Terminal => k = i
        BY DEF EndsOnce
    <2>1. seq[i + 1] \in Terminal /\ i + 1 \in DOMAIN seq /\ short[i] = seq[i + 1]
        BY <1>3
    <2>2. short[i] = end
        BY <2>1 DEF EndsOnce
    <2>3. ASSUME NEW k \in DOMAIN short, short[k] \in Terminal PROVE k = i
        <3>1. seq[k + 1] \in Terminal /\ k + 1 \in DOMAIN seq
            BY <1>3, <2>3
        <3>2. k + 1 = i + 1
            BY <2>1, <3>1 DEF EndsOnce
        <3> QED BY <1>2, <3>2
    <2> QED BY <2>2, <2>3
<1> QED BY <1>4, <1>5, <1>6 DEF short

(* A sequence without an end.                                              *)
LEMMA NoEndOnce ==
    /\ \A seq, end : ~HasEnd(seq) => EndsOnce(seq, end)
    /\ ~HasEnd(<<>>)
BY DEF HasEnd, EndsOnce

(* Until a job has an end it is nowhere, and nothing stands in the way of  *)
(* the first.                                                              *)
LEMMA NoEndYet ==
    ASSUME NEW end, NEW own, NEW kept, NEW todo, NEW sub, NEW result \in Terminal \union {None},
           OneEnd(end, own, kept, todo, sub, result), end \notin Terminal
    PROVE  /\ own \notin Terminal /\ ~HasEnd(kept) /\ ~HasEnd(todo)
           /\ sub \notin Terminal /\ result = None
BY DEF OneEnd, HasEnd, EndsOnce

(* The first end may be with the pool's thread.                            *)
LEMMA FirstEnd ==
    ASSUME NEW end, NEW own, NEW kept, NEW todo, NEW sub,
           own \in Terminal => own = end,
           ~HasEnd(kept), ~HasEnd(todo), sub \notin Terminal
    PROVE  OneEnd(end, own, kept, todo, sub, None)
BY NoEndOnce DEF OneEnd

(* The moves of an end: a thread is done with it, or goes on to an event   *)
(* that is none, it is kept, or becomes the promise's.                     *)
LEMMA EndLeaves ==
    ASSUME NEW end, NEW own, NEW kept, NEW todo, NEW sub, NEW result, NEW e, e \notin Terminal,
           OneEnd(end, own, kept, todo, sub, result)
    PROVE  OneEnd(end, e, kept, todo, sub, result) /\ OneEnd(end, own, kept, todo, e, result)
BY DEF OneEnd

(* It is kept.                                                             *)
LEMMA EndKept ==
    ASSUME NEW end, NEW own, NEW kept \in Seq(Events), NEW todo, NEW sub, NEW result,
           NEW e, e \notin Terminal, OneEnd(end, own, kept, todo, sub, result)
    PROVE  /\ own \in Events => OneEnd(end, e, Append(kept, own), todo, sub, result)
           /\ sub \in Events => OneEnd(end, own, Append(kept, sub), todo, e, result)
<1>1. EndsOnce(kept, end) /\ EndsOnce(todo, end)
    BY DEF OneEnd
<1>2. ASSUME own \in Events PROVE OneEnd(end, e, Append(kept, own), todo, sub, result)
    <2>1. /\ HasEnd(Append(kept, own)) <=> HasEnd(kept) \/ own \in Terminal
          /\ EndsOnce(Append(kept, own), end)
        BY <1>1, <1>2, EndAppended DEF OneEnd
    <2> QED BY <2>1 DEF OneEnd
<1>3. ASSUME sub \in Events PROVE OneEnd(end, own, Append(kept, sub), todo, e, result)
    <2>1. /\ HasEnd(Append(kept, sub)) <=> HasEnd(kept) \/ sub \in Terminal
          /\ EndsOnce(Append(kept, sub), end)
        BY <1>1, <1>3, EndAppended DEF OneEnd
    <2> QED BY <2>1 DEF OneEnd
<1> QED BY <1>2, <1>3

(* It becomes the promise's.                                               *)
LEMMA EndPromised ==
    ASSUME NEW end, NEW own, NEW kept, NEW todo, NEW sub, NEW result, NEW e, e \notin Terminal,
           OneEnd(end, own, kept, todo, sub, result)
    PROVE  /\ own \in Terminal => OneEnd(end, e, kept, todo, sub, own)
           /\ sub \in Terminal => OneEnd(end, own, kept, todo, e, sub)
BY DEF OneEnd

(* What was kept is taken to be replayed, and replayed by submit.          *)
LEMMA EndReplayed ==
    ASSUME NEW end, NEW own, NEW kept, NEW todo \in Seq(Events), NEW sub, NEW result,
           OneEnd(end, own, kept, todo, sub, result)
    PROVE  /\ todo = <<>> => OneEnd(end, own, <<>>, kept, sub, result)
           /\ todo # <<>> /\ sub \notin Terminal =>
                OneEnd(end, own, kept, Tail(todo), Head(todo), result)
<1>1. todo = <<>> => OneEnd(end, own, <<>>, kept, sub, result)
    BY NoEndOnce DEF OneEnd
<1>2. ASSUME todo # <<>>, sub \notin Terminal
      PROVE  OneEnd(end, own, kept, Tail(todo), Head(todo), result)
    <2>1. /\ HasEnd(todo) <=> Head(todo) \in Terminal \/ HasEnd(Tail(todo))
          /\ Head(todo) \in Terminal => Head(todo) = end /\ ~HasEnd(Tail(todo))
          /\ EndsOnce(Tail(todo), end)
        BY <1>2, EndTaken DEF OneEnd
    <2> QED BY <1>2, <2>1 DEF OneEnd
<1> QED BY <1>1, <1>2

-----------------------------------------------------------------------------
(* Where an end is                                                         *)

(* What a step of handle_event does to the places.                         *)
LEMMA CallEffect ==
    ASSUME TypesInv, NEW t \in Threads, HandlerStep(t)
    PROVE  /\ Handling(t) /\ handler[t].job \in JobIds /\ handler[t].event \in Events
           /\ handler'[t].event \in {None, handler[t].event}
           /\ \A u \in Threads \ {t} : handler'[u] = handler[u]
           /\ UNCHANGED <<submit, status>>
           /\ \/ UNCHANGED <<pending, promise>>
              \/ Keeps(t)
              \/ Fulfil(t)
<1>1. /\ Handling(t) /\ handler[t].job \in JobIds /\ handler[t].event \in Events
      /\ \A u \in Threads \ {t} : handler'[u] = handler[u]
      /\ handler'[t].event \in {None, handler[t].event}
      /\ UNCHANGED <<submit, status>>
    BY HandlerStays, NoCallOK DEF TypesInv, HandlerOK, poolVars, threadVars
<1>2. CASE Lookup(t)
    BY <1>1, <1>2, LookupCases DEF Finds
<1>3. CASE Notify(t)
    BY <1>1, <1>3 DEF Notify, runnerVars
<1>4. CASE Fulfil(t)
    BY <1>1, <1>4
<1> QED BY <1>2, <1>3, <1>4 DEF HandlerStep

(* The context a thread has looked up is of the call it handles events for.*)
LEMMA HandledCall ==
    ASSUME TypesInv, JobsInv, ContextInv, NEW t \in Threads, Calling(t),
           NEW r \in Requests, HasJob(r), submit[r].job = handler[t].job
    PROVE  handler[t].context = r
BY DEF TypesInv, HandlerOK, ContextInv, JobsInv

(* A call whose part of the state a step leaves alone.                     *)
LEMMA PlaceStays ==
    ASSUME NEW r \in Requests, PlaceOf(r),
           submit'[r].job = submit[r].job, submit'[r].todo = submit[r].todo,
           LET j == submit[r].job IN
             /\ status'[j] = status[j] /\ pending'[j] = pending[j]
             /\ handler'[Owning(j)].event = handler[Owning(j)].event,
           handler'[Submitting(r)].event = handler[Submitting(r)].event,
           promise'[r] = promise[r]
    PROVE  PlaceOf(r)'
BY DEF PlaceOf

(* A job without an end moves.                                             *)
LEMMA PlaceBegins ==
    ASSUME TypesInv, NEW r \in Requests, HasJob(r), PlaceOf(r),
           submit'[r] = submit[r], promise'[r] = promise[r],
           LET j == submit[r].job IN
             /\ status[j] \notin Terminal /\ pending'[j] = pending[j]
             /\ \/ handler'[Owning(j)].event = handler[Owning(j)].event
                \/ handler'[Owning(j)].event \in Events \ Terminal
                \/ handler'[Owning(j)].event = status'[j],
           handler'[Submitting(r)].event = handler[Submitting(r)].event
    PROVE  PlaceOf(r)'
<1> DEFINE j == submit[r].job
           o == Owning(j)
<1>1. promise[r] \in Terminal \union {None}
    BY DEF TypesInv, TypeOK
<1>2. /\ handler[o].event \notin Terminal /\ ~HasEnd(pending[j]) /\ ~HasEnd(submit[r].todo)
      /\ handler[Submitting(r)].event \notin Terminal /\ promise[r] = None
    BY <1>1, NoEndYet DEF PlaceOf
<1>3. handler'[o].event \in Terminal => handler'[o].event = status'[j]
    BY <1>2
<1>4. OneEnd(status'[j], handler'[o].event, pending[j], submit[r].todo,
             handler[Submitting(r)].event, None)
    BY <1>2, <1>3, FirstEnd
<1> QED BY <1>2, <1>4 DEF PlaceOf

(* A step of handle_event moves the end of the job it handles, and no      *)
(* other.                                                                  *)
LEMMA PlaceHandler ==
    ASSUME TypesInv, JobsInv, ThreadsInv, PlaceInv, ContextInv,
           NEW t \in Threads, HandlerStep(t)
    PROVE  PlaceInv'
<1>1. PICK r \in Requests :
        /\ HasJob(r) /\ submit[r].job = handler[t].job
        /\ t \in {Owning(submit[r].job), Submitting(r)}
        /\ \A q \in Requests \ {r} : HasJob(q) =>
             submit[q].job # handler[t].job /\ t \notin {Owning(submit[q].job), Submitting(q)}
    BY CallEffect, HandlesFor
<1> DEFINE j == submit[r].job
           e == handler[t].event
<1>2. /\ j \in JobIds /\ j = handler[t].job /\ e \in Events
      /\ \A u \in Threads \ {t} : handler'[u] = handler[u]
      /\ handler'[t].event \in {None, e}
      /\ UNCHANGED <<submit, status>>
    BY <1>1, CallEffect
<1>3. /\ Owning(j) \in Threads /\ Submitting(r) \in Threads /\ Owning(j) # Submitting(r)
    BY <1>2, ThreadNames
<1>4. /\ pending \in [JobIds -> Seq(Events)] /\ submit[r].todo \in Seq(Events)
    BY DEF TypesInv, TypeOK, SubmitLocals
<1>5. Fulfil(t) => /\ handler[t].context = r /\ e \in Terminal /\ UNCHANGED pending
                   /\ promise'[r] = e /\ \A q \in Requests \ {r} : promise'[q] = promise[q]
                   /\ handler'[t].event = None
    <2> SUFFICES ASSUME Fulfil(t)
                 PROVE  /\ handler[t].context = r /\ e \in Terminal /\ UNCHANGED pending
                        /\ promise'[r] = e
                        /\ \A q \in Requests \ {r} : promise'[q] = promise[q]
                        /\ handler'[t].event = None
        OBVIOUS
    <2>1. Calling(t)
        BY DEF Calling, Fulfil
    <2>2. handler[t].context = r
        BY <1>1, <2>1, HandledCall
    <2> QED BY <2>2, FulfilEffect, NoCallOK DEF runnerVars
<1>6. Keeps(t) => /\ pending'[j] = Append(pending[j], e) /\ UNCHANGED promise
                  /\ \A i \in JobIds \ {j} : pending'[i] = pending[i]
                  /\ handler'[t].event = None
    BY <1>2, NoCallOK DEF Keeps
<1>7. \/ UNCHANGED <<pending, promise>> \/ Keeps(t) \/ Fulfil(t)
    BY CallEffect
<1> HIDE DEF j, e
<1>8. PlaceOf(r)'
    <2>1. OneEnd(status[j], handler[Owning(j)].event, pending[j], submit[r].todo,
                 handler[Submitting(r)].event, promise[r])
        BY <1>1 DEF PlaceInv, PlaceOf, j
    <2>2. None \notin Terminal /\ t \in {Owning(j), Submitting(r)} /\ pending[j] \in Seq(Events)
          /\ e = handler[t].event
        BY <1>1, <1>2, <1>4, NoneApart DEF j, e
    <2>3. OneEnd(status[j], handler'[Owning(j)].event, pending'[j], submit[r].todo,
                 handler'[Submitting(r)].event, promise'[r])
        <3>1. CASE t = Owning(j)
            <4>1. handler'[Submitting(r)] = handler[Submitting(r)]
                BY <1>2, <1>3, <3>1
            <4>2. CASE Keeps(t)
                <5>1. OneEnd(status[j], None, Append(pending[j], e),
                           submit[r].todo, handler[Submitting(r)].event, promise[r])
                    BY <1>2, <2>1, <2>2, <3>1, EndKept
                <5> QED BY <1>6, <3>1, <4>1, <4>2, <5>1
            <4>3. CASE Fulfil(t)
                <5>1. OneEnd(status[j], None, pending[j],
                           submit[r].todo, handler[Submitting(r)].event, e)
                    BY <1>5, <2>1, <2>2, <3>1, <4>3, EndPromised
                <5> QED BY <1>5, <3>1, <4>1, <4>3, <5>1
            <4>4. CASE UNCHANGED <<pending, promise>>
                <5>1. OneEnd(status[j], None, pending[j],
                           submit[r].todo, handler[Submitting(r)].event, promise[r])
                    BY <2>1, <2>2, EndLeaves
                <5> QED BY <1>2, <2>1, <2>2, <3>1, <4>1, <4>4, <5>1
            <4> QED BY <1>7, <4>2, <4>3, <4>4
        <3>2. CASE t = Submitting(r)
            <4>1. handler'[Owning(j)] = handler[Owning(j)]
                BY <1>2, <1>3, <3>2
            <4>2. CASE Keeps(t)
                <5>1. OneEnd(status[j], handler[Owning(j)].event, Append(pending[j], e),
                           submit[r].todo, None, promise[r])
                    BY <1>2, <2>1, <2>2, <3>2, EndKept
                <5> QED BY <1>6, <3>2, <4>1, <4>2, <5>1
            <4>3. CASE Fulfil(t)
                <5>1. OneEnd(status[j], handler[Owning(j)].event, pending[j],
                           submit[r].todo, None, e)
                    BY <1>5, <2>1, <2>2, <3>2, <4>3, EndPromised
                <5> QED BY <1>5, <3>2, <4>1, <4>3, <5>1
            <4>4. CASE UNCHANGED <<pending, promise>>
                <5>1. OneEnd(status[j], handler[Owning(j)].event, pending[j],
                           submit[r].todo, None, promise[r])
                    BY <2>1, <2>2, EndLeaves
                <5> QED BY <1>2, <2>1, <2>2, <3>2, <4>1, <4>4, <5>1
            <4> QED BY <1>7, <4>2, <4>3, <4>4
        <3> QED BY <2>2, <3>1, <3>2
    <2> QED BY <1>2, <2>3 DEF PlaceOf, j
<1>9. ASSUME NEW q \in Requests \ {r}, HasJob(q) PROVE PlaceOf(q)'
    <2>1. submit[q].job \in JobIds \ {j}
        BY <1>1, <1>9, JobOfCall DEF j
    <2>2. /\ Owning(submit[q].job) \in Threads \ {t} /\ Submitting(q) \in Threads \ {t}
        BY <1>1, <1>9, <2>1, ThreadNames
    <2>3. pending'[submit[q].job] = pending[submit[q].job] /\ promise'[q] = promise[q]
        BY <1>5, <1>6, <1>7, <2>1
    <2> QED BY <1>2, <1>9, <2>2, <2>3, PlaceStays DEF PlaceInv
<1>10. \A i \in JobIds : status'[i] = "none" => pending'[i] = <<>>
    <2>1. status[j] # "none"
        BY <1>1, <1>2 DEF JobsInv, j
    <2> QED BY <1>2, <1>5, <1>6, <1>7, <2>1 DEF PlaceInv
<1>11. \A q \in Requests : HasJob(q)' => HasJob(q)
    BY <1>2 DEF HasJob
<1> QED BY <1>8, <1>9, <1>10, <1>11 DEF PlaceInv

(* A job that is handed to the pool is nowhere.                            *)
LEMMA PlaceEnqueued ==
    ASSUME TypesInv, JobsInv, ThreadsInv, PlaceInv, TakenInv, NEW r \in Requests, Enqueue(r)
    PROVE  /\ PlaceOf(r)'
           /\ handler[Owning(submit'[r].job)] = NoCall /\ handler[Submitting(r)] = NoCall
           /\ promise[r] = None /\ pending[submit'[r].job] = <<>>
<1> DEFINE j == submit'[r].job
<1>1. /\ submit[r].pc = "enqueue" /\ submit'[r].todo = submit[r].todo
      /\ j \in JobIds /\ status[j] = "none"
      /\ UNCHANGED <<pending, promise, handler>>
    BY EnqueueEffect DEF runnerVars
<1>2. handler[Owning(j)] = NoCall
    <2>1. owner[j].pc = "none"
        BY <1>1 DEF TypesInv, OwnerOK
    <2> QED BY <1>1, <2>1, ThreadNames DEF ThreadsInv, TypesInv, HandlerOK, Handling
<1>3. handler[Submitting(r)] = NoCall
    BY <1>1, ThreadNames DEF ThreadsInv, TypesInv, HandlerOK, Handling
<1>4. /\ pending[j] = <<>> /\ submit[r].todo = <<>> /\ promise[r] = None
    BY <1>1 DEF PlaceInv, TypesInv, SubmitOK, TakenInv, HasJob
<1> HIDE DEF j
<1>5. PlaceOf(r)'
    <2>1. OneEnd(status'[j], None, <<>>, <<>>, None, None)
        BY NoneApart, NoEndOnce, FirstEnd
    <2> QED BY <1>1, <1>2, <1>3, <1>4, <2>1, NoCallOK DEF PlaceOf, j
<1> QED BY <1>2, <1>3, <1>4, <1>5 DEF j

(* Every step preserves PlaceInv.                                          *)
LEMMA PlaceNext ==
    ASSUME TypesInv, JobsInv, ThreadsInv, PlaceInv, TakenInv, ContextInv, [Next]_vars
    PROVE  PlaceInv'
<1>1. ASSUME UNCHANGED <<submit, status, handler, pending, promise>> PROVE PlaceInv'
    BY <1>1, PlaceStays DEF PlaceInv, HasJob
<1>2. ASSUME NEW r \in Requests, PathStep(r) PROVE PlaceInv'
    <2>1. /\ OnlyCall(r) /\ ~HasJob(r)' /\ UNCHANGED <<status, handler, pending, promise>>
        BY <1>2, PathEffect DEF HasJob, poolVars
    <2>2. ASSUME NEW q \in Requests, HasJob(q)' PROVE PlaceOf(q)'
        <3>1. submit'[q] = submit[q] /\ HasJob(q)
            BY <2>1, <2>2 DEF OnlyCall, HasJob
        <3> QED BY <2>1, <3>1, PlaceStays DEF PlaceInv
    <2> QED BY <2>1, <2>2 DEF PlaceInv
<1>3. ASSUME NEW r \in Requests, Enqueue(r) PROVE PlaceInv'
    <2> DEFINE j == submit'[r].job
    <2>1. /\ OnlyCall(r) /\ j \in JobIds /\ status[j] = "none" /\ status'[j] = "queued"
          /\ \A i \in JobIds \ {j} : status'[i] = status[i]
          /\ UNCHANGED <<pending, promise, handler>>
        BY <1>3, EnqueueEffect DEF runnerVars
    <2> HIDE DEF j
    <2>2. ASSUME NEW q \in Requests \ {r}, HasJob(q)' PROVE PlaceOf(q)'
        <3>1. submit'[q] = submit[q] /\ HasJob(q)
            BY <2>1, <2>2 DEF OnlyCall, HasJob
        <3>2. submit[q].job \in JobIds \ {j}
            BY <2>1, <3>1, JobOfCall DEF JobsInv
        <3> QED BY <2>1, <3>1, <3>2, PlaceStays DEF PlaceInv
    <2>3. PlaceOf(r)'
        BY <1>3, PlaceEnqueued
    <2> QED BY <2>1, <2>2, <2>3 DEF PlaceInv
<1>4. ASSUME NEW r \in Requests, EmitQueued(r) PROVE PlaceInv'
    <2> DEFINE j == submit[r].job
               s == Submitting(r)
    <2>1. /\ OnlyCall(r) /\ j \in JobIds /\ submit'[r].job = j
          /\ submit'[r].todo = submit[r].todo /\ HasJob(r)
          /\ UNCHANGED <<status, pending, promise>>
        BY <1>4, EmitQueuedEffect DEF poolVars, runnerVars, HasJob
    <2>2. handler'[s].event = "queued" /\ \A u \in Threads \ {s} : handler'[u] = handler[u]
        BY <1>4, EmitQueuedEffect, EventHandled, ThreadNames, NoneApart
    <2>3. PlaceOf(r)'
        <3>1. OneEnd(status[j], handler[Owning(j)].event, pending[j], submit[r].todo, "queued",
                     promise[r])
            BY <2>1, NoneApart, EndLeaves DEF PlaceInv, PlaceOf
        <3>2. Owning(j) \in Threads \ {s}
            BY <2>1, ThreadNames
        <3> QED BY <2>1, <2>2, <3>1, <3>2 DEF PlaceOf
    <2>4. ASSUME NEW q \in Requests \ {r}, HasJob(q)' PROVE PlaceOf(q)'
        <3>1. submit'[q] = submit[q] /\ HasJob(q)
            BY <2>1, <2>4 DEF OnlyCall, HasJob
        <3>2. Owning(submit[q].job) \in Threads \ {s} /\ Submitting(q) \in Threads \ {s}
            BY <3>1, JobOfCall, ThreadNames
        <3> QED BY <2>1, <2>2, <3>1, <3>2, PlaceStays DEF PlaceInv
    <2> QED BY <2>1, <2>3, <2>4 DEF PlaceInv
<1>5. ASSUME NEW r \in Requests, Register(r) PROVE PlaceInv'
    <2> DEFINE j == submit[r].job
    <2>1. /\ OnlyCall(r) /\ j \in JobIds /\ submit'[r].job = j /\ submit[r].pc = "register"
          /\ submit'[r].todo = pending[j] /\ pending'[j] = <<>>
          /\ \A i \in JobIds \ {j} : pending'[i] = pending[i]
          /\ UNCHANGED <<status, handler, promise>>
        BY <1>5, RegisterEffect DEF poolVars
    <2>2. submit[r].todo = <<>> /\ HasJob(r) /\ submit[r].todo \in Seq(Events)
        BY <2>1 DEF TypesInv, TypeOK, SubmitLocals, SubmitOK, HasJob
    <2>3. PlaceOf(r)'
        <3>1. OneEnd(status[j], handler[Owning(j)].event, <<>>, pending[j],
                     handler[Submitting(r)].event, promise[r])
            BY <2>2, EndReplayed DEF PlaceInv, PlaceOf
        <3> QED BY <2>1, <3>1 DEF PlaceOf
    <2>4. ASSUME NEW q \in Requests \ {r}, HasJob(q)' PROVE PlaceOf(q)'
        <3>1. submit'[q] = submit[q] /\ HasJob(q)
            BY <2>1, <2>4 DEF OnlyCall, HasJob
        <3>2. submit[q].job \in JobIds \ {j}
            BY <2>2, <3>1, JobOfCall DEF JobsInv
        <3> QED BY <2>1, <3>1, <3>2, PlaceStays DEF PlaceInv
    <2>5. \A i \in JobIds : status'[i] = "none" => pending'[i] = <<>>
        BY <2>1 DEF PlaceInv
    <2> QED BY <2>3, <2>4, <2>5 DEF PlaceInv
<1>6. ASSUME NEW r \in Requests, Replay(r) PROVE PlaceInv'
    <2> DEFINE j == submit[r].job
               s == Submitting(r)
    <2>1. /\ OnlyCall(r) /\ j \in JobIds /\ submit'[r].job = j /\ HasJob(r)
          /\ handler[s].pc = "idle"
          /\ UNCHANGED <<status, pending, promise>>
        BY <1>6, ReplayEffect DEF poolVars, runnerVars, HasJob
    <2>2. handler[s].event = None /\ submit[r].todo \in Seq(Events)
        BY <2>1, ThreadNames, NoCallOK
           DEF TypesInv, TypeOK, SubmitLocals, HandlerOK
    <2>3. \A u \in Threads \ {s} : handler'[u] = handler[u]
        BY <1>6, ReplayEffect, EventHandled, ThreadNames DEF Replays
    <2>4. Owning(j) \in Threads \ {s}
        BY <2>1, ThreadNames
    <2>5. PlaceOf(r)'
        <3>1. CASE submit'[r].todo = submit[r].todo /\ UNCHANGED handler
            BY <2>1, <3>1, PlaceStays DEF PlaceInv
        <3>2. CASE Replays(r)
            <4>1. /\ submit[r].todo # <<>> /\ submit'[r].todo = Tail(submit[r].todo)
                  /\ handler'[s].event = Head(submit[r].todo)
                BY <2>1, <3>2, ThreadNames, EventHandled DEF Replays
            <4>2. OneEnd(status[j], handler[Owning(j)].event, pending[j], Tail(submit[r].todo),
                         Head(submit[r].todo), promise[r])
                BY <2>1, <2>2, <4>1, NoneApart, EndReplayed DEF PlaceInv, PlaceOf
            <4> QED BY <2>1, <2>3, <2>4, <4>1, <4>2 DEF PlaceOf
        <3> QED BY <1>6, <3>1, <3>2, ReplayEffect
    <2>6. ASSUME NEW q \in Requests \ {r}, HasJob(q)' PROVE PlaceOf(q)'
        <3>1. submit'[q] = submit[q] /\ HasJob(q)
            BY <2>1, <2>6 DEF OnlyCall, HasJob
        <3>2. Owning(submit[q].job) \in Threads \ {s} /\ Submitting(q) \in Threads \ {s}
            BY <3>1, JobOfCall, ThreadNames
        <3> QED BY <2>1, <2>3, <3>1, <3>2, PlaceStays DEF PlaceInv
    <2> QED BY <2>1, <2>5, <2>6 DEF PlaceInv
<1>7. ASSUME NEW t \in Threads, HandlerStep(t) PROVE PlaceInv'
    BY <1>7, PlaceHandler
<1>8. ASSUME NEW j \in JobIds, WorkStep(j) PROVE PlaceInv'
    BY <1>1, <1>8, WorkEffect DEF poolVars, runnerVars
<1>9. ASSUME NEW j \in JobIds, NEW from \in {"queued", "running", "withdrawn"}, NEW e \in Events,
             OnlyJob(j, from, e) /\ HandleEvent(Owning(j), j, e),
             UNCHANGED <<submit, pending, promise>>
      PROVE  PlaceInv'
    <2>1. /\ status[j] = from /\ status'[j] = e
          /\ \A i \in JobIds \ {j} : status'[i] = status[i]
          /\ handler'[Owning(j)].event = e
          /\ \A u \in Threads \ {Owning(j)} : handler'[u] = handler[u]
        BY <1>9, EventHandled, ThreadNames DEF OnlyJob
    <2>2. from \notin Terminal /\ from # "none" /\ e # "none"
        BY DEF Terminal, Events
    <2>3. ASSUME NEW q \in Requests, HasJob(q) PROVE PlaceOf(q)'
        <3>1. submit[q].job \in JobIds /\ Submitting(q) \in Threads \ {Owning(j)}
            BY <2>3, JobOfCall, ThreadNames
        <3>2. CASE submit[q].job = j
            BY <1>9, <2>1, <2>2, <2>3, <3>1, <3>2, PlaceBegins DEF PlaceInv
        <3>3. CASE submit[q].job # j
            <4>1. Owning(submit[q].job) \in Threads \ {Owning(j)}
                BY <3>1, <3>3, ThreadNames
            <4> QED BY <1>9, <2>1, <2>3, <3>1, <3>3, <4>1, PlaceStays DEF PlaceInv
        <3> QED BY <3>2, <3>3
    <2> QED BY <1>9, <2>1, <2>2, <2>3 DEF PlaceInv, HasJob
<1>10. ASSUME NEW j \in JobIds, Start(j) PROVE PlaceInv'
    BY <1>9, <1>10, StartEffect, NoneApart DEF runnerVars
<1>11. ASSUME NEW j \in JobIds, EndStep(j) PROVE PlaceInv'
    <2>1. PICK result \in Terminal : Ends(j, result)
        BY <1>11, EndEffect
    <2>2. /\ status[j] \in {"queued", "running", "withdrawn"} /\ result \in Events
          /\ UNCHANGED <<submit, pending, promise>>
        BY <1>11, EndEffect, NoneApart DEF runnerVars
    <2> QED BY <1>9, <2>1, <2>2 DEF Ends
<1>12. ASSUME Destroy \/ \E r \in Requests : CallerStep(r) PROVE PlaceInv'
    <2>1. Withdraws /\ UNCHANGED <<submit, handler, pending, promise>>
        BY <1>12, CallerEffect, DestroyEffect DEF runnerVars
    <2>2. "queued" \notin Terminal
        BY DEF Terminal
    <2>3. ASSUME NEW q \in Requests, HasJob(q) PROVE PlaceOf(q)'
        <3>1. submit[q].job \in JobIds /\ PlaceOf(q)
            BY <2>3, JobOfCall DEF PlaceInv
        <3>2. CASE status'[submit[q].job] = status[submit[q].job]
            BY <2>1, <3>1, <3>2, PlaceStays
        <3>3. CASE status[submit[q].job] = "queued"
            BY <2>1, <2>2, <2>3, <3>1, <3>3, PlaceBegins
        <3> QED BY <2>1, <3>1, <3>2, <3>3 DEF Withdraws
    <2>4. \A i \in JobIds : status'[i] = "none" => status[i] = "none"
        BY <2>1 DEF Withdraws
    <2> QED BY <2>1, <2>3, <2>4 DEF PlaceInv, HasJob
<1>13. CASE UNCHANGED vars
    BY <1>1, <1>13 DEF vars, threadVars, runnerVars, poolVars
<1> QED BY <1>2, <1>3, <1>4, <1>5, <1>6, <1>7, <1>8, <1>10, <1>11, <1>12, <1>13
        DEF Next, InSubmitStep, PathStep, OwnerStep, WorkStep, EndStep, CallerStep, CancelStep

-----------------------------------------------------------------------------
(* Who has looked an end up                                                *)

(* A thread that begins to handle an event was idle.                       *)
LEMMA Begins ==
    ASSUME TypesInv, NEW t \in Threads, NEW j \in JobIds, NEW e \in Events,
           HandleEvent(t, j, e), ~Handling(t)
    PROVE  \A u \in Threads : Calling(u)' \/ Calling(u) => handler'[u] = handler[u]
BY EventHandled DEF Calling, Handling

(* The steps, as the lemmas about them group them.                         *)
LEMMA NextCases ==
    ASSUME [Next]_vars
    PROVE  \/ \E t \in Threads : HandlerStep(t)
           \/ \E r \in Requests : PathStep(r) \/ Enqueue(r) \/ IdStep(r) \/ CallerStep(r)
           \/ \E j \in JobIds : WorkStep(j) \/ Start(j) \/ EndStep(j)
           \/ Destroy \/ UNCHANGED vars
BY DEF Next, InSubmitStep, PathStep, IdStep, OwnerStep, WorkStep, EndStep, CallerStep,
       CancelStep

(* Only handle_event moves a thread that has looked a context up.          *)
LEMMA CallersStay ==
    ASSUME TypesInv, ThreadsInv, [Next]_vars, ~ \E t \in Threads : HandlerStep(t)
    PROVE  /\ \A u \in Threads : Calling(u)' \/ Calling(u) => handler'[u] = handler[u]
           /\ UNCHANGED <<promise, observed>>
<1> DEFINE Stay == /\ \A u \in Threads : Calling(u)' \/ Calling(u) => handler'[u] = handler[u]
                   /\ UNCHANGED <<promise, observed>>
<1>1. ASSUME UNCHANGED <<handler, promise, observed>> PROVE Stay
    BY <1>1
<1>2. ASSUME NEW r \in Requests, EmitQueued(r) PROVE Stay
    <2>1. ~Handling(Submitting(r))
        BY <1>2, EmitQueuedEffect DEF ThreadsInv
    <2> QED BY <1>2, <2>1, EmitQueuedEffect, Begins, ThreadNames, NoneApart
<1>3. ASSUME NEW r \in Requests, Replay(r) PROVE Stay
    <2>1. ~Handling(Submitting(r)) /\ submit[r].job \in JobIds /\ UNCHANGED <<promise, observed>>
        BY <1>3, ReplayEffect DEF Handling
    <2>2. CASE Replays(r)
        BY <2>1, <2>2, Begins, ThreadNames DEF Replays
    <2> QED BY <1>1, <1>3, <2>1, <2>2, ReplayEffect
<1>4. ASSUME NEW j \in JobIds, Start(j) PROVE Stay
    <2>1. ~Handling(Owning(j))
        <3>1. owner[j].pc = "none"
            BY <1>4, StartEffect DEF OnlyJob, TypesInv, OwnerOK
        <3> QED BY <3>1 DEF ThreadsInv
    <2> QED BY <1>4, <2>1, StartEffect, Begins, ThreadNames, NoneApart
<1>5. ASSUME NEW j \in JobIds, EndStep(j) PROVE Stay
    <2>1. ~Handling(Owning(j))
        BY <1>5, EndEffect DEF ThreadsInv
    <2>2. PICK result \in Terminal : HandleEvent(Owning(j), j, result)
        BY <1>5, EndEffect DEF Ends
    <2> QED BY <1>5, <2>1, <2>2, EndEffect, Begins, ThreadNames, NoneApart
<1>6. ASSUME NEW r \in Requests, PathStep(r) \/ Enqueue(r) \/ Register(r) PROVE Stay
    BY <1>1, <1>6, PathEffect, EnqueueEffect, RegisterEffect
<1>7. ASSUME NEW j \in JobIds, WorkStep(j) PROVE Stay
    BY <1>1, <1>7, WorkEffect
<1>8. ASSUME Destroy \/ \E r \in Requests : CallerStep(r) PROVE Stay
    BY <1>1, <1>8, CallerEffect, DestroyEffect
<1>9. CASE UNCHANGED vars
    BY <1>1, <1>9 DEF vars
<1>10. ASSUME NEW r \in Requests, IdStep(r) PROVE Stay
    BY <1>2, <1>3, <1>6, <1>10 DEF IdStep
<1>11. \/ \E t \in Threads : HandlerStep(t)
       \/ \E q \in Requests : PathStep(q) \/ Enqueue(q) \/ IdStep(q) \/ CallerStep(q)
       \/ \E j \in JobIds : WorkStep(j) \/ Start(j) \/ EndStep(j)
       \/ Destroy \/ UNCHANGED vars
    BY NextCases
<1>12. Stay
    BY <1>4, <1>5, <1>6, <1>7, <1>8, <1>9, <1>10, <1>11
<1> QED BY <1>12 DEF Stay

(* A call that has a job keeps it.                                         *)
LEMMA CallsStay ==
    ASSUME TypesInv, [Next]_vars, NEW r \in Requests
    PROVE  \/ Enqueue(r)
           \/ Register(r)
           \/ /\ submit'[r].job = submit[r].job
              /\ HasJob(r)' <=> HasJob(r)
              /\ Registered(r)' <=> Registered(r)
<1> DEFINE Stays == /\ submit'[r].job = submit[r].job
                    /\ HasJob(r)' <=> HasJob(r)
                    /\ Registered(r)' <=> Registered(r)
<1>1. ASSUME submit'[r] = submit[r] PROVE Stays
    BY <1>1 DEF HasJob, Registered
<1>2. ASSUME NEW q \in Requests, PathStep(q) \/ IdStep(q) \/ Enqueue(q)
      PROVE  OnlyCall(q)
    BY <1>2, PathEffect, EnqueueEffect, IdEffect
<1>3. ASSUME NEW q \in Requests \ {r}, PathStep(q) \/ IdStep(q) \/ Enqueue(q) PROVE Stays
    BY <1>1, <1>2, <1>3 DEF OnlyCall
<1>4. CASE PathStep(r)
    BY <1>4, PathEffect DEF HasJob, Registered
<1>5. CASE EmitQueued(r)
    BY <1>5, EmitQueuedEffect DEF HasJob, Registered
<1>6. CASE Replay(r)
    BY <1>6, ReplayEffect DEF HasJob, Registered, Replays
<1>7. ASSUME UNCHANGED submit PROVE Stays
    BY <1>1, <1>7
<1>8. CASE \E t \in Threads : HandlerStep(t)
    BY <1>7, <1>8, CallEffect
<1>9. CASE \E j \in JobIds : WorkStep(j) \/ Start(j) \/ EndStep(j)
    BY <1>7, <1>9, WorkEffect, StartEffect, EndEffect
<1>10. CASE Destroy \/ \E q \in Requests : CallerStep(q)
    BY <1>7, <1>10, CallerEffect, DestroyEffect
<1>11. CASE UNCHANGED vars
    BY <1>7, <1>11 DEF vars, threadVars
<1>12. \/ \E t \in Threads : HandlerStep(t)
       \/ \E q \in Requests : PathStep(q) \/ Enqueue(q) \/ IdStep(q) \/ CallerStep(q)
       \/ \E j \in JobIds : WorkStep(j) \/ Start(j) \/ EndStep(j)
       \/ Destroy \/ UNCHANGED vars
    BY NextCases
<1>13. Enqueue(r) \/ Register(r) \/ Stays
    BY <1>3, <1>4, <1>5, <1>6, <1>8, <1>9, <1>10, <1>11, <1>12 DEF IdStep
<1> QED BY <1>13 DEF Stays

(* An end that a thread handles is nowhere else.                           *)
LEMMA EndHandled ==
    ASSUME TypesInv, PlaceInv, NEW r \in Requests, HasJob(r),
           NEW t \in {Owning(submit[r].job), Submitting(r)}, Ending(t)
    PROVE  /\ handler[t].event = status[submit[r].job]
           /\ \A u \in {Owning(submit[r].job), Submitting(r)} \ {t} : ~Ending(u)
           /\ ~HasEnd(pending[submit[r].job]) /\ promise[r] = None
BY ThreadNames, JobOfCall DEF PlaceInv, PlaceOf, OneEnd, Ending

(* Every step preserves KeptInv.                                           *)
LEMMA KeptNext ==
    ASSUME TypesInv, JobsInv, ThreadsInv, PlaceInv, KeptInv, TakenInv, [Next]_vars
    PROVE  KeptInv'
<1> SUFFICES ASSUME NEW r \in Requests, Registered(r)'
             PROVE  ~HasEnd(pending[submit[r].job])'
    BY DEF KeptInv
<1>1. CASE Register(r)
    BY <1>1, RegisterEffect, NoEndOnce
<1>2. CASE Enqueue(r)
    BY <1>2, EnqueueEffect DEF Registered
<1>3. CASE submit'[r].job = submit[r].job /\ Registered(r)
    <2> DEFINE j == submit[r].job
    <2>1. /\ submit'[r].job = j /\ j \in JobIds /\ HasJob(r) /\ ~HasEnd(pending[j])
          /\ pending[j] \in Seq(Events)
        BY <1>3, JobOfCall DEF Registered, HasJob, KeptInv, TypesInv, TypeOK
    <2> HIDE DEF j
    <2>2. ASSUME pending'[j] = pending[j] PROVE ~HasEnd(pending'[j])
        BY <2>1, <2>2
    <2>3. ASSUME NEW t \in Threads, Keeps(t), handler[t].job = j, HandlerStep(t)
          PROVE  ~HasEnd(pending'[j])
        <3>1. /\ t \in {Owning(j), Submitting(r)} /\ handler[t].event \in Events
              /\ \A q \in Requests \ {r} : HasJob(q) => submit[q].job # j
            <4>1. Handling(t) /\ handler[t].event \in Events
                BY <2>3, CallEffect
            <4>2. PICK q \in Requests :
                    /\ HasJob(q) /\ submit[q].job = handler[t].job
                    /\ t \in {Owning(submit[q].job), Submitting(q)}
                BY <4>1, HandlesFor
            <4>3. q = r /\ \A i \in Requests \ {r} : HasJob(i) => submit[i].job # j
                BY <2>1, <2>3, <4>2 DEF JobsInv, j
            <4> QED BY <2>3, <4>1, <4>2, <4>3
        <3>2. paths_by_id[j] = None /\ pending'[j] = Append(pending[j], handler[t].event)
              /\ handler[t].pc = "lookup"
            BY <2>3 DEF Keeps
        <3>3. Taken(r)
            BY <1>3, <2>1, <3>2 DEF TakenInv, j
        <3>4. handler[t].event \notin Terminal
            <4> SUFFICES ASSUME Ending(t) PROVE FALSE
                BY DEF Ending
            <4>1. /\ promise[r] = None
                  /\ \A u \in {Owning(j), Submitting(r)} \ {t} : ~Ending(u)
                BY <2>1, <3>1, EndHandled DEF j
            <4>2. ~Took(t)
                BY <3>2 DEF Took, Calling
            <4>3. \A u \in {Owning(j), Submitting(r)} : ~Took(u)
                BY <4>1, <4>2 DEF Took
            <4> QED BY <3>3, <4>1, <4>3 DEF Taken, j
        <3>5. EndsOnce(pending[j], status[j])
            BY <2>1 DEF PlaceInv, PlaceOf, OneEnd, j
        <3> QED BY <2>1, <3>1, <3>2, <3>4, <3>5, EndAppended
    <2>4. ~HasEnd(pending'[j])
        <3>1. CASE \E t \in Threads : HandlerStep(t)
            <4>1. PICK t \in Threads : HandlerStep(t)
                BY <3>1
            <4>2. CASE Keeps(t) /\ handler[t].job = j
                BY <2>3, <4>1, <4>2
            <4>3. CASE Keeps(t) /\ handler[t].job # j
                BY <2>1, <2>2, <4>3 DEF Keeps
            <4>4. CASE UNCHANGED pending
                BY <2>2, <4>4
            <4>5. UNCHANGED pending \/ Keeps(t)
                BY <4>1, CallEffect, FulfilEffect DEF runnerVars
            <4> QED BY <4>2, <4>3, <4>4, <4>5
        <3>2. CASE \E q \in Requests : Register(q)
            <4>1. PICK q \in Requests : Register(q)
                BY <3>2
            <4>2. CASE submit[q].job = j
                BY <4>1, <4>2, RegisterEffect, NoEndOnce
            <4>3. CASE submit[q].job # j
                BY <2>1, <2>2, <4>1, <4>3, RegisterEffect
            <4> QED BY <4>2, <4>3
        <3>3. CASE \E q \in Requests : PathStep(q) \/ Enqueue(q) \/ EmitQueued(q) \/ Replay(q)
            BY <2>2, <3>3, PathEffect, EnqueueEffect, EmitQueuedEffect, ReplayEffect
               DEF runnerVars
        <3>4. CASE \E i \in JobIds : WorkStep(i) \/ Start(i) \/ EndStep(i)
            BY <2>2, <3>4, WorkEffect, StartEffect, EndEffect DEF runnerVars
        <3>5. CASE Destroy \/ \E q \in Requests : CallerStep(q)
            BY <2>2, <3>5, CallerEffect, DestroyEffect DEF runnerVars
        <3>6. CASE UNCHANGED vars
            BY <2>2, <3>6 DEF vars, runnerVars
        <3>7. \/ \E t \in Threads : HandlerStep(t)
              \/ \E q \in Requests : PathStep(q) \/ Enqueue(q) \/ IdStep(q) \/ CallerStep(q)
              \/ \E i \in JobIds : WorkStep(i) \/ Start(i) \/ EndStep(i)
              \/ Destroy \/ UNCHANGED vars
            BY NextCases
        <3> QED BY <3>1, <3>2, <3>3, <3>4, <3>5, <3>6, <3>7 DEF IdStep
    <2> QED BY <2>1, <2>4
<1> QED BY <1>1, <1>2, <1>3, CallsStay

(* A thread that has looked nothing up has not taken an end.               *)
LEMMA TakenStays ==
    ASSUME NEW r \in Requests, HasJob(r), submit'[r].job = submit[r].job,
           Taken(r) <=> Registered(r) /\ paths_by_id[submit[r].job] = None,
           Registered(r)' <=> Registered(r),
           paths_by_id'[submit[r].job] = paths_by_id[submit[r].job],
           \A t \in {Owning(submit[r].job), Submitting(r)} : Took(t)' <=> Took(t),
           promise'[r] = promise[r]
    PROVE  (Taken(r) <=> Registered(r) /\ paths_by_id[submit[r].job] = None)'
BY DEF Taken

(* A step of handle_event preserves TakenInv.                              *)
LEMMA TakenHandler ==
    ASSUME TypesInv, JobsInv, ThreadsInv, MapsInv, PlaceInv, TakenInv, ContextInv,
           NEW t \in Threads, HandlerStep(t)
    PROVE  TakenInv'
<1>1. PICK r \in Requests :
        /\ HasJob(r) /\ submit[r].job = handler[t].job
        /\ t \in {Owning(submit[r].job), Submitting(r)}
        /\ \A q \in Requests \ {r} : HasJob(q) =>
             submit[q].job # handler[t].job /\ t \notin {Owning(submit[q].job), Submitting(q)}
    BY CallEffect, HandlesFor
<1> DEFINE j == submit[r].job
<1>2. /\ j \in JobIds /\ j = handler[t].job
      /\ \A u \in Threads \ {t} : handler'[u] = handler[u]
      /\ UNCHANGED <<submit, status>>
    BY <1>1, CallEffect
<1>3. Owning(j) \in Threads /\ Submitting(r) \in Threads
    BY <1>2, ThreadNames
<1>4. \A q \in Requests \ {r} : HasJob(q) =>
        /\ submit[q].job \in JobIds \ {j}
        /\ Owning(submit[q].job) \in Threads \ {t} /\ Submitting(q) \in Threads \ {t}
    BY <1>1, JobOfCall, ThreadNames
<1>5. \A u \in Threads \ {t} : Took(u)' <=> Took(u)
    BY <1>2 DEF Took, Calling, Ending
<1>6. \A q \in Requests : /\ Registered(q)' <=> Registered(q)
                          /\ HasJob(q)' <=> HasJob(q)
    BY <1>2 DEF Registered, HasJob
<1>7. Taken(r) <=> Registered(r) /\ paths_by_id[j] = None
    BY <1>1 DEF TakenInv
<1> HIDE DEF j
(* An end is looked up.                                                    *)
<1>8. ASSUME Finds(t), Forgets(t) PROVE TakenInv'
    <2>1. /\ paths_by_id[j] \in Paths /\ paths_by_id'[j] = None
          /\ \A i \in JobIds \ {j} : paths_by_id'[i] = paths_by_id[i]
          /\ Ending(t) /\ UNCHANGED promise
        BY <1>2, <1>8 DEF Finds, Forgets, Ending
    <2>2. PICK q \in Requests : /\ submit[q].job = j /\ HasJob(q) /\ Registered(q)
                                /\ contexts[paths_by_id[j]] = q
        BY <1>2, <2>1, MappedCall, NoneApart
    <2>3. q = r /\ q # None
        BY <1>1, <2>2, NoneApart DEF j
    <2>4. Took(t)'
        BY <1>2, <1>8, <2>1, <2>2, <2>3 DEF Finds, Took, Calling, Ending
    <2>5. Taken(r)'
        BY <1>1, <1>2, <2>4 DEF Taken
    <2>6. (Taken(r) <=> Registered(r) /\ paths_by_id[submit[r].job] = None)'
        BY <1>2, <1>6, <2>1, <2>2, <2>3, <2>5 DEF j
    <2>7. ASSUME NEW i \in Requests \ {r}, HasJob(i)
          PROVE  (Taken(i) <=> Registered(i) /\ paths_by_id[submit[i].job] = None)'
        BY <1>2, <1>4, <1>5, <1>6, <2>1, <2>7, TakenStays DEF TakenInv
    <2> QED BY <1>6, <2>1, <2>6, <2>7 DEF TakenInv
(* Nothing changes hands.                                                  *)
<1>9. ASSUME UNCHANGED <<paths_by_id, promise>>, Took(t)' <=> Took(t) PROVE TakenInv'
    <2>1. ASSUME NEW i \in Requests, HasJob(i)
          PROVE  (Taken(i) <=> Registered(i) /\ paths_by_id[submit[i].job] = None)'
        <3>1. \A u \in {Owning(submit[i].job), Submitting(i)} : Took(u)' <=> Took(u)
            BY <1>5, <1>9, <2>1, JobOfCall, ThreadNames
        <3> QED BY <1>2, <1>6, <1>9, <2>1, <3>1, TakenStays DEF TakenInv
    <2> QED BY <1>6, <1>9, <2>1 DEF TakenInv
<1>10. CASE Lookup(t)
    <2>1. ~Took(t)
        BY <1>10 DEF Lookup, Took, Calling
    <2>2. CASE Keeps(t)
        BY <1>9, <2>1, <2>2, NoCallOK DEF Keeps, Took, Calling
    <2>3. CASE Finds(t) /\ handler[t].event \notin Terminal /\ UNCHANGED paths_by_id
        <3>1. ~Took(t)'
            BY <2>3, CallEffect, NoneApart DEF Took, Ending
        <3> QED BY <1>9, <2>1, <2>3, <3>1 DEF Finds
    <2> QED BY <1>8, <1>10, <2>2, <2>3, LookupCases
<1>11. CASE Notify(t)
    <2>1. UNCHANGED <<paths_by_id, promise>>
        BY <1>11, NotifyEffect DEF runnerVars
    <2>2. CASE handler[t].event \in Terminal
        BY <1>9, <1>11, <2>1, <2>2, NotifyEffect DEF Took, Calling, Ending
    <2>3. CASE handler[t].event \notin Terminal
        BY <1>9, <1>11, <2>1, <2>3, NotifyEffect, NoCallOK, NoneApart DEF Took, Ending
    <2> QED BY <2>2, <2>3
<1>12. CASE Fulfil(t)
    <2>1. /\ Took(t) /\ handler[t].context = r /\ handler[t].event \in Terminal
          /\ promise'[r] = handler[t].event
          /\ \A q \in Requests \ {r} : promise'[q] = promise[q]
          /\ UNCHANGED paths_by_id
        <3>1. Calling(t)
            BY <1>12 DEF Fulfil, Calling
        <3>2. handler[t].context = r
            BY <1>1, <3>1, HandledCall
        <3> QED BY <1>12, <3>1, <3>2, FulfilEffect DEF runnerVars, Took, Ending
    <2>2. Taken(r) /\ Taken(r)'
        BY <1>1, <2>1, NoneApart DEF Taken
    <2>3. ASSUME NEW i \in Requests \ {r}, HasJob(i)
          PROVE  (Taken(i) <=> Registered(i) /\ paths_by_id[submit[i].job] = None)'
        BY <1>2, <1>4, <1>5, <1>6, <2>1, <2>3, TakenStays DEF TakenInv
    <2>4. (Taken(r) <=> Registered(r) /\ paths_by_id[submit[r].job] = None)'
        BY <1>2, <1>6, <1>7, <2>1, <2>2 DEF j
    <2> QED BY <1>1, <1>6, <2>1, <2>3, <2>4 DEF TakenInv
<1> QED BY <1>10, <1>11, <1>12 DEF HandlerStep

(* Every step preserves TakenInv.                                          *)
LEMMA TakenNext ==
    ASSUME TypesInv, JobsInv, ThreadsInv, MapsInv, PlaceInv, TakenInv, ContextInv, [Next]_vars
    PROVE  TakenInv'
<1>1. CASE \E t \in Threads : HandlerStep(t)
    BY <1>1, TakenHandler
<1>2. CASE ~ \E t \in Threads : HandlerStep(t)
    <2>1. UNCHANGED promise /\ \A u \in Threads : Took(u)' <=> Took(u)
        BY <1>2, CallersStay DEF Took, Ending, Calling
    <2>2. ASSUME NEW r \in Requests PROVE promise'[r] # None => HasJob(r)'
        <3>1. CASE Enqueue(r)
            BY <3>1, EnqueueEffect DEF HasJob
        <3>2. CASE Register(r)
            BY <3>2, RegisterEffect DEF HasJob
        <3> QED BY <2>1, <3>1, <3>2, CallsStay DEF TakenInv
    <2>3. ASSUME NEW r \in Requests, HasJob(r)'
          PROVE  (Taken(r) <=> Registered(r) /\ paths_by_id[submit[r].job] = None)'
        <3>1. CASE Enqueue(r)
            <4>0. PICK j \in JobIds : j = submit'[r].job
                BY <3>1, EnqueueEffect
            <4>1. /\ ~Registered(r)' /\ promise[r] = None
                  /\ handler[Owning(j)] = NoCall /\ handler[Submitting(r)] = NoCall
                BY <3>1, <4>0, PlaceEnqueued, EnqueueEffect DEF Registered
            <4>2. ~Took(Owning(j)) /\ ~Took(Submitting(r))
                BY <4>1, NoCallOK DEF Took, Calling
            <4>3. Owning(j) \in Threads /\ Submitting(r) \in Threads
                BY ThreadNames
            <4>4. ~Took(Owning(j))' /\ ~Took(Submitting(r))'
                BY <2>1, <4>2, <4>3
            <4> QED BY <2>1, <4>0, <4>1, <4>4 DEF Taken
        <3>2. CASE Register(r)
            <4> DEFINE j == submit[r].job
            <4>1. /\ j \in JobIds /\ submit'[r].job = j /\ HasJob(r) /\ ~Registered(r)
                  /\ paths_by_id'[j] = submit[r].path
                BY <3>2, RegisterEffect DEF HasJob, Registered
            <4>2. paths_by_id'[j] # None
                BY <4>1, JobOfCall, NoneApart
            <4>3. ~Taken(r)
                BY <4>1 DEF TakenInv
            <4>4. Owning(j) \in Threads /\ Submitting(r) \in Threads
                BY <4>1, ThreadNames
            <4>5. ~Taken(r)'
                BY <2>1, <4>1, <4>3, <4>4 DEF Taken
            <4> QED BY <4>1, <4>2, <4>5
        <3>3. CASE /\ submit'[r].job = submit[r].job /\ ~Register(r)
                   /\ HasJob(r)' <=> HasJob(r)
                   /\ Registered(r)' <=> Registered(r)
            <4>1. HasJob(r) /\ submit[r].job \in JobIds
                BY <2>3, <3>3, JobOfCall
            <4>2. paths_by_id'[submit[r].job] = paths_by_id[submit[r].job]
                <5>1. ASSUME NEW q \in Requests, Register(q)
                      PROVE  paths_by_id'[submit[r].job] = paths_by_id[submit[r].job]
                    <6>1. submit[q].job # submit[r].job
                        BY <3>3, <4>1, <5>1 DEF JobsInv
                    <6> QED BY <4>1, <5>1, <6>1, RegisterEffect
                <5>2. CASE \E q \in Requests :
                             PathStep(q) \/ Enqueue(q) \/ EmitQueued(q) \/ Replay(q)
                    BY <5>2, PathEffect, EnqueueEffect, EmitQueuedEffect, ReplayEffect
                       DEF runnerVars
                <5>3. CASE \E i \in JobIds : WorkStep(i) \/ Start(i) \/ EndStep(i)
                    BY <5>3, WorkEffect, StartEffect, EndEffect DEF runnerVars
                <5>4. CASE Destroy \/ \E q \in Requests : CallerStep(q)
                    BY <5>4, CallerEffect, DestroyEffect DEF runnerVars
                <5>5. CASE UNCHANGED vars
                    BY <5>5 DEF vars, runnerVars
                <5>6. \/ \E t \in Threads : HandlerStep(t)
                      \/ \E q \in Requests :
                           PathStep(q) \/ Enqueue(q) \/ IdStep(q) \/ CallerStep(q)
                      \/ \E i \in JobIds : WorkStep(i) \/ Start(i) \/ EndStep(i)
                      \/ Destroy \/ UNCHANGED vars
                    BY NextCases
                <5> QED BY <1>2, <5>1, <5>2, <5>3, <5>4, <5>5, <5>6 DEF IdStep
            <4>3. Owning(submit[r].job) \in Threads /\ Submitting(r) \in Threads
                BY <4>1, ThreadNames
            <4>4. \A t \in {Owning(submit[r].job), Submitting(r)} : Took(t)' <=> Took(t)
                BY <2>1, <4>3
            <4> QED BY <2>1, <3>3, <4>1, <4>2, <4>4, TakenStays DEF TakenInv
        <3> QED BY <3>1, <3>2, <3>3, CallsStay
    <2> QED BY <2>2, <2>3 DEF TakenInv
<1> QED BY <1>1, <1>2

-----------------------------------------------------------------------------
(* Whom an event goes to                                                   *)

(* A job that runs still has its context.                                  *)
LEMMA RunningHasContext ==
    ASSUME TypesInv, JobsInv, MapsInv, PlaceInv, TakenInv,
           NEW j \in JobIds, status[j] = "running"
    PROVE  \E r \in Requests : submit[r].job = j /\ contexts[owner[j].path] = r
<1>1. PICK r \in Requests : submit[r].job = j
    BY DEF JobsInv
<1>2. HasJob(r) /\ owner[j].path = submit[r].path
    BY <1>1 DEF TypesInv, SubmitOK, JobsInv
<1>3. CASE submit[r].pc \in {"queued", "register"}
    BY <1>1, <1>2, <1>3 DEF MapsInv
<1>4. CASE Registered(r)
    <2>1. promise[r] \in Terminal \union {None} /\ "running" \notin Terminal
        BY NoneApart DEF TypesInv, TypeOK
    <2>2. ~Ending(Owning(j)) /\ ~Ending(Submitting(r)) /\ promise[r] = None
        BY <1>1, <1>2, <2>1, NoEndYet DEF PlaceInv, PlaceOf, Ending
    <2>3. ~Taken(r)
        BY <1>1, <2>2 DEF Taken, Took
    <2>4. paths_by_id[j] # None
        BY <1>1, <1>2, <1>4, <2>3 DEF TakenInv
    <2> QED BY <1>1, <1>2, <1>4, <2>4 DEF MapsInv
<1> QED BY <1>1, <1>2, <1>3, <1>4 DEF HasJob, Registered

(* Every step preserves ContextInv.                                        *)
LEMMA ContextNext ==
    ASSUME TypesInv, TypesInv', JobsInv, ThreadsInv, MapsInv, PlaceInv, TakenInv, ContextInv,
           [Next]_vars
    PROVE  ContextInv'
<1>1. \A q \in Requests : submit[q].job \in JobIds => submit'[q].job = submit[q].job
    <2> SUFFICES ASSUME NEW q \in Requests, submit[q].job \in JobIds
                 PROVE  submit'[q].job = submit[q].job
        OBVIOUS
    <2>1. ~Enqueue(q)
        BY EnqueueEffect DEF TypesInv, SubmitOK, HasJob
    <2> QED BY <2>1, CallsStay, RegisterEffect
<1>2. ASSUME NEW t \in Threads, Calling(t)
      PROVE  submit'[handler[t].context].job = handler[t].job
    BY <1>1, <1>2 DEF ContextInv, TypesInv, HandlerOK, Calling, Handling
<1>3. ASSUME NEW t \in Threads, Calling(t)'
      PROVE  submit'[handler'[t].context].job = handler'[t].job
    <2>1. CASE handler'[t] = handler[t]
        BY <1>2, <1>3, <2>1 DEF Calling
    <2>2. CASE ~ \E u \in Threads : HandlerStep(u)
        BY <1>3, <2>1, <2>2, CallersStay
    <2>3. ASSUME NEW u \in Threads, HandlerStep(u)
          PROVE  submit'[handler'[t].context].job = handler'[t].job
        <3>1. CASE t # u
            BY <2>1, <2>3, <3>1, CallEffect
        <3>2. CASE t = u /\ Notify(u)
            BY <1>2, <1>3, <3>2, NotifyEffect, NoCallOK DEF Calling
        <3>3. CASE t = u /\ Fulfil(u)
            BY <1>3, <3>3, FulfilEffect, NoCallOK DEF Calling
        <3>4. CASE t = u /\ Lookup(u)
            <4> DEFINE j == handler[t].job
                       p == paths_by_id[j]
            <4>1. ~Keeps(t) /\ j \in JobIds
                BY <1>3, <2>3, <3>4, NoCallOK, CallEffect DEF Keeps, Calling
            <4>2. Finds(t)
                BY <3>4, <4>1, LookupCases
            <4>3. /\ p \in Paths /\ handler'[t].context = contexts[p] /\ handler'[t].job = j
                  /\ UNCHANGED submit
                BY <1>3, <4>2, NoCallOK DEF Finds, Calling, threadVars
            <4>4. \E r \in Requests : submit[r].job = j /\ contexts[p] = r
                BY <4>1, <4>3, MappedCall, NoneApart
            <4> QED BY <4>3, <4>4
        <3> QED BY <2>3, <3>1, <3>2, <3>3, <3>4 DEF HandlerStep
    <2> QED BY <2>2, <2>3
<1>4. ASSUME NEW j \in JobIds, owner'[j].pc = "observe"
      PROVE  owner'[j].context \in Requests /\ submit'[owner'[j].context].job = j
    <2>1. CASE owner[j].pc = "observe" /\ owner'[j].context = owner[j].context
        BY <1>1, <2>1 DEF ContextInv
    <2>2. CASE WorkStep(j)
        <3>1. /\ owner[j].pc = "progress" /\ owner'[j].context = contexts[owner[j].path]
              /\ UNCHANGED submit
            BY <1>4, <2>2, WorkEffect
        <3>2. status[j] = "running"
            BY <3>1 DEF TypesInv, TypeOK, Pool!LifecycleTypeOK, Pool!Status, Pool!Ended,
                        Terminal, OwnerOK, Pool!JobIds, JobIds
        <3> QED BY <3>1, <3>2, RunningHasContext
    <2>3. ASSUME owner'[j] = owner[j]
          PROVE  owner[j].pc = "observe" /\ owner'[j].context = owner[j].context
        BY <1>4, <2>3
    <2>4. ASSUME NEW i \in JobIds, WorkStep(i) \/ Start(i) \/ EndStep(i), i # j
          PROVE  owner'[j] = owner[j]
        BY <2>4, WorkEffect, StartEffect, EndEffect DEF OnlyOwner
    <2>5. ~Start(j) /\ ~EndStep(j)
        BY <1>4, StartEffect, EndEffect
    <2>6. CASE \E t \in Threads : HandlerStep(t)
        BY <2>1, <2>3, <2>6, HandlerStays DEF threadVars
    <2>7. ASSUME NEW r \in Requests, Enqueue(r)
          PROVE  owner[j].pc = "observe" /\ owner'[j].context = owner[j].context
        BY <1>4, <2>7, EnqueueEffect
    <2>8. CASE \E r \in Requests : PathStep(r) \/ IdStep(r)
        BY <2>1, <2>3, <2>8, PathEffect, IdEffect
    <2>9. CASE Destroy \/ \E r \in Requests : CallerStep(r)
        BY <1>4, <2>1, <2>3, <2>9, CallerEffect, DestroyEffect DEF Withdraws
    <2>10. CASE UNCHANGED vars
        BY <2>1, <2>3, <2>10 DEF vars, threadVars
    <2>11. \/ \E t \in Threads : HandlerStep(t)
           \/ \E q \in Requests : PathStep(q) \/ Enqueue(q) \/ IdStep(q) \/ CallerStep(q)
           \/ \E i \in JobIds : WorkStep(i) \/ Start(i) \/ EndStep(i)
           \/ Destroy \/ UNCHANGED vars
        BY NextCases
    <2> QED BY <2>1, <2>2, <2>3, <2>4, <2>5, <2>6, <2>7, <2>8, <2>9, <2>10, <2>11
<1> QED BY <1>3, <1>4 DEF ContextInv

-----------------------------------------------------------------------------
(* What the observers were told                                            *)

(* A thread that is about to fulfil a promise has the end of that job.     *)
LEMMA FulfilsFor ==
    ASSUME TypesInv, JobsInv, ThreadsInv, ContextInv, NEW t \in Threads, handler[t].pc = "fulfil",
           NEW r \in Requests, handler[t].context = r
    PROVE  HasJob(r) /\ t \in {Owning(submit[r].job), Submitting(r)} /\ Ending(t)
<1>1. Handling(t) /\ Calling(t) /\ Ending(t)
    BY DEF Handling, Calling, Ending, TypesInv, HandlerOK
<1>2. PICK q \in Requests : /\ HasJob(q) /\ submit[q].job = handler[t].job
                            /\ t \in {Owning(submit[q].job), Submitting(q)}
    BY <1>1, HandlesFor
<1> QED BY <1>1, <1>2, HandledCall

(* A job whose end the observers were told has ended.                      *)
LEMMA ToldEnded ==
    ASSUME TypesInv, JobsInv, ThreadsInv, PlaceInv, TakenInv, ContextInv,
           NEW r \in Requests, Told(r)
    PROVE  HasJob(r) /\ status[submit[r].job] \in Terminal
<1>1. ASSUME NEW t \in Threads, handler[t].pc = "fulfil", handler[t].context = r
      PROVE  HasJob(r) /\ status[submit[r].job] \in Terminal
    BY <1>1, FulfilsFor, EndHandled DEF Ending
<1>2. CASE promise[r] # None
    BY <1>2 DEF TakenInv, PlaceInv, PlaceOf, OneEnd, TypesInv, TypeOK
<1> QED BY <1>1, <1>2 DEF Told

(* A job that has ended stays as it is.                                    *)
LEMMA EndsStay ==
    ASSUME TypesInv, [Next]_vars, NEW j \in JobIds, status[j] \in Terminal
    PROVE  status'[j] = status[j]
<1>0. status[j] \notin {"none", "queued", "running", "withdrawn"}
    BY DEF Terminal
<1>1. CASE \E t \in Threads : HandlerStep(t)
    BY <1>1, CallEffect
<1>2. CASE \E q \in Requests : PathStep(q) \/ IdStep(q)
    BY <1>2, PathEffect, IdEffect DEF poolVars
<1>3. CASE \E q \in Requests : Enqueue(q)
    BY <1>0, <1>3, EnqueueEffect
<1>4. CASE \E i \in JobIds : WorkStep(i)
    BY <1>4, WorkEffect DEF poolVars
<1>5. CASE \E i \in JobIds : Start(i) \/ EndStep(i)
    BY <1>0, <1>5, StartEffect, EndEffect DEF Ends, OnlyJob
<1>6. CASE Destroy \/ \E q \in Requests : CallerStep(q)
    BY <1>0, <1>6, CallerEffect, DestroyEffect DEF Withdraws
<1>7. CASE UNCHANGED vars
    BY <1>7 DEF vars, poolVars
<1>8. \/ \E t \in Threads : HandlerStep(t)
      \/ \E q \in Requests : PathStep(q) \/ Enqueue(q) \/ IdStep(q) \/ CallerStep(q)
      \/ \E i \in JobIds : WorkStep(i) \/ Start(i) \/ EndStep(i)
      \/ Destroy \/ UNCHANGED vars
    BY NextCases
<1> QED BY <1>1, <1>2, <1>3, <1>4, <1>5, <1>6, <1>7, <1>8

(* Nobody is told.                                                         *)
LEMMA ObservedStays ==
    ASSUME NEW r \in Requests, observed'[r] = observed[r], Told(r)' <=> Told(r),
           HasEnd(observed[r]) <=> Told(r),
           HasEnd(observed[r]) => /\ HasJob(r)' /\ submit'[r].job = submit[r].job
                                  /\ status'[submit[r].job] = status[submit[r].job]
                                  /\ EndsOnce(observed[r], status[submit[r].job])
    PROVE  (/\ HasEnd(observed[r]) <=> Told(r)
            /\ HasEnd(observed[r]) => HasJob(r) /\ EndsOnce(observed[r], status[submit[r].job]))'
OBVIOUS

(* The observers of an end were told of none before.                       *)
LEMMA ObservedNotify ==
    ASSUME TypesInv, JobsInv, ThreadsInv, PlaceInv, TakenInv, ContextInv, ObservedInv,
           NEW t \in Threads, Notify(t)
    PROVE  ObservedInv'
<1>1. /\ Calling(t) /\ Handling(t) /\ handler[t].event \in Events
      /\ \A u \in Threads \ {t} : handler'[u] = handler[u]
      /\ UNCHANGED <<promise, submit, status>>
    BY NotifyEffect DEF Calling, Handling, threadVars, poolVars
<1>2. PICK r \in Requests : /\ HasJob(r) /\ submit[r].job = handler[t].job
                            /\ t \in {Owning(submit[r].job), Submitting(r)}
    BY <1>1, HandlesFor
<1> DEFINE e == handler[t].event
           end == status[submit[r].job]
<1>3. /\ handler[t].context = r /\ handler[t].pc = "notify"
      /\ observed'[r] = Append(observed[r], e)
      /\ \A q \in Requests \ {r} : observed'[q] = observed[q]
    BY <1>1, <1>2, HandledCall, NotifyEffect
<1>4. \A q \in Requests \ {r} : Told(q)' <=> Told(q)
    <2>1. handler'[t].pc = "fulfil" => handler'[t].context = r
        BY <1>3, NotifyEffect, NoCallOK
    <2> QED BY <1>1, <1>3, <2>1 DEF Told
<1>5. \A q \in Requests \ {r} :
        (/\ HasEnd(observed[q]) <=> Told(q)
         /\ HasEnd(observed[q]) => HasJob(q) /\ EndsOnce(observed[q], status[submit[q].job]))'
    BY <1>1, <1>3, <1>4, ObservedStays DEF ObservedInv, HasJob
<1>6. observed[r] \in Seq(Events) /\ EndsOnce(observed[r], end)
    BY NoEndOnce DEF TypesInv, TypeOK, ObservedInv
<1>7. CASE e \in Terminal
    <2>1. /\ e = end /\ promise[r] = None
          /\ \A u \in {Owning(submit[r].job), Submitting(r)} \ {t} : ~Ending(u)
        BY <1>2, <1>7, EndHandled DEF Ending
    <2>2. ~Told(r)
        <3> SUFFICES ASSUME NEW u \in Threads, handler[u].pc = "fulfil", handler[u].context = r
                     PROVE  FALSE
            BY <2>1 DEF Told
        <3>1. u # t /\ u \in {Owning(submit[r].job), Submitting(r)} /\ Ending(u)
            BY <1>3, FulfilsFor
        <3> QED BY <2>1, <3>1
    <2>3. ~HasEnd(observed[r])
        BY <2>2 DEF ObservedInv
    <2>4. HasEnd(Append(observed[r], e)) /\ EndsOnce(Append(observed[r], e), end)
        BY <1>1, <1>6, <1>7, <2>1, <2>3, EndAppended
    <2>5. Told(r)'
        BY <1>3, <1>7, NotifyEffect DEF Told
    <2> QED BY <1>1, <1>2, <1>3, <1>5, <2>4, <2>5 DEF ObservedInv, HasJob
<1>8. CASE e \notin Terminal
    <2>1. /\ HasEnd(Append(observed[r], e)) <=> HasEnd(observed[r])
          /\ EndsOnce(Append(observed[r], e), end)
        BY <1>1, <1>6, <1>8, EndAppended
    <2>2. handler'[t].pc # "fulfil"
        BY <1>8, NotifyEffect, NoCallOK
    <2>3. Told(r)' <=> Told(r)
        BY <1>1, <1>3, <2>2 DEF Told
    <2>4. HasEnd(observed[r]) <=> Told(r)
        BY DEF ObservedInv
    <2> QED BY <1>1, <1>2, <1>3, <1>5, <2>1, <2>3, <2>4 DEF ObservedInv, HasJob
<1> QED BY <1>7, <1>8

(* Every step preserves ObservedInv.                                       *)
LEMMA ObservedNext ==
    ASSUME TypesInv, JobsInv, ThreadsInv, PlaceInv, TakenInv, ContextInv, ObservedInv,
           [Next]_vars
    PROVE  ObservedInv'
<1>1. ASSUME NEW r \in Requests, HasEnd(observed[r])
      PROVE  /\ HasJob(r)' /\ submit'[r].job = submit[r].job
             /\ status'[submit[r].job] = status[submit[r].job]
             /\ EndsOnce(observed[r], status[submit[r].job])
    <2>1. /\ HasJob(r) /\ status[submit[r].job] \in Terminal
          /\ EndsOnce(observed[r], status[submit[r].job])
        BY <1>1, ToldEnded DEF ObservedInv
    <2>2. ~Enqueue(r)
        BY <2>1, EnqueueEffect DEF HasJob
    <2>3. HasJob(r)' /\ submit'[r].job = submit[r].job
        BY <2>1, <2>2, CallsStay, RegisterEffect DEF HasJob
    <2> QED BY <2>1, <2>3, JobOfCall, EndsStay
<1>2. ASSUME UNCHANGED observed, \A r \in Requests : Told(r)' <=> Told(r) PROVE ObservedInv'
    <2>1. \A r \in Requests :
            (/\ HasEnd(observed[r]) <=> Told(r)
             /\ HasEnd(observed[r]) => HasJob(r) /\ EndsOnce(observed[r], status[submit[r].job]))'
        BY <1>1, <1>2, ObservedStays DEF ObservedInv
    <2> QED BY <2>1 DEF ObservedInv
<1>3. CASE ~ \E t \in Threads : HandlerStep(t)
    <2>1. /\ UNCHANGED <<observed, promise>>
          /\ \A u \in Threads : handler'[u].pc = "fulfil" \/ handler[u].pc = "fulfil" =>
               handler'[u] = handler[u]
        BY <1>3, CallersStay DEF Calling
    <2>2. \A r \in Requests : Told(r)' <=> Told(r)
        BY <2>1 DEF Told
    <2> QED BY <1>2, <2>1, <2>2
<1>4. ASSUME NEW t \in Threads, Lookup(t) PROVE ObservedInv'
    <2>1. /\ handler[t].pc # "fulfil" /\ handler'[t].pc # "fulfil"
          /\ \A u \in Threads \ {t} : handler'[u] = handler[u]
          /\ UNCHANGED <<observed, promise>>
        BY <1>4, LookupCases, NoCallOK DEF Keeps, Finds, Lookup
    <2>2. \A r \in Requests : Told(r)' <=> Told(r)
        BY <2>1 DEF Told
    <2> QED BY <1>2, <2>1, <2>2
<1>5. ASSUME NEW t \in Threads, Fulfil(t) PROVE ObservedInv'
    <2>0. PICK c \in Requests : c = handler[t].context
        BY <1>5, FulfilEffect
    <2>1. /\ handler[t].pc = "fulfil" /\ handler'[t].pc # "fulfil"
          /\ \A u \in Threads \ {t} : handler'[u] = handler[u]
          /\ promise'[c] # None /\ \A r \in Requests \ {c} : promise'[r] = promise[r]
          /\ UNCHANGED observed
        BY <1>5, <2>0, FulfilEffect, NoCallOK, NoneApart
    <2>2. Told(c) /\ Told(c)'
        BY <2>0, <2>1 DEF Told
    <2>3. \A r \in Requests \ {c} : Told(r)' <=> Told(r)
        BY <2>0, <2>1 DEF Told
    <2> QED BY <1>2, <2>1, <2>2, <2>3
<1>6. ASSUME NEW t \in Threads, Notify(t) PROVE ObservedInv'
    BY <1>6, ObservedNotify
<1> QED BY <1>3, <1>4, <1>5, <1>6 DEF HandlerStep

-----------------------------------------------------------------------------
(* The theorems about one call at a time                                   *)

(* The initial state.                                                      *)
LEMMA RunnerInit == Init => RunnerInv
<1> SUFFICES ASSUME Init PROVE RunnerInv
    OBVIOUS
<1>1. AnyInv
    <2>1. \A r \in Requests : ~HasJob(r) /\ submit[r].job = NoJob
        BY DEF Init, HasJob
    <2>2. \A j \in JobIds : status[j] = "none" /\ j # NoJob
        BY Jobs DEF Init, Pool!Init
    <2>3. \A t \in Threads : ~Handling(t)
        BY NoCallOK DEF Init, Handling
    <2> QED BY <2>1, <2>2, <2>3, TypesInit, ThreadNames DEF AnyInv, JobsInv, ThreadsInv
<1>2. \A r \in Requests : ~HasPath(r) /\ ~HasJob(r) /\ ~Registered(r) /\ ~InSubmit(r)
                          /\ submit[r].pc = "idle"
    BY DEF Init, HasPath, HasJob, Registered, InSubmit, Returned
<1>3. OneInv /\ CatalogInv /\ KeptInv
    BY <1>2 DEF OneInv, CatalogInv, KeptInv, Init
<1>4. MapsInv
    BY <1>2 DEF MapsInv, Init
<1>5. PlaceInv /\ TakenInv
    BY <1>2 DEF PlaceInv, TakenInv, Init
<1>6. \A t \in Threads : handler[t].pc = "idle"
    BY NoCallOK DEF Init
<1>7. ContextInv
    BY <1>6 DEF ContextInv, Calling, Init
<1>8. ObservedInv
    <2>1. \A r \in Requests : ~Told(r) /\ ~HasEnd(observed[r])
        BY <1>6, NoEndOnce DEF Told, Init
    <2> QED BY <2>1 DEF ObservedInv
<1> QED BY <1>1, <1>3, <1>4, <1>5, <1>7, <1>8 DEF RunnerInv

(* Every step preserves the invariant.                                     *)
LEMMA RunnerNext ==
    ASSUME MaxSubmitters = 1, RunnerInv, [Next]_vars
    PROVE  RunnerInv'
<1>1. /\ TypesInv /\ JobsInv /\ ThreadsInv /\ OneInv /\ MapsInv /\ CatalogInv
      /\ PlaceInv /\ KeptInv /\ TakenInv /\ ContextInv /\ ObservedInv
    BY DEF RunnerInv, AnyInv
<1>2. TypesInv'
    BY <1>1, TypesNext
<1>3. AnyInv'
    BY <1>1, <1>2, JobsNext, ThreadsNext DEF AnyInv
<1>4. OneInv' /\ MapsInv' /\ CatalogInv'
    BY <1>1, OneNext, MapsNext, CatalogNext
<1>5. PlaceInv' /\ KeptInv' /\ TakenInv'
    BY <1>1, PlaceNext, KeptNext, TakenNext
<1>6. ContextInv' /\ ObservedInv'
    BY <1>1, <1>2, ContextNext, ObservedNext
<1> QED BY <1>3, <1>4, <1>5, <1>6 DEF RunnerInv

(* The invariant, from which the theorems follow.                          *)
LEMMA RunnerAlways ==
    ASSUME MaxSubmitters = 1
    PROVE  Spec => []RunnerInv
BY RunnerInit, RunnerNext, PTL DEF Spec

(* Events, progress and results go to the context of the call that         *)
(* enqueued the job, while one call of submit at a time uses the catalog.  *)
THEOREM OwnContextCorrect ==
    ASSUME MaxSubmitters = 1
    PROVE  Spec => []OwnContext
<1>1. RunnerInv => OwnContext
    BY NoneApart DEF RunnerInv, ContextInv, OwnContext, Calling
<1> QED BY <1>1, RunnerAlways, PTL

(* The catalog and the two maps agree between the critical sections, and a *)
(* path is free again when the future of its job has a result.             *)
THEOREM MapsAgreeCorrect ==
    ASSUME MaxSubmitters = 1
    PROVE  Spec => []MapsAgree
<1>1. ASSUME RunnerInv PROVE MapsAgree
    <2>1. /\ TypesInv /\ JobsInv /\ MapsInv /\ CatalogInv /\ TakenInv
        BY <1>1 DEF RunnerInv, AnyInv
    <2>2. ASSUME NEW j \in JobIds, paths_by_id[j] # None
          PROVE  contexts[paths_by_id[j]] # None /\ submit[contexts[paths_by_id[j]]].job = j
        BY <2>1, <2>2, MappedCall, NoneApart
    <2>3. ASSUME NEW p \in Paths, contexts[p] # None PROVE promise[contexts[p]] = None
        <3>1. PICK r \in Requests : r = contexts[p]
            BY <2>1, <2>3 DEF TypesInv, TypeOK
        <3>2. submit[r].path = p
            BY <2>1, <2>3, <3>1 DEF MapsInv
        <3>3. Taken(r) /\ HasJob(r) => Registered(r) /\ paths_by_id[submit[r].job] = None
            BY <2>1 DEF TakenInv
        <3>4. promise[r] # None => Taken(r) /\ HasJob(r)
            BY <2>1 DEF TakenInv, Taken
        <3> QED BY <2>1, <3>1, <3>2, <3>3, <3>4 DEF MapsInv
    <2> QED BY <2>1, <2>2, <2>3 DEF CatalogInv, MapsAgree
<1> QED BY <1>1, RunnerAlways, PTL

(* No end is left where nobody takes it again.                             *)
THEOREM NoTerminalStrandedCorrect ==
    ASSUME MaxSubmitters = 1
    PROVE  Spec => []NoTerminalStranded
<1>1. ASSUME RunnerInv PROVE NoTerminalStranded
    <2> SUFFICES ASSUME NEW r \in Requests, Registered(r),
                        NEW event \in ToSet(pending[submit[r].job])
                 PROVE  event \notin Terminal
        BY DEF NoTerminalStranded, Registered
    <2>1. ~HasEnd(pending[submit[r].job])
        BY <1>1 DEF RunnerInv, KeptInv
    <2> QED BY <2>1 DEF HasEnd, ToSet
<1> QED BY <1>1, RunnerAlways, PTL

(* A future has the result of its own job, and the observers were told of  *)
(* it, once, before.                                                       *)
THEOREM ResultIsJobsOwnCorrect ==
    ASSUME MaxSubmitters = 1
    PROVE  Spec => []ResultIsJobsOwn
<1>1. ASSUME RunnerInv PROVE ResultIsJobsOwn
    <2> SUFFICES ASSUME NEW r \in Requests, promise[r] # None
                 PROVE  /\ status[submit[r].job] = promise[r]
                        /\ \E i \in DOMAIN observed[r] :
                             {k \in DOMAIN observed[r] : observed[r][k] \in Terminal} = {i}
                        /\ promise[r] \in ToSet(observed[r])
        BY DEF ResultIsJobsOwn
    <2>1. TypesInv /\ PlaceInv /\ TakenInv /\ ObservedInv
        BY <1>1 DEF RunnerInv, AnyInv
    <2>2. HasJob(r) /\ status[submit[r].job] = promise[r]
        BY <2>1 DEF TakenInv, PlaceInv, PlaceOf, OneEnd
    <2>3. HasEnd(observed[r]) /\ EndsOnce(observed[r], promise[r])
        BY <2>1, <2>2 DEF Told, ObservedInv
    <2>4. PICK i \in DOMAIN observed[r] : observed[r][i] \in Terminal
        BY <2>3 DEF HasEnd
    <2>5. /\ observed[r][i] = promise[r]
          /\ \A k \in DOMAIN observed[r] : observed[r][k] \in Terminal => k = i
        BY <2>3, <2>4 DEF EndsOnce
    <2>6. {k \in DOMAIN observed[r] : observed[r][k] \in Terminal} = {i}
        BY <2>4, <2>5
    <2> QED BY <2>2, <2>5, <2>6 DEF ToSet
<1> QED BY <1>1, RunnerAlways, PTL

=============================================================================
