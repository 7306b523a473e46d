-------------------------- MODULE SeparationEngine --------------------------
(***************************************************************************)
(* stemsmith::separation_engine (src/src/separation_engine.cpp) as the     *)
(* workers call it, with the model_session_pool it takes its sessions from *)
(* and the model_session each call works with.                             *)
(*                                                                         *)
(* A step is a critical section of the pool's mutex or a call of what      *)
(* lives outside: loader, factory, ensure_ready, Demucs, disk.  Any of     *)
(* those may fail, and a progress callback may throw, which leaves process *)
(* the way an error does.  Whatever way it is left, the session handle's   *)
(* destructor gives the session back (Release).                            *)
(*                                                                         *)
(* Audio and results are left out; a file is what wrote it.  A call's      *)
(* stems are those of its filter, or all of its profile's.  The moves of a *)
(* handle on its way to the caller are one with its creation.              *)
(*                                                                         *)
(* A definition with no comment that stands directly before the one it     *)
(* varies is a mutant of it.                                               *)
(***************************************************************************)
EXTENDS Naturals, Sequences, FiniteSets, SequencesExt

CONSTANTS
    Workers,        \* the threads that call process
    Profiles,       \* model profiles
    Stems,          \* names of stems
    Dirs,           \* output directories that jobs name
    None,
    MaxSessions     \* bound on the sessions that are ever made

ASSUME WorkersAssumption == IsFiniteSet(Workers)
ASSUME MaxSessionsAssumption == MaxSessions \in Nat

VARIABLES
    pc,         \* program counter of process, per worker
    call,       \* its arguments: profile, directory, stems
    session,    \* the session its handle holds, 0 for none
    left,       \* the stems it has yet to write
    made,       \* the sessions made so far, each by its profile
    idle,       \* buckets_: idle sessions by profile
    loaded,     \* the sessions that have a model
    files,      \* what wrote the file of a stem in a directory
    shared      \* history: calls whose directory another call named as well

vars == <<pc, call, session, left, made, idle, loaded, files, shared>>

Outside == {"idle", "ok", "error"}
Holding == {"check", "resolve", "load", "infer", "mkdir", "write", "failing", "return"}

Sessions == DOMAIN made

Calls == [profile : Profiles, dir : Dirs, stems : SUBSET Stems \ {{}}]

(* The values of the variables; a handle holds a session from acquire on.  *)
TypeOK ==
    /\ pc \in [Workers -> Outside \union Holding \union {"audio", "acquire", "construct"}]
    /\ call \in [Workers -> Calls \union {None}]
    /\ session \in [Workers -> Sessions \union {0}]
    /\ \A w \in Workers : session[w] # 0 <=> pc[w] \in Holding
    /\ left \in [Workers -> SUBSET Stems]
    /\ made \in Seq(Profiles)
    /\ idle \in [Profiles -> Seq(Sessions)]
    /\ \A p \in Profiles : Len(idle[p]) <= Len(made)
    /\ loaded \in SUBSET Sessions
    /\ files \in [Dirs -> [Stems -> {"absent", "broken", "earlier"} \union Workers]]
    /\ shared \in SUBSET Workers

Init ==
    /\ pc = [w \in Workers |-> "idle"]
    /\ call = [w \in Workers |-> None]
    /\ session = [w \in Workers |-> 0]
    /\ left = [w \in Workers |-> {}]
    /\ made = <<>>
    /\ idle = [p \in Profiles |-> <<>>]
    /\ loaded = {}
    /\ files = [d \in Dirs |-> [s \in Stems |-> "absent"]]
    /\ shared = {}

Go(w, to) == pc' = [pc EXCEPT ![w] = to]

(* process is left; nobody looks at the arguments of a call that failed.   *)
Leave(w, result) ==
    /\ Go(w, result)
    /\ call' = IF result = "error" THEN [call EXCEPT ![w] = None] ELSE call

pool == <<made, idle>>
output == <<files, shared>>

-----------------------------------------------------------------------------
(* process, up to the session                                              *)

(* Calls other than w's that are in process, or whose result is in use.    *)
Others(w, c) == {u \in Workers \ {w} : pc[u] \notin {"idle", "error"} /\ call[u].dir = c.dir}

(* A worker calls process for its next job, whose arguments come from the  *)
(* catalog; what its last job wrote stays where it is.                     *)
Process(w) ==
    /\ pc[w] \in Outside
    /\ \E c \in Calls :
        /\ call' = [call EXCEPT ![w] = c]
        /\ shared' = (shared \ {w}) \union Others(w, c)
                        \union {u \in {w} : \E o \in Others(w, c) : pc[o] # "ok"}
        /\ files' = [d \in Dirs |-> [s \in Stems |->
                        IF files[d][s] = w THEN "earlier" ELSE files[d][s]]]
    /\ Go(w, "audio")
    /\ UNCHANGED <<session, left, pool, loaded>>

LoadAudio(w) ==
    /\ pc[w] = "audio"
    /\ \/ Go(w, "acquire") /\ UNCHANGED call
       \/ Leave(w, "error")
    /\ UNCHANGED <<session, left, pool, loaded, output>>

HasIdle_OffByOne(p) == Len(idle[p]) > 1
HasIdle(p) == idle[p] # <<>>

AfterTake_Kept(p) == idle[p]
AfterTake(p) == Front(idle[p])

(* model_session_pool::acquire, the critical section.                      *)
Acquire(w) ==
    LET p == call[w].profile IN
    /\ pc[w] = "acquire"
    /\ IF HasIdle(p)
       THEN /\ session' = [session EXCEPT ![w] = Last(idle[p])]
            /\ idle' = [idle EXCEPT ![p] = AfterTake(p)]
            /\ Go(w, "check")
       ELSE /\ Go(w, "construct")
            /\ UNCHANGED <<session, idle>>
    /\ UNCHANGED <<call, left, made, loaded, output>>

(* The factory, which is called with no lock held.                         *)
Construct(w) ==
    /\ pc[w] = "construct"
    /\ \/ /\ Len(made) < MaxSessions
          /\ made' = Append(made, call[w].profile)
          /\ session' = [session EXCEPT ![w] = Len(made')]
          /\ Go(w, "check")
          /\ UNCHANGED call
       \/ /\ Leave(w, "error")
          /\ UNCHANGED <<made, session>>
    /\ UNCHANGED <<left, idle, loaded, output>>

-----------------------------------------------------------------------------
(* model_session::separate                                                 *)

(* A step that only decides how the call goes on.                          *)
Decide(w, from, to) ==
    /\ pc[w] = from
    /\ \E t \in {to, "failing"} : Go(w, t)
    /\ UNCHANGED <<call, session, left, pool, loaded, output>>

(* The format of the audio and the names of the stems, then whether the    *)
(* session has its model.                                                  *)
CheckInput(w) == Decide(w, "check", IF session[w] \in loaded THEN "infer" ELSE "resolve")

(* model_cache::ensure_ready.                                              *)
ResolveWeights(w) == Decide(w, "resolve", "load")

(* The loader; somebody may have purged the file it was given.             *)
LoadModel(w) ==
    /\ pc[w] = "load"
    /\ \/ loaded' = loaded \union {session[w]} /\ Go(w, "infer")
       \/ Go(w, "failing") /\ UNCHANGED loaded
    /\ UNCHANGED <<call, session, left, pool, output>>

(* Inference with its progress callbacks, and the checks of its result.    *)
Infer(w) == Decide(w, "infer", "mkdir")

-----------------------------------------------------------------------------
(* process, from the session's result on                                   *)

CreateDirectories(w) ==
    /\ pc[w] = "mkdir"
    /\ \/ Go(w, "write") /\ left' = [left EXCEPT ![w] = call[w].stems]
       \/ Go(w, "failing") /\ UNCHANGED left
    /\ UNCHANGED <<call, session, pool, loaded, output>>

AfterFailedWrite_Continue == "write"
AfterFailedWrite == "failing"

(* One turn of the loop over the stems; a write that fails may leave a     *)
(* part of the file.                                                       *)
WriteStem(w) ==
    LET d == call[w].dir IN
    /\ pc[w] = "write"
    /\ \E s \in left[w] :
        /\ left' = [left EXCEPT ![w] = @ \ {s}]
        /\ \/ /\ files' = [files EXCEPT ![d][s] = w]
              /\ UNCHANGED pc
           \/ /\ files' \in {files, [files EXCEPT ![d][s] = "broken"]}
              /\ Go(w, AfterFailedWrite)
    /\ UNCHANGED <<call, session, pool, loaded, shared>>

EndOfLoop(w) ==
    /\ pc[w] = "write" /\ left[w] = {}
    /\ Go(w, "return")
    /\ UNCHANGED <<call, session, left, pool, loaded, output>>

GivesBack_OnSuccess(w) == pc[w] = "return"
GivesBack(w) == TRUE

BucketOf(w) == call[w].profile

(* ~session_handle and recycle, as process is left.                        *)
Release(w) ==
    /\ pc[w] \in {"failing", "return"}
    /\ idle' = IF GivesBack(w)
               THEN [idle EXCEPT ![BucketOf(w)] = Append(@, session[w])]
               ELSE idle
    /\ session' = [session EXCEPT ![w] = 0]
    /\ left' = [left EXCEPT ![w] = {}]
    /\ Leave(w, IF pc[w] = "return" THEN "ok" ELSE "error")
    /\ UNCHANGED <<made, loaded, output>>

-----------------------------------------------------------------------------

WorkerStep(w) ==
    \/ Process(w)
    \/ LoadAudio(w)
    \/ Acquire(w)
    \/ Construct(w)
    \/ CheckInput(w)
    \/ ResolveWeights(w)
    \/ LoadModel(w)
    \/ Infer(w)
    \/ CreateDirectories(w)
    \/ WriteStem(w)
    \/ EndOfLoop(w)
    \/ Release(w)

Next == \E w \in Workers : WorkerStep(w)

Spec == Init /\ [][Next]_vars

-----------------------------------------------------------------------------
(* Properties                                                              *)

Places(s) ==
    {<<"held", w, 0>> : w \in {v \in Workers : session[v] = s}}
        \union {<<"idle", q[1], q[2]>> :
                    q \in {r \in Profiles \X (1..Len(made)) :
                             r[2] \in DOMAIN idle[r[1]] /\ idle[r[1]][r[2]] = s}}

(* No session is lost, used by two calls or given to a job of another      *)
(* profile: each one ever made is with one call, of its own profile, or in *)
(* one bucket, once, whatever way the calls before have ended.             *)
SessionsAccounted ==
    \A s \in Sessions :
        /\ Cardinality(Places(s)) = 1
        /\ \A w \in Workers : session[w] = s => call[w].profile = made[s]

(* A profile never has more sessions, each a model in memory, than there   *)
(* are workers, although acquire looks for an idle one and makes a new one *)
(* in two steps.                                                           *)
SessionsBounded ==
    \A p \in Profiles : Cardinality({s \in Sessions : made[s] = p}) <= Cardinality(Workers)

(* When process returns a directory, every stem that was asked for is in   *)
(* it and is this call's own, unless another call has named that directory *)
(* in the meantime: no failed write passes for a success, and nothing is   *)
(* left over from an earlier job.                                          *)
OutputWritten ==
    \A w \in Workers :
        pc[w] = "ok" /\ w \notin shared
            => \A s \in call[w].stems : files[call[w].dir][s] = w

=============================================================================
