----------------------- MODULE SeparationEngineProofs -----------------------
(* Proofs about SeparationEngine for any finite set of workers and any     *)
(* profiles, stems, directories and bound on the sessions.                 *)
EXTENDS SeparationEngine, FiniteSetTheorems, SequenceTheorems, TLAPS

-----------------------------------------------------------------------------
(* The inductive invariant                                                 *)

PcValues == Outside \union Holding \union {"audio", "acquire", "construct"}

(* A call whose arguments are still looked at.                             *)
Active(w) == pc[w] \notin {"idle", "error"}

FileStates == {"absent", "broken", "earlier"} \union Workers

Types ==
    /\ pc \in [Workers -> PcValues]
    /\ call \in [Workers -> Calls \union {None}]
    /\ \A w \in Workers : Active(w) => call[w] \in Calls
    /\ session \in [Workers -> Nat]
    /\ left \in [Workers -> SUBSET Stems]
    /\ made \in Seq(Profiles)
    /\ idle \in [Profiles -> Seq(Nat)]
    /\ files \in [Dirs -> [Stems -> FileStates]]
    /\ shared \in SUBSET Workers

IsIdle(p, s) == \E i \in DOMAIN idle[p] : idle[p][i] = s

(* A session that a call holds is of the call's profile, and no other      *)
(* call's.                                                                 *)
HeldInv ==
    /\ \A w \in Workers : session[w] # 0 <=> pc[w] \in Holding
    /\ \A w \in Workers : session[w] # 0 =>
         session[w] \in 1 .. Len(made) /\ made[session[w]] = call[w].profile
    /\ \A v, w \in Workers : session[v] = session[w] /\ session[w] # 0 => v = w
    /\ loaded \subseteq 1 .. Len(made)

(* A session in a bucket is of the bucket's profile, is there once and is  *)
(* held by nobody.                                                         *)
IdleInv ==
    \A p \in Profiles :
        /\ \A i \in DOMAIN idle[p] :
             /\ idle[p][i] \in 1 .. Len(made) /\ made[idle[p][i]] = p
             /\ \A w \in Workers : session[w] # idle[p][i]
        /\ \A i, k \in DOMAIN idle[p] : idle[p][i] = idle[p][k] => i = k

(* No session is lost.                                                     *)
KeptInv ==
    \A s \in 1 .. Len(made) :
        (\E w \in Workers : session[w] = s) \/ IsIdle(made[s], s)

SessionsOf(p) == {s \in 1 .. Len(made) : made[s] = p}

Making(p) == {w \in Workers : pc[w] = "construct" /\ call[w].profile = p}

(* Who is about to make a session found none idle, so that every session   *)
(* of the profile was held by somebody else.                               *)
BoundInv ==
    \A p \in Profiles :
        Cardinality(SessionsOf(p)) + Cardinality(Making(p)) <= Cardinality(Workers)

PoolInv == HeldInv /\ IdleInv /\ KeptInv /\ BoundInv

(* Of two calls that name one directory, the one that may be written over  *)
(* is in shared.                                                           *)
SharedInv ==
    \A v, w \in Workers :
        v # w /\ pc[w] \notin Outside /\ Active(v) /\ call[v].dir = call[w].dir => v \in shared

(* What a call that shares its directory with no other has written is      *)
(* there.                                                                  *)
WrittenInv ==
    /\ \A w \in Workers : pc[w] \in {"write", "return", "ok"} /\ w \notin shared =>
         \A s \in call[w].stems \ left[w] : files[call[w].dir][s] = w
    /\ \A w \in Workers : pc[w] \in {"return", "ok"} => left[w] = {}

EngineInv == Types /\ PoolInv /\ SharedInv /\ WrittenInv

-----------------------------------------------------------------------------
(* Types                                                                   *)

(* What acquire takes from a bucket, and what it leaves there.             *)
LEMMA FrontLast ==
    ASSUME NEW S, NEW s \in Seq(S), s # <<>>
    PROVE  /\ Len(s) \in Nat \ {0} /\ Last(s) = s[Len(s)] /\ Last(s) \in S
           /\ Front(s) \in Seq(S)
           /\ DOMAIN s = 1 .. Len(s) /\ DOMAIN Front(s) = 1 .. Len(s) - 1
           /\ \A i \in 1 .. Len(s) - 1 : Front(s)[i] = s[i]
<1>1. Len(s) \in Nat \ {0}
    BY EmptySeq
<1>2. Last(s) = s[Len(s)] /\ s[Len(s)] \in S
    BY <1>1 DEF Last
<1> DEFINE n == Len(s) - 1
<1>3. n \in Nat /\ \A i \in 1 .. n : s[i] \in S
    BY <1>1
<1> HIDE DEF n
<1>4. /\ SubSeq(s, 1, n) \in Seq(S)
      /\ Len(SubSeq(s, 1, n)) = n
      /\ \A i \in 1 .. n : SubSeq(s, 1, n)[i] = s[i]
    BY <1>3, SubSeqProperties
<1>5. DOMAIN s = 1 .. Len(s) /\ DOMAIN SubSeq(s, 1, n) = 1 .. n
    BY <1>4, LenProperties
<1> QED BY <1>1, <1>2, <1>4, <1>5 DEF Front, n

(* A file that is written, and the others.                                 *)
LEMMA WriteFile ==
    ASSUME NEW S, NEW f \in [Dirs -> [Stems -> S]], NEW d \in Dirs, NEW s \in Stems, NEW by \in S
    PROVE  /\ [f EXCEPT ![d][s] = by] \in [Dirs -> [Stems -> S]]
           /\ [f EXCEPT ![d][s] = by][d][s] = by
           /\ \A e \in Dirs, u \in Stems :
                e # d \/ u # s => [f EXCEPT ![d][s] = by][e][u] = f[e][u]
OBVIOUS

(* What a worker's move does.                                              *)
LEMMA Moves ==
    ASSUME Types, NEW w \in Workers, NEW to \in PcValues, Go(w, to)
    PROVE  /\ pc' \in [Workers -> PcValues] /\ pc'[w] = to
           /\ \A v \in Workers \ {w} : pc'[v] = pc[v]
BY DEF Types, Go

(* What leaving process does, whatever way it is left.                     *)
LEMMA Leaves ==
    ASSUME Types, NEW w \in Workers, NEW result \in {"ok", "error"}, Active(w), Leave(w, result)
    PROVE  /\ pc' \in [Workers -> PcValues] /\ pc'[w] = result
           /\ call' \in [Workers -> Calls \union {None}]
           /\ result = "ok" => call'[w] = call[w]
           /\ \A v \in Workers \ {w} : pc'[v] = pc[v] /\ call'[v] = call[v]
           /\ \A v \in Workers : Active(v)' => call'[v] \in Calls
<1>1. result \in PcValues
    BY DEF PcValues, Outside
<1>2. /\ pc' \in [Workers -> PcValues] /\ pc'[w] = result
      /\ \A v \in Workers \ {w} : pc'[v] = pc[v]
    BY <1>1, Moves DEF Leave
<1>3. /\ call' \in [Workers -> Calls \union {None}]
      /\ result = "ok" => call'[w] = call[w]
      /\ \A v \in Workers \ {w} : call'[v] = call[v]
    BY DEF Leave, Types
<1> QED BY <1>2, <1>3 DEF Types, Active

(* The arguments of a call that is under way.                              *)
LEMMA CallFields ==
    ASSUME Types, NEW w \in Workers, Active(w)
    PROVE  /\ call[w].profile \in Profiles /\ call[w].dir \in Dirs
           /\ call[w].stems \in SUBSET Stems
BY DEF Types, Calls

(* The types are kept by every step.                                       *)
LEMMA TypesNext ==
    ASSUME EngineInv, NEW w \in Workers, WorkerStep(w)
    PROVE  Types'
<1> USE DEF EngineInv
<1> DEFINE p == call[w].profile
<1>1. CASE Process(w)
    BY <1>1 DEF Types, Active, FileStates, PcValues, Outside, Process, Others, Go,
                pool
<1>2. CASE LoadAudio(w)
    BY <1>2 DEF Types, Active, PcValues, Outside, LoadAudio, Leave, Go, pool, output
<1>3. CASE Acquire(w)
    <2>1. Active(w) /\ p \in Profiles
        BY <1>3, CallFields DEF Acquire, Active
    <2>2. idle[p] \in Seq(Nat)
        BY <2>1 DEF Types
    <2>3. CASE idle[p] = <<>>
        BY <1>3, <2>3 DEF Types, Active, PcValues, Acquire, HasIdle, Go, output
    <2>4. CASE idle[p] # <<>>
        <3>1. Last(idle[p]) \in Nat /\ Front(idle[p]) \in Seq(Nat)
            BY <2>2, <2>4, FrontLast
        <3> QED BY <1>3, <2>1, <2>4, <3>1
                DEF Types, Active, PcValues, Holding, Acquire, HasIdle, AfterTake, Go, output
    <2> QED BY <2>3, <2>4
<1>4. CASE Construct(w)
    <2>1. Active(w) /\ p \in Profiles
        BY <1>4, CallFields DEF Construct, Active
    <2>2. CASE Leave(w, "error") /\ UNCHANGED <<made, session>>
        BY <1>4, <2>1, <2>2, Leaves DEF Types, Construct, output
    <2>3. CASE made' = Append(made, p) /\ session' = [session EXCEPT ![w] = Len(made')]
               /\ Go(w, "check") /\ UNCHANGED call
        <3>1. made' \in Seq(Profiles) /\ Len(made') \in Nat
            BY <2>1, <2>3, AppendProperties DEF Types
        <3>2. pc' \in [Workers -> PcValues] /\ \A v \in Workers : Active(v)' => Active(v)
            BY <2>1, <2>3, Moves DEF PcValues, Holding, Active
        <3> QED BY <1>4, <2>3, <3>1, <3>2 DEF Types, Construct, output
    <2> QED BY <1>4, <2>2, <2>3 DEF Construct
<1>5. CASE CheckInput(w) \/ ResolveWeights(w) \/ Infer(w)
    BY <1>5 DEF Types, Active, PcValues, Holding, CheckInput, ResolveWeights, Infer, Decide, Go,
                pool, output
<1>6. CASE LoadModel(w)
    BY <1>6 DEF Types, Active, PcValues, Holding, LoadModel, Go, pool, output
<1>7. CASE CreateDirectories(w)
    BY <1>7 DEF Types, Active, PcValues, Holding, Calls, CreateDirectories, Go, pool, output
<1>8. CASE WriteStem(w)
    <2>1. Active(w) /\ call[w].dir \in Dirs
        BY <1>8, CallFields DEF WriteStem, Active
    <2>2. PICK s \in left[w] :
            /\ left' = [left EXCEPT ![w] = @ \ {s}]
            /\ \/ UNCHANGED pc
               \/ Go(w, "failing")
            /\ files' \in {files, [files EXCEPT ![call[w].dir][s] = w],
                           [files EXCEPT ![call[w].dir][s] = "broken"]}
        BY <1>8 DEF WriteStem, AfterFailedWrite
    <2>3. s \in Stems /\ left' \in [Workers -> SUBSET Stems]
        BY <2>2 DEF Types
    <2>4. files' \in [Dirs -> [Stems -> FileStates]]
        <3>1. ASSUME NEW by \in {"broken"} \union Workers
              PROVE  [files EXCEPT ![call[w].dir][s] = by] \in [Dirs -> [Stems -> FileStates]]
            <4>1. by \in FileStates
                BY DEF FileStates
            <4> QED BY <2>1, <2>3, <4>1, WriteFile DEF Types
        <3>2. CASE files' = [files EXCEPT ![call[w].dir][s] = w]
            BY <3>1, <3>2
        <3>3. CASE files' = [files EXCEPT ![call[w].dir][s] = "broken"]
            BY <3>1, <3>3
        <3> QED BY <2>2, <3>2, <3>3 DEF Types
    <2>5. pc' \in [Workers -> PcValues] /\ \A v \in Workers : Active(v)' => Active(v)
        BY <1>8, <2>2 DEF Types, Active, PcValues, Holding, WriteStem, Go
    <2> QED BY <1>8, <2>3, <2>4, <2>5 DEF Types, WriteStem, pool
<1>9. CASE EndOfLoop(w)
    BY <1>9 DEF Types, Active, PcValues, Holding, EndOfLoop, Go, pool, output
<1>10. CASE Release(w)
    <2>1. Active(w) /\ p \in Profiles
        BY <1>10, CallFields DEF Release, Active
    <2>2. idle[p] \in Seq(Nat) /\ session[w] \in Nat
        BY <2>1 DEF Types
    <2>3. Append(idle[p], session[w]) \in Seq(Nat)
        BY <2>2, AppendProperties
    <2>4. /\ idle' = [idle EXCEPT ![p] = Append(idle[p], session[w])]
          /\ UNCHANGED <<made, loaded, files, shared>>
        BY <1>10 DEF Release, GivesBack, BucketOf, output
    <2>5. idle' \in [Profiles -> Seq(Nat)]
        BY <2>3, <2>4 DEF Types
    <2>6. PICK result \in {"ok", "error"} : Leave(w, result)
        BY <1>10 DEF Release
    <2>7. session' \in [Workers -> Nat] /\ left' \in [Workers -> SUBSET Stems]
        BY <1>10 DEF Release, Types
    <2> QED BY <2>1, <2>4, <2>5, <2>6, <2>7, Leaves DEF Types
<1> QED BY <1>1, <1>2, <1>3, <1>4, <1>5, <1>6, <1>7, <1>8, <1>9, <1>10 DEF WorkerStep

-----------------------------------------------------------------------------
(* The output                                                              *)

(* Which calls may be written over changes when a call begins.             *)
LEMMA SharedNext ==
    ASSUME EngineInv, NEW w \in Workers, WorkerStep(w)
    PROVE  SharedInv'
<1> USE DEF EngineInv, SharedInv, Types, Active, Outside
<1>1. CASE Process(w)
    BY <1>1 DEF Process, Others, Go
<1>2. CASE ~Process(w)
    <2>1. /\ pc[w] \notin Outside
          /\ \A v \in Workers \ {w} : pc'[v] = pc[v] /\ call'[v] = call[v]
          /\ pc'[w] = "error" \/ call'[w] = call[w]
          /\ UNCHANGED shared
        <3>1. CASE LoadAudio(w) \/ Construct(w) \/ Release(w)
            BY <3>1 DEF LoadAudio, Construct, Release, Leave, Go, output
        <3>2. CASE Acquire(w) \/ CheckInput(w) \/ ResolveWeights(w) \/ LoadModel(w) \/ Infer(w)
            BY <3>2 DEF Acquire, CheckInput, ResolveWeights, LoadModel, Infer, Decide, Go, output
        <3>3. CASE CreateDirectories(w) \/ WriteStem(w) \/ EndOfLoop(w)
            BY <3>3 DEF CreateDirectories, WriteStem, EndOfLoop, Go, output
        <3> QED BY <1>2, <3>1, <3>2, <3>3 DEF WorkerStep
    <2> QED BY <2>1
<1> QED BY <1>1, <1>2

(* A step after which w is not writing, or is about to begin, and which    *)
(* leaves the files alone.                                                 *)
LEMMA NotWrittenStep ==
    ASSUME EngineInv, NEW w \in Workers, UNCHANGED <<files, shared>>,
           pc'[w] \notin {"return", "ok"}, pc'[w] = "write" => left'[w] = call'[w].stems,
           \A v \in Workers \ {w} : pc'[v] = pc[v] /\ call'[v] = call[v] /\ left'[v] = left[v]
    PROVE  WrittenInv'
BY DEF EngineInv, WrittenInv

(* What a call has written stays until the next call that names its        *)
(* directory.                                                              *)
LEMMA WrittenNext ==
    ASSUME EngineInv, NEW w \in Workers, WorkerStep(w)
    PROVE  WrittenInv'
<1> USE DEF EngineInv
<1>1. CASE Process(w)
    <2>1. pc'[w] = "audio"
        BY <1>1 DEF Process, Go, Types
    <2>2. ASSUME NEW v \in Workers \ {w}, pc[v] \in {"write", "return", "ok"}, v \notin shared'
          PROVE  \A s \in call[v].stems \ left[v] : files'[call[v].dir][s] = v
        <3>1. v \notin shared
            BY <1>1, <2>2 DEF Process, Others, Outside
        <3>2. \A s \in call[v].stems \ left[v] : files[call[v].dir][s] = v
            BY <2>2, <3>1 DEF WrittenInv
        <3>3. call[v].dir \in Dirs /\ call[v].stems \in SUBSET Stems
            BY <2>2, CallFields DEF Active
        <3> QED BY <1>1, <3>2, <3>3 DEF Process
    <2>3. \A v \in Workers \ {w} : pc'[v] = pc[v] /\ call'[v] = call[v] /\ left'[v] = left[v]
        BY <1>1 DEF Process, Go, Types
    <2> QED BY <2>1, <2>2, <2>3 DEF WrittenInv
<1>2. CASE LoadAudio(w) \/ Construct(w)
    <2>1. /\ UNCHANGED <<files, shared, left>> /\ pc'[w] \in {"error", "acquire", "check"}
          /\ \A v \in Workers \ {w} : pc'[v] = pc[v] /\ call'[v] = call[v]
        BY <1>2 DEF LoadAudio, Construct, Leave, Go, output, Types
    <2> QED BY <2>1, NotWrittenStep
<1>3. CASE Acquire(w) \/ CheckInput(w) \/ ResolveWeights(w) \/ LoadModel(w) \/ Infer(w)
    <2>1. /\ UNCHANGED <<files, shared, left, call>>
          /\ pc'[w] \in {"check", "construct", "infer", "resolve", "load", "mkdir", "failing"}
          /\ \A v \in Workers \ {w} : pc'[v] = pc[v]
        BY <1>3 DEF Acquire, CheckInput, ResolveWeights, LoadModel, Infer, Decide, Go, output,
           Types
    <2> QED BY <2>1, NotWrittenStep
<1>4. CASE CreateDirectories(w)
    <2>1. /\ UNCHANGED <<files, shared, call>>
          /\ pc'[w] \in {"write", "failing"} /\ (pc'[w] = "write" => left'[w] = call[w].stems)
          /\ \A v \in Workers \ {w} : pc'[v] = pc[v] /\ left'[v] = left[v]
        BY <1>4 DEF CreateDirectories, Go, output, Types
    <2> QED BY <2>1, NotWrittenStep
<1>5. CASE WriteStem(w)
    <2> DEFINE d == call[w].dir
    <2>0. pc[w] = "write" /\ Active(w) /\ d \in Dirs
        BY <1>5, CallFields DEF WriteStem, Active
    <2>1. PICK s \in left[w] :
            /\ left' = [left EXCEPT ![w] = left[w] \ {s}]
            /\ \/ files' = [files EXCEPT ![d][s] = w] /\ UNCHANGED pc
               \/ /\ files' \in {files, [files EXCEPT ![d][s] = "broken"]}
                  /\ Go(w, "failing")
        BY <1>5 DEF WriteStem, AfterFailedWrite
    <2>2. UNCHANGED <<call, shared>> /\ s \in Stems
        BY <1>5, <2>1 DEF WriteStem, Types
    <2>3. /\ \A v \in Workers \ {w} : pc'[v] = pc[v] /\ left'[v] = left[v]
          /\ left'[w] = left[w] \ {s} /\ pc'[w] \in {"write", "failing"}
        BY <2>0, <2>1 DEF Types, Go
    <2>4. \A e \in Dirs, u \in Stems : e # d \/ u # s => files'[e][u] = files[e][u]
        <3>1. ASSUME NEW by \in {"broken"} \union Workers,
                     NEW e \in Dirs, NEW u \in Stems, e # d \/ u # s
              PROVE  [files EXCEPT ![d][s] = by][e][u] = files[e][u]
            <4>1. by \in FileStates
                BY DEF FileStates
            <4> QED BY <2>0, <2>2, <3>1, <4>1, WriteFile DEF Types
        <3>2. CASE files' = [files EXCEPT ![d][s] = w]
            BY <3>1, <3>2
        <3>3. CASE files' = [files EXCEPT ![d][s] = "broken"]
            BY <3>1, <3>3
        <3> QED BY <2>1, <3>2, <3>3
    <2>5. pc'[w] = "write" => files'[d][s] = w
        BY <2>0, <2>1, <2>2 DEF Types, Go
    <2>6. ASSUME NEW v \in Workers \ {w}, pc[v] \in {"write", "return", "ok"}, v \notin shared
          PROVE  \A u \in call[v].stems \ left[v] : files'[call[v].dir][u] = v
        <3>1. call[v].dir # d
            BY <2>0, <2>6 DEF SharedInv, Outside, Active
        <3>2. call[v].dir \in Dirs /\ call[v].stems \in SUBSET Stems
            BY <2>6, CallFields DEF Active
        <3> QED BY <2>4, <2>6, <3>1, <3>2 DEF WrittenInv
    <2>7. ASSUME pc'[w] = "write", w \notin shared, NEW u \in call[w].stems \ left'[w]
          PROVE  files'[d][u] = w
        <3>1. CASE u = s
            BY <2>5, <2>7, <3>1
        <3>2. CASE u # s
            BY <2>0, <2>3, <2>4, <2>7, <3>2, CallFields DEF WrittenInv
        <3> QED BY <3>1, <3>2
    <2> QED BY <2>2, <2>3, <2>6, <2>7 DEF WrittenInv
<1>6. CASE EndOfLoop(w)
    BY <1>6 DEF EndOfLoop, Go, output, Types, WrittenInv
<1>7. CASE Release(w)
    <2>1. Active(w)
        BY <1>7 DEF Release, Active
    <2>2. CASE pc[w] = "failing"
        <3>1. Leave(w, "error")
            BY <1>7, <2>2 DEF Release
        <3>2. /\ UNCHANGED <<files, shared>>
              /\ \A v \in Workers \ {w} : left'[v] = left[v]
            BY <1>7 DEF Release, Types, output
        <3> QED BY <2>1, <3>1, <3>2, Leaves, NotWrittenStep
    <2>3. CASE pc[w] = "return"
        <3>1. Leave(w, "ok") /\ UNCHANGED <<files, shared>>
            BY <1>7, <2>3 DEF Release, output
        <3>2. left[w] = {} /\ UNCHANGED left
            BY <1>7, <2>3 DEF Release, WrittenInv, Types
        <3>3. /\ pc'[w] = "ok" /\ call'[w] = call[w]
              /\ \A v \in Workers \ {w} : pc'[v] = pc[v] /\ call'[v] = call[v]
            BY <2>1, <3>1, Leaves
        <3> QED BY <2>3, <3>1, <3>2, <3>3 DEF WrittenInv
    <2> QED BY <1>7, <2>2, <2>3 DEF Release
<1> QED BY <1>1, <1>2, <1>3, <1>4, <1>5, <1>6, <1>7 DEF WorkerStep

-----------------------------------------------------------------------------
(* The pool of sessions                                                    *)

(* The sets whose sizes BoundInv is about are finite.                      *)
LEMMA FiniteParts ==
    ASSUME NEW n \in Nat, NEW S \in SUBSET (1 .. n), NEW M \in SUBSET Workers
    PROVE  /\ IsFiniteSet(S) /\ Cardinality(S) \in Nat
           /\ IsFiniteSet(M) /\ Cardinality(M) \in Nat
           /\ Cardinality(Workers) \in Nat
           /\ Cardinality(Workers \ M) = Cardinality(Workers) - Cardinality(M)
<1>1. IsFiniteSet(1 .. n)
    BY FS_Interval
<1>2. IsFiniteSet(S) /\ IsFiniteSet(M)
    BY <1>1, FS_Subset, WorkersAssumption
<1>3. Cardinality(S) \in Nat /\ Cardinality(M) \in Nat /\ Cardinality(Workers) \in Nat
    BY <1>2, FS_CardinalityType, WorkersAssumption
<1>4. Cardinality(Workers \ M) = Cardinality(Workers) - Cardinality(Workers \cap M)
    BY FS_Difference, WorkersAssumption
<1>5. Workers \cap M = M
    OBVIOUS
<1> QED BY <1>2, <1>3, <1>4, <1>5

(* Steps that neither take nor give nor make a session.                    *)
LEMMA PoolQuietStep ==
    ASSUME EngineInv, NEW w \in Workers, UNCHANGED <<session, made, idle>>,
           \A v \in Workers \ {w} : pc'[v] = pc[v] /\ call'[v] = call[v],
           pc'[w] \in Holding <=> pc[w] \in Holding,
           pc[w] \in Holding => call'[w] = call[w],
           pc'[w] # "construct", loaded' \subseteq 1 .. Len(made)
    PROVE  PoolInv'
<1> USE DEF EngineInv, PoolInv
<1>1. HeldInv'
    BY DEF HeldInv
<1>2. IdleInv' /\ KeptInv'
    BY DEF IdleInv, KeptInv, IsIdle
<1>3. BoundInv'
    <2> SUFFICES ASSUME NEW p \in Profiles
                 PROVE  Cardinality(SessionsOf(p))' + Cardinality(Making(p))' <= Cardinality(Workers)
        BY DEF BoundInv
    <2>1. SessionsOf(p)' = SessionsOf(p)
        BY DEF SessionsOf
    <2>2. Making(p)' \subseteq Making(p) /\ Making(p) \in SUBSET Workers
        BY DEF Making
    <2>3. SessionsOf(p) \in SUBSET (1 .. Len(made)) /\ Len(made) \in Nat
        BY DEF SessionsOf, Types
    <2>4. IsFiniteSet(Making(p)) /\ Cardinality(Making(p)) \in Nat
        BY <2>2, <2>3, FiniteParts
    <2>5. Cardinality(Making(p)') <= Cardinality(Making(p)) /\ Cardinality(Making(p)') \in Nat
        BY <2>2, <2>3, <2>4, FS_Subset, FiniteParts
    <2>6. Cardinality(SessionsOf(p)) + Cardinality(Making(p)) <= Cardinality(Workers)
        BY DEF BoundInv
    <2>7. Cardinality(SessionsOf(p)) \in Nat /\ Cardinality(Workers) \in Nat
        BY <2>2, <2>3, FiniteParts
    <2> QED BY <2>1, <2>4, <2>5, <2>6, <2>7
<1> QED BY <1>1, <1>2, <1>3

(* A call that finds no session idle is one of those that hold none, and   *)
(* every session of its profile is with one of the others.                 *)
LEMMA NoneIdle ==
    ASSUME EngineInv, NEW w \in Workers, pc[w] = "acquire", NEW p \in Profiles,
           p = call[w].profile, idle[p] = <<>>,
           NEW M \in SUBSET Workers, \A v \in M : v = w \/ v \in Making(p)
    PROVE  Cardinality(SessionsOf(p)) + Cardinality(M) <= Cardinality(Workers)
<1> USE DEF EngineInv, PoolInv
<1> DEFINE S == SessionsOf(p)
           Holder(s) == CHOOSE v \in Workers : session[v] = s
           f == [s \in S |-> Holder(s)]
<1>1. ASSUME NEW s \in S PROVE Holder(s) \in Workers \ M /\ session[Holder(s)] = s
    <2>1. s \in 1 .. Len(made) /\ made[s] = p
        BY DEF SessionsOf
    <2>2. ~IsIdle(p, s)
        BY DEF IsIdle
    <2>3. \E v \in Workers : session[v] = s
        BY <2>1, <2>2 DEF KeptInv
    <2>4. Holder(s) \in Workers /\ session[Holder(s)] = s
        BY <2>3
    <2> HIDE DEF Holder
    <2>5. session[Holder(s)] # 0
        BY <2>1, <2>4 DEF Types
    <2>6. pc[Holder(s)] \in Holding
        BY <2>4, <2>5 DEF HeldInv
    <2> QED BY <2>4, <2>6 DEF Making, Holding
<1> HIDE DEF Holder
<1>2. f \in Injection(S, Workers \ M)
    <2>1. f \in [S -> Workers \ M]
        BY <1>1
    <2>2. \A s, t \in S : f[s] = f[t] => s = t
        BY <1>1
    <2> QED BY <2>1, <2>2 DEF Injection, IsInjective
<1>3. S \in SUBSET (1 .. Len(made)) /\ Len(made) \in Nat
    BY DEF SessionsOf, Types
<1> HIDE DEF S, f
<1>4. /\ Cardinality(Workers \ M) = Cardinality(Workers) - Cardinality(M)
      /\ Cardinality(S) \in Nat /\ Cardinality(M) \in Nat /\ Cardinality(Workers) \in Nat
    BY <1>3, FiniteParts
<1>5. IsFiniteSet(Workers \ M)
    BY FS_Subset, WorkersAssumption
<1>6. Cardinality(S) <= Cardinality(Workers \ M)
    BY <1>2, <1>5, FS_Injection
<1> QED BY <1>4, <1>6 DEF S

(* acquire takes an idle session of the profile, or finds none.            *)
LEMMA AcquireStep ==
    ASSUME EngineInv, NEW w \in Workers, Acquire(w)
    PROVE  PoolInv'
<1> USE DEF EngineInv, PoolInv
<1> DEFINE p == call[w].profile
<1>1. /\ pc[w] = "acquire" /\ Active(w) /\ p \in Profiles
      /\ UNCHANGED <<call, made, loaded>>
    BY CallFields DEF Acquire, Active
<1>2. session[w] = 0
    BY <1>1 DEF HeldInv, Holding
<1>3. CASE idle[p] = <<>>
    <2>1. /\ UNCHANGED <<session, idle>> /\ pc'[w] = "construct"
          /\ \A v \in Workers \ {w} : pc'[v] = pc[v]
        BY <1>1, <1>3 DEF Acquire, HasIdle, Go, Types
    <2>2. HeldInv'
        BY <1>1, <1>2, <2>1 DEF HeldInv, Holding
    <2>3. IdleInv' /\ KeptInv'
        BY <1>1, <2>1 DEF IdleInv, KeptInv, IsIdle
    <2>4. BoundInv'
        <3> SUFFICES ASSUME NEW q \in Profiles
                     PROVE  Cardinality(SessionsOf(q))' + Cardinality(Making(q))' <= Cardinality(Workers)
            BY DEF BoundInv
        <3>1. SessionsOf(q)' = SessionsOf(q)
            BY <1>1 DEF SessionsOf
        <3>2. CASE q = p
            <4>1. Making(q)' \in SUBSET Workers /\ \A v \in Making(q)' : v = w \/ v \in Making(p)
                BY <1>1, <2>1, <3>2 DEF Making
            <4> QED BY <1>1, <1>3, <3>1, <3>2, <4>1, NoneIdle
        <3>3. CASE q # p
            <4>1. Making(q)' = Making(q)
                BY <1>1, <2>1, <3>3 DEF Making
            <4> QED BY <3>1, <4>1 DEF BoundInv
        <3> QED BY <3>2, <3>3
    <2> QED BY <2>2, <2>3, <2>4
<1>4. CASE idle[p] # <<>>
    <2> DEFINE n == Len(idle[p])
               s == idle[p][n]
    <2>1. idle[p] \in Seq(Nat)
        BY <1>1 DEF Types
    <2>2. /\ n \in Nat \ {0} /\ DOMAIN idle[p] = 1 .. n
          /\ Last(idle[p]) = s
          /\ DOMAIN Front(idle[p]) = 1 .. n - 1
          /\ \A i \in 1 .. n - 1 : Front(idle[p])[i] = idle[p][i]
        <3> DEFINE b == idle[p]
        <3>1. b \in Seq(Nat) /\ b # <<>>
            BY <1>4, <2>1
        <3> HIDE DEF b
        <3>2. /\ Len(b) \in Nat \ {0} /\ DOMAIN b = 1 .. Len(b)
              /\ Last(b) = b[Len(b)]
              /\ DOMAIN Front(b) = 1 .. Len(b) - 1
              /\ \A i \in 1 .. Len(b) - 1 : Front(b)[i] = b[i]
            BY <3>1, FrontLast
        <3> QED BY <3>2 DEF b
    <2>3. /\ session'[w] = s /\ \A v \in Workers \ {w} : session'[v] = session[v]
          /\ pc'[w] = "check" /\ \A v \in Workers \ {w} : pc'[v] = pc[v]
          /\ idle'[p] = Front(idle[p]) /\ \A q \in Profiles \ {p} : idle'[q] = idle[q]
        BY <1>1, <1>4, <2>2 DEF Acquire, HasIdle, AfterTake, Go, Types
    <2>4. /\ s \in 1 .. Len(made) /\ made[s] = p
          /\ \A v \in Workers : session[v] # s
          /\ \A i \in 1 .. n - 1 : idle[p][i] # s
        BY <1>1, <2>2 DEF IdleInv
    <2>5. DOMAIN idle'[p] = 1 .. n - 1 /\ \A i \in 1 .. n - 1 : idle'[p][i] = idle[p][i]
        BY <2>2, <2>3
    <2> HIDE DEF n, s
    <2>6. HeldInv'
        <3>1. \A v \in Workers : session'[v] # 0 <=> pc'[v] \in Holding
            <4>1. s # 0
                BY <2>4 DEF Types
            <4> QED BY <2>3, <4>1 DEF HeldInv, Holding
        <3>2. \A v \in Workers : session'[v] # 0 =>
                session'[v] \in 1 .. Len(made) /\ made[session'[v]] = call[v].profile
            BY <2>3, <2>4 DEF HeldInv
        <3>3. \A u, v \in Workers : session'[u] = session'[v] /\ session'[v] # 0 => u = v
            BY <2>3, <2>4 DEF HeldInv
        <3> QED BY <1>1, <3>1, <3>2, <3>3 DEF HeldInv
    <2>7. IdleInv'
        <3> SUFFICES ASSUME NEW q \in Profiles
                     PROVE  /\ \A i \in DOMAIN idle'[q] :
                                 /\ idle'[q][i] \in 1 .. Len(made) /\ made[idle'[q][i]] = q
                                 /\ \A v \in Workers : session'[v] # idle'[q][i]
                            /\ \A i, k \in DOMAIN idle'[q] : idle'[q][i] = idle'[q][k] => i = k
            BY <1>1 DEF IdleInv
        <3>1. CASE q = p
            <4>1. \A i \in 1 .. n - 1 : i \in DOMAIN idle[p]
                BY <2>2
            <4>2. \A i \in 1 .. n - 1 :
                    /\ idle[p][i] \in 1 .. Len(made) /\ made[idle[p][i]] = p
                    /\ \A v \in Workers : session[v] # idle[p][i]
                BY <1>1, <4>1 DEF IdleInv
            <4>3. \A i, k \in 1 .. n - 1 : idle[p][i] = idle[p][k] => i = k
                BY <1>1, <4>1 DEF IdleInv
            <4>4. \A i \in 1 .. n - 1 : \A v \in Workers : session'[v] # idle[p][i]
                BY <2>3, <2>4, <4>2
            <4>5. \A i \in DOMAIN idle'[p] :
                    /\ i \in 1 .. n - 1 /\ idle'[p][i] = idle[p][i]
                BY <2>5
            <4> QED BY <3>1, <4>2, <4>3, <4>4, <4>5
        <3>2. CASE q # p
            BY <2>3, <2>4, <3>2 DEF IdleInv
        <3> QED BY <3>1, <3>2
    <2>8. KeptInv'
        <3> SUFFICES ASSUME NEW t \in 1 .. Len(made)
                     PROVE  (\E v \in Workers : session'[v] = t) \/ IsIdle(made[t], t)'
            BY <1>1 DEF KeptInv
        <3>0. made[t] \in Profiles
            BY DEF Types
        <3>1. CASE t = s
            BY <2>3, <3>1
        <3>2. CASE \E v \in Workers : session[v] = t
            <4>1. t # 0
                BY DEF Types
            <4> QED BY <1>2, <2>3, <3>2, <4>1
        <3>3. CASE t # s /\ IsIdle(made[t], t)
            <4>1. CASE made[t] = p
                <5>1. PICK i \in 1 .. n : idle[p][i] = t
                    BY <2>2, <3>3, <4>1 DEF IsIdle
                <5>2. i \in 1 .. n - 1
                    BY <2>2, <3>3, <5>1 DEF s
                <5> QED BY <1>1, <2>5, <4>1, <5>1, <5>2 DEF IsIdle
            <4>2. CASE made[t] # p
                BY <1>1, <2>3, <3>0, <3>3, <4>2 DEF IsIdle
            <4> QED BY <4>1, <4>2
        <3> QED BY <3>1, <3>2, <3>3 DEF KeptInv
    <2>9. BoundInv'
        <3>1. \A q \in Profiles : SessionsOf(q)' = SessionsOf(q) /\ Making(q)' = Making(q)
            BY <1>1, <2>3 DEF SessionsOf, Making
        <3> QED BY <3>1 DEF BoundInv
    <2> QED BY <2>6, <2>7, <2>8, <2>9
<1> QED BY <1>3, <1>4

(* A session that is made is its maker's, who no longer counts as one that *)
(* is about to make it.                                                    *)
LEMMA ConstructStep ==
    ASSUME EngineInv, NEW w \in Workers, Construct(w)
    PROVE  PoolInv'
<1> USE DEF EngineInv, PoolInv
<1> DEFINE p == call[w].profile
           n == Len(made) + 1
<1>1. /\ pc[w] = "construct" /\ Active(w) /\ p \in Profiles
      /\ UNCHANGED <<idle, loaded>>
    BY CallFields DEF Construct, Active
<1>2. session[w] = 0 /\ loaded \subseteq 1 .. Len(made)
    BY <1>1 DEF HeldInv, Holding
<1>3. CASE Leave(w, "error") /\ UNCHANGED <<made, session>>
    BY <1>1, <1>2, <1>3, Leaves, PoolQuietStep DEF Holding
<1>4. CASE made' = Append(made, p) /\ session' = [session EXCEPT ![w] = Len(made')]
           /\ Go(w, "check") /\ UNCHANGED call
    <2>1. /\ Len(made) \in Nat /\ Len(made') = n /\ made'[n] = p
          /\ \A s \in 1 .. Len(made) : made'[s] = made[s]
          /\ \A s \in 1 .. n : s = n \/ s \in 1 .. Len(made)
          /\ n \notin 1 .. Len(made)
        BY <1>1, <1>4, AppendProperties, LenProperties DEF Types
    <2>2. /\ session'[w] = n /\ \A v \in Workers \ {w} : session'[v] = session[v]
          /\ pc'[w] = "check" /\ \A v \in Workers \ {w} : pc'[v] = pc[v]
        BY <1>4, <2>1 DEF Go, Types
    <2>3. \A v \in Workers : session[v] # 0 => session[v] \in 1 .. Len(made)
        BY DEF HeldInv
    <2> HIDE DEF n
    <2>4. n # 0 /\ n \in 1 .. n /\ \A s \in 1 .. Len(made) : s \in 1 .. n
        BY <2>1 DEF n
    <2>5. HeldInv'
        <3>1. \A v \in Workers : session'[v] # 0 <=> pc'[v] \in Holding
            BY <2>2, <2>4 DEF HeldInv, Holding
        <3>2. \A v \in Workers : session'[v] # 0 =>
                session'[v] \in 1 .. n /\ made'[session'[v]] = call[v].profile
            BY <2>1, <2>2, <2>4 DEF HeldInv
        <3>3. \A u, v \in Workers : session'[u] = session'[v] /\ session'[v] # 0 => u = v
            BY <2>1, <2>2, <2>3 DEF HeldInv
        <3>4. loaded \subseteq 1 .. n
            BY <1>2, <2>4
        <3> QED BY <1>1, <1>4, <2>1, <3>1, <3>2, <3>3, <3>4 DEF HeldInv
    <2>6. IdleInv'
        <3> SUFFICES ASSUME NEW q \in Profiles, NEW i \in DOMAIN idle[q]
                     PROVE  /\ idle[q][i] \in 1 .. n /\ made'[idle[q][i]] = q
                            /\ \A v \in Workers : session'[v] # idle[q][i]
                            /\ \A k \in DOMAIN idle[q] : idle[q][i] = idle[q][k] => i = k
            BY <1>1, <2>1 DEF IdleInv
        <3> QED BY <2>1, <2>2, <2>4 DEF IdleInv
    <2>7. KeptInv'
        <3> SUFFICES ASSUME NEW s \in 1 .. n
                     PROVE  (\E v \in Workers : session'[v] = s) \/ IsIdle(made[s], s)'
            BY <2>1 DEF KeptInv
        <3>1. CASE s = n
            BY <2>2, <3>1
        <3>2. CASE s \in 1 .. Len(made)
            <4>1. CASE \E v \in Workers : session[v] = s
                BY <1>2, <2>1, <2>2, <3>2, <4>1
            <4>2. CASE IsIdle(made[s], s)
                BY <1>1, <2>1, <3>2, <4>2 DEF IsIdle
            <4> QED BY <3>2, <4>1, <4>2 DEF KeptInv
        <3> QED BY <2>1, <3>1, <3>2
    <2>8. BoundInv'
        <3> SUFFICES ASSUME NEW q \in Profiles
                     PROVE  Cardinality(SessionsOf(q))' + Cardinality(Making(q))' <= Cardinality(Workers)
            BY DEF BoundInv
        <3>1. SessionsOf(q) \in SUBSET (1 .. Len(made)) /\ Making(q) \in SUBSET Workers
            BY DEF SessionsOf, Making
        <3>2. /\ IsFiniteSet(SessionsOf(q)) /\ Cardinality(SessionsOf(q)) \in Nat
              /\ IsFiniteSet(Making(q)) /\ Cardinality(Making(q)) \in Nat
              /\ Cardinality(Workers) \in Nat
            BY <2>1, <3>1, FiniteParts
        <3>3. Cardinality(SessionsOf(q)) + Cardinality(Making(q)) <= Cardinality(Workers)
            BY DEF BoundInv
        <3>4. CASE q = p
            <4>1. SessionsOf(q)' = SessionsOf(q) \union {n} /\ n \notin SessionsOf(q)
                BY <2>1, <2>4, <3>4 DEF SessionsOf
            <4>2. Making(q)' = Making(q) \ {w} /\ w \in Making(q)
                BY <1>1, <1>4, <2>2, <3>4 DEF Making
            <4>3. Cardinality(SessionsOf(q)') = Cardinality(SessionsOf(q)) + 1
                BY <3>2, <4>1, FS_AddElement
            <4>4. Cardinality(Making(q)') = Cardinality(Making(q)) - 1
                BY <3>2, <4>2, FS_RemoveElement
            <4> QED BY <3>2, <3>3, <4>3, <4>4
        <3>5. CASE q # p
            <4>1. SessionsOf(q)' = SessionsOf(q)
                BY <2>1, <2>4, <3>5 DEF SessionsOf
            <4>2. Making(q)' = Making(q)
                BY <1>1, <1>4, <2>2, <3>5 DEF Making
            <4> QED BY <3>3, <4>1, <4>2
        <3> QED BY <3>4, <3>5
    <2> QED BY <2>5, <2>6, <2>7, <2>8
<1> QED BY <1>3, <1>4 DEF Construct

(* The session a call held is idle, in the bucket of its own profile.      *)
LEMMA ReleaseStep ==
    ASSUME EngineInv, NEW w \in Workers, Release(w)
    PROVE  PoolInv'
<1> USE DEF EngineInv, PoolInv
<1> DEFINE p == call[w].profile
           s == session[w]
           n == Len(idle[p]) + 1
<1>1. /\ pc[w] \in Holding /\ Active(w) /\ p \in Profiles
      /\ UNCHANGED <<made, loaded>>
    BY CallFields DEF Release, Active, Holding
<1>2. /\ s # 0 /\ s \in 1 .. Len(made) /\ made[s] = p
      /\ \A v \in Workers \ {w} : session[v] # s
    BY <1>1 DEF HeldInv
<1>3. idle[p] \in Seq(Nat) /\ s \in Nat
    BY <1>1 DEF Types
<1>4. idle' = [idle EXCEPT ![p] = Append(idle[p], s)]
    BY DEF Release, GivesBack, BucketOf
<1>5. /\ idle'[p] = Append(idle[p], s) /\ \A q \in Profiles \ {p} : idle'[q] = idle[q]
      /\ session'[w] = 0 /\ \A v \in Workers \ {w} : session'[v] = session[v]
    BY <1>1, <1>4 DEF Release, Types
<1>6. /\ n \in Nat /\ DOMAIN idle[p] = 1 .. n - 1 /\ DOMAIN idle'[p] = 1 .. n
      /\ idle'[p][n] = s
      /\ \A i \in 1 .. n - 1 : idle'[p][i] = idle[p][i]
      /\ \A i \in 1 .. n : i = n \/ i \in 1 .. n - 1
      /\ n \in 1 .. n /\ \A i \in 1 .. n - 1 : i \in 1 .. n
    BY <1>3, <1>5, AppendProperties, LenProperties
<1>7. \A i \in 1 .. n - 1 : idle[p][i] # s
    BY <1>1, <1>6 DEF IdleInv
<1>8. /\ pc'[w] \in {"ok", "error"}
      /\ \A v \in Workers \ {w} : pc'[v] = pc[v] /\ call'[v] = call[v]
    <2>1. PICK result \in {"ok", "error"} : Leave(w, result)
        BY DEF Release
    <2> QED BY <1>1, <2>1, Leaves
<1> HIDE DEF n
<1>9. HeldInv'
    BY <1>1, <1>5, <1>8 DEF HeldInv, Holding
<1>10. IdleInv'
    <2> SUFFICES ASSUME NEW q \in Profiles
                 PROVE  /\ \A i \in DOMAIN idle'[q] :
                             /\ idle'[q][i] \in 1 .. Len(made) /\ made[idle'[q][i]] = q
                             /\ \A v \in Workers : session'[v] # idle'[q][i]
                        /\ \A i, k \in DOMAIN idle'[q] : idle'[q][i] = idle'[q][k] => i = k
        BY <1>1 DEF IdleInv
    <2>1. CASE q = p
        <3>0. \A i \in 1 .. n - 1 : i \in DOMAIN idle[p]
            BY <1>6
        <3>1. \A i \in 1 .. n - 1 :
                /\ idle[p][i] \in 1 .. Len(made) /\ made[idle[p][i]] = p
                /\ \A v \in Workers : session[v] # idle[p][i]
                /\ \A k \in 1 .. n - 1 : idle[p][i] = idle[p][k] => i = k
            BY <1>1, <3>0 DEF IdleInv
        <3>2. \A i \in 1 .. n : 0 # idle'[p][i]
            <4>1. 0 \notin 1 .. Len(made)
                BY DEF Types
            <4>2. \A i \in 1 .. n - 1 : 0 # idle'[p][i]
                BY <1>6, <3>1, <4>1
            <4> QED BY <1>2, <1>6, <4>2
        <3>3. \A i \in 1 .. n :
                /\ idle'[p][i] \in 1 .. Len(made) /\ made[idle'[p][i]] = p
                /\ \A v \in Workers : session'[v] # idle'[p][i]
            BY <1>2, <1>5, <1>6, <3>1, <3>2
        <3>4. \A i, k \in 1 .. n : idle'[p][i] = idle'[p][k] => i = k
            BY <1>6, <1>7, <3>1
        <3> QED BY <1>6, <2>1, <3>3, <3>4
    <2>2. CASE q # p
        <3>1. \A i \in DOMAIN idle[q] : idle[q][i] # 0
            BY LenProperties DEF IdleInv, Types
        <3> QED BY <1>5, <2>2, <3>1 DEF IdleInv
    <2> QED BY <2>1, <2>2
<1>11. KeptInv'
    <2> SUFFICES ASSUME NEW t \in 1 .. Len(made)
                 PROVE  (\E v \in Workers : session'[v] = t) \/ IsIdle(made[t], t)'
        BY <1>1 DEF KeptInv
    <2>0. made[t] \in Profiles
        BY DEF Types
    <2>1. CASE t = s
        BY <1>1, <1>2, <1>6, <2>1 DEF IsIdle
    <2>2. CASE t # s /\ \E v \in Workers : session[v] = t
        BY <1>5, <2>2
    <2>3. CASE IsIdle(made[t], t)
        <3>1. CASE made[t] = p
            <4>1. PICK i \in 1 .. n - 1 : idle[p][i] = t
                BY <1>6, <2>3, <3>1 DEF IsIdle
            <4> QED BY <1>1, <1>6, <3>1, <4>1 DEF IsIdle
        <3>2. CASE made[t] # p
            BY <1>1, <1>5, <2>0, <2>3, <3>2 DEF IsIdle
        <3> QED BY <3>1, <3>2
    <2> QED BY <2>1, <2>2, <2>3 DEF KeptInv
<1>12. BoundInv'
    <2>1. \A q \in Profiles : SessionsOf(q)' = SessionsOf(q) /\ Making(q)' = Making(q)
        BY <1>1, <1>8 DEF SessionsOf, Making, Holding
    <2> QED BY <2>1 DEF BoundInv
<1> QED BY <1>9, <1>10, <1>11, <1>12

(* Every step keeps the pool.                                              *)
LEMMA PoolNext ==
    ASSUME EngineInv, NEW w \in Workers, WorkerStep(w)
    PROVE  PoolInv'
<1> USE DEF EngineInv
<1>1. CASE Acquire(w) \/ Construct(w) \/ Release(w)
    BY <1>1, AcquireStep, ConstructStep, ReleaseStep
<1>2. CASE Process(w) \/ LoadAudio(w)
    <2>1. /\ UNCHANGED <<session, made, idle, loaded>>
          /\ \A v \in Workers \ {w} : pc'[v] = pc[v] /\ call'[v] = call[v]
          /\ pc[w] \notin Holding /\ pc'[w] \notin Holding /\ pc'[w] # "construct"
        BY <1>2 DEF Process, LoadAudio, Leave, Go, pool, Types, Holding, Outside
    <2> QED BY <2>1, PoolQuietStep DEF PoolInv, HeldInv
<1>3. CASE CheckInput(w) \/ ResolveWeights(w) \/ Infer(w) \/ CreateDirectories(w) \/ EndOfLoop(w)
    <2>1. /\ UNCHANGED <<session, made, idle, loaded, call>>
          /\ \A v \in Workers \ {w} : pc'[v] = pc[v]
          /\ pc[w] \in Holding /\ pc'[w] \in Holding
        BY <1>3 DEF CheckInput, ResolveWeights, Infer, Decide, CreateDirectories, EndOfLoop, Go,
                    pool, Types, Holding
    <2> QED BY <2>1, PoolQuietStep DEF PoolInv, HeldInv, Holding
<1>4. CASE LoadModel(w)
    <2>1. /\ UNCHANGED <<session, made, idle, call>> /\ loaded' \subseteq loaded \union {session[w]}
          /\ \A v \in Workers \ {w} : pc'[v] = pc[v]
          /\ pc[w] \in Holding /\ pc'[w] \in Holding
        BY <1>4 DEF LoadModel, Go, pool, Types, Holding
    <2>2. session[w] \in 1 .. Len(made)
        BY <2>1 DEF PoolInv, HeldInv
    <2> QED BY <2>1, <2>2, PoolQuietStep DEF PoolInv, HeldInv, Holding
<1>5. CASE WriteStem(w)
    <2>1. /\ UNCHANGED <<session, made, idle, loaded, call>>
          /\ \A v \in Workers \ {w} : pc'[v] = pc[v]
          /\ pc[w] \in Holding /\ pc'[w] \in Holding
        BY <1>5 DEF WriteStem, AfterFailedWrite, Go, pool, Types, Holding
    <2> QED BY <2>1, PoolQuietStep DEF PoolInv, HeldInv, Holding
<1> QED BY <1>1, <1>2, <1>3, <1>4, <1>5 DEF WorkerStep

-----------------------------------------------------------------------------
(* The invariant                                                           *)

(* It holds at the start, with no session made and no call under way.      *)
LEMMA EngineInit ==
    Init => EngineInv
<1> SUFFICES ASSUME Init
             PROVE  EngineInv
    OBVIOUS
<1>1. Types
    BY DEF Init, Types, Active, PcValues, Outside, FileStates
<1>2. Len(made) = 0 /\ \A p \in Profiles : DOMAIN idle[p] = {}
    BY DEF Init
<1>3. \A w \in Workers : session[w] = 0 /\ pc[w] = "idle"
    BY DEF Init
<1>4. HeldInv
    BY <1>3 DEF Init, HeldInv, Holding
<1>5. IdleInv /\ KeptInv
    BY <1>2 DEF IdleInv, KeptInv
<1>6. BoundInv
    <2>1. \A p \in Profiles : SessionsOf(p) = {} /\ Making(p) = {}
        BY <1>2, <1>3 DEF SessionsOf, Making
    <2>2. Cardinality({}) = 0 /\ Cardinality(Workers) \in Nat
        BY FS_EmptySet, FS_CardinalityType, WorkersAssumption
    <2> QED BY <2>1, <2>2 DEF BoundInv
<1>7. SharedInv /\ WrittenInv
    BY <1>3 DEF SharedInv, WrittenInv, Outside, Active
<1> QED BY <1>1, <1>4, <1>5, <1>6, <1>7 DEF EngineInv, PoolInv

(* A step that changes nothing keeps it too.                               *)
LEMMA EngineStutter ==
    ASSUME EngineInv, UNCHANGED vars
    PROVE  EngineInv'
<1> USE DEF EngineInv, PoolInv, vars
<1>1. Types' /\ SharedInv' /\ WrittenInv'
    BY DEF Types, Active, SharedInv, WrittenInv
<1>2. HeldInv' /\ IdleInv' /\ KeptInv'
    BY DEF HeldInv, IdleInv, KeptInv, IsIdle
<1>3. BoundInv'
    <2>1. \A p \in Profiles : SessionsOf(p)' = SessionsOf(p) /\ Making(p)' = Making(p)
        BY DEF SessionsOf, Making
    <2> QED BY <2>1 DEF BoundInv
<1> QED BY <1>1, <1>2, <1>3

(* EngineInv is inductive.                                                 *)
LEMMA EngineNext ==
    EngineInv /\ [Next]_vars => EngineInv'
<1> SUFFICES ASSUME EngineInv, [Next]_vars
             PROVE  EngineInv'
    OBVIOUS
<1>1. ASSUME NEW w \in Workers, WorkerStep(w)
      PROVE  EngineInv'
    <2>1. Types' /\ PoolInv' /\ SharedInv' /\ WrittenInv'
        BY <1>1, TypesNext, PoolNext, SharedNext, WrittenNext
    <2> QED BY <2>1 DEF EngineInv
<1>2. CASE UNCHANGED vars
    BY <1>2, EngineStutter
<1> QED BY <1>1, <1>2 DEF Next

(* The invariant holds in every reachable state.                           *)
LEMMA EngineAlways ==
    Spec => []EngineInv
BY EngineInit, EngineNext, PTL DEF Spec

(* No bucket is longer than all the sessions there are.                    *)
LEMMA BucketBound ==
    ASSUME EngineInv, NEW p \in Profiles
    PROVE  idle[p] \in Seq(1 .. Len(made)) /\ Len(idle[p]) <= Len(made)
<1> DEFINE b == idle[p]
           m == Len(made)
<1>1. b \in Seq(Nat) /\ m \in Nat /\ Len(b) \in Nat /\ DOMAIN b = 1 .. Len(b)
    BY LenProperties DEF EngineInv, Types
<1>2. /\ \A i \in 1 .. Len(b) : b[i] \in 1 .. m
      /\ \A i, k \in 1 .. Len(b) : b[i] = b[k] => i = k
    BY <1>1 DEF EngineInv, PoolInv, IdleInv
<1> HIDE DEF b, m
<1>3. b \in Seq(1 .. m)
    BY <1>1, <1>2, SeqDef
<1>4. b \in Injection(1 .. Len(b), 1 .. m)
    <2>1. b \in [1 .. Len(b) -> 1 .. m]
        BY <1>3, LenProperties
    <2> QED BY <1>2, <2>1 DEF Injection, IsInjective
<1>5. /\ IsFiniteSet(1 .. m) /\ Cardinality(1 .. m) = m
      /\ Cardinality(1 .. Len(b)) = Len(b)
    <2>1. ASSUME NEW k \in Nat
          PROVE  IsFiniteSet(1 .. k) /\ Cardinality(1 .. k) = k
        <3>1. IsFiniteSet(1 .. k) /\ Cardinality(1 .. k) = IF 1 > k THEN 0 ELSE k - 1 + 1
            BY FS_Interval
        <3> QED BY <3>1
    <2> QED BY <1>1, <2>1
<1>6. Cardinality(1 .. Len(b)) <= Cardinality(1 .. m)
    BY <1>4, <1>5, FS_Injection
<1> QED BY <1>3, <1>5, <1>6 DEF b, m

-----------------------------------------------------------------------------
(* What follows                                                            *)

(* The values of the variables, the bound on the buckets with them.        *)
THEOREM EngineTypeCorrect == Spec => []TypeOK
<1>1. ASSUME EngineInv PROVE TypeOK
    <2>1. Types /\ HeldInv
        BY <1>1 DEF EngineInv, PoolInv
    <2>2. Sessions = 1 .. Len(made)
        BY <2>1, LenProperties DEF Sessions, Types
    <2>3. \A p \in Profiles : idle[p] \in Seq(Sessions) /\ Len(idle[p]) <= Len(made)
        BY <1>1, <2>2, BucketBound
    <2>4. session \in [Workers -> Sessions \union {0}]
        BY <2>1, <2>2 DEF Types, HeldInv
    <2>5. idle \in [Profiles -> Seq(Sessions)]
        BY <2>1, <2>3 DEF Types
    <2>6. /\ loaded \in SUBSET Sessions
          /\ \A w \in Workers : session[w] # 0 <=> pc[w] \in Holding
        BY <2>1, <2>2 DEF HeldInv
    <2>7. files \in [Dirs -> [Stems -> {"absent", "broken", "earlier"} \union Workers]]
        BY <2>1 DEF Types, FileStates
    <2> QED BY <2>1, <2>3, <2>4, <2>5, <2>6, <2>7 DEF TypeOK, Types, PcValues
<1> QED BY <1>1, EngineAlways, PTL

(* A session is with the one call that holds it, or at the one place of    *)
(* the one bucket it lies in.                                              *)
LEMMA OnePlace ==
    ASSUME EngineInv, NEW s \in Sessions
    PROVE  \E a : Places(s) = {a}
<1> DEFINE P == made[s]
<1>1. /\ s \in 1 .. Len(made) /\ Len(made) \in Nat /\ s # 0 /\ P \in Profiles
    BY LenProperties DEF Sessions, EngineInv, Types
<1>2. \A q \in Profiles : \A i \in DOMAIN idle[q] :
        /\ made[idle[q][i]] = q
        /\ \A w \in Workers : session[w] # idle[q][i]
        /\ \A k \in DOMAIN idle[q] : idle[q][i] = idle[q][k] => i = k
    BY DEF EngineInv, PoolInv, IdleInv
<1>3. CASE \E w \in Workers : session[w] = s
    <2>1. PICK w \in Workers : session[w] = s
        BY <1>3
    <2>2. {v \in Workers : session[v] = s} = {w}
        BY <1>1, <2>1 DEF EngineInv, PoolInv, HeldInv
    <2>3. {r \in Profiles \X (1 .. Len(made)) :
             r[2] \in DOMAIN idle[r[1]] /\ idle[r[1]][r[2]] = s} = {}
        BY <1>2, <2>1
    <2>4. Places(s) = {<<"held", w, 0>>}
        BY <2>2, <2>3 DEF Places
    <2> QED BY <2>4
<1>4. CASE ~\E w \in Workers : session[w] = s
    <2>1. PICK i \in DOMAIN idle[P] : idle[P][i] = s
        BY <1>1, <1>4 DEF EngineInv, PoolInv, KeptInv, IsIdle
    <2>2. i \in 1 .. Len(made)
        <3>1. /\ idle[P] \in Seq(1 .. Len(made)) /\ Len(idle[P]) <= Len(made)
              /\ Len(idle[P]) \in Nat /\ DOMAIN idle[P] = 1 .. Len(idle[P])
            BY <1>1, BucketBound, LenProperties
        <3> QED BY <1>1, <2>1, <3>1
    <2>3. {v \in Workers : session[v] = s} = {}
        BY <1>4
    <2> DEFINE R == {r \in Profiles \X (1 .. Len(made)) :
                       r[2] \in DOMAIN idle[r[1]] /\ idle[r[1]][r[2]] = s}
    <2>4. <<P, i>> \in R
        BY <1>1, <2>1, <2>2
    <2>5. ASSUME NEW r \in R PROVE r = <<P, i>>
        <3>1. r = <<r[1], r[2]>> /\ r[1] \in Profiles
            OBVIOUS
        <3>2. r[2] \in DOMAIN idle[r[1]] /\ idle[r[1]][r[2]] = s
            OBVIOUS
        <3>3. r[1] = P
            BY <1>2, <3>1, <3>2
        <3>4. r[2] = i
            BY <1>1, <1>2, <2>1, <3>2, <3>3
        <3> QED BY <3>1, <3>3, <3>4
    <2>6. ASSUME NEW a \in Places(s) PROVE a = <<"idle", P, i>>
        <3>1. PICK r \in R : a = <<"idle", r[1], r[2]>>
            BY <2>3, <2>6 DEF Places
        <3> QED BY <2>5, <3>1
    <2>7. <<"idle", P, i>> \in Places(s)
        BY <2>4 DEF Places
    <2>8. Places(s) = {<<"idle", P, i>>}
        BY <2>6, <2>7
    <2> QED BY <2>8
<1> QED BY <1>3, <1>4

(* Sessions are neither lost nor shared, however calls end and interleave. *)
THEOREM SessionsAccountedCorrect == Spec => []SessionsAccounted
<1>1. ASSUME EngineInv PROVE SessionsAccounted
    <2> SUFFICES ASSUME NEW s \in Sessions
                 PROVE  /\ Cardinality(Places(s)) = 1
                        /\ \A w \in Workers : session[w] = s => call[w].profile = made[s]
        BY DEF SessionsAccounted
    <2>1. Cardinality(Places(s)) = 1
        <3>1. PICK a : Places(s) = {a}
            BY <1>1, OnePlace
        <3>2. Cardinality({a}) = 1
            BY FS_Singleton
        <3> QED BY <3>1, <3>2
    <2>2. s # 0
        BY <1>1, LenProperties DEF Sessions, EngineInv, Types
    <2>3. ASSUME NEW w \in Workers, session[w] = s
          PROVE  call[w].profile = made[s]
        BY <1>1, <2>2, <2>3 DEF EngineInv, PoolInv, HeldInv
    <2> QED BY <2>1, <2>3
<1> QED BY <1>1, EngineAlways, PTL

(* There are never more sessions of a profile than workers.                *)
THEOREM SessionsBoundedCorrect == Spec => []SessionsBounded
<1>1. ASSUME EngineInv PROVE SessionsBounded
    <2> SUFFICES ASSUME NEW p \in Profiles
                 PROVE  Cardinality({s \in Sessions : made[s] = p}) <= Cardinality(Workers)
        BY DEF SessionsBounded
    <2>1. {s \in Sessions : made[s] = p} = SessionsOf(p) /\ Len(made) \in Nat
        BY <1>1, LenProperties DEF Sessions, SessionsOf, EngineInv, Types
    <2>2. SessionsOf(p) \in SUBSET (1 .. Len(made)) /\ Making(p) \in SUBSET Workers
        BY DEF SessionsOf, Making
    <2>3. /\ Cardinality(SessionsOf(p)) \in Nat /\ Cardinality(Making(p)) \in Nat
          /\ Cardinality(Workers) \in Nat
        BY <2>1, <2>2, FiniteParts
    <2>4. Cardinality(SessionsOf(p)) + Cardinality(Making(p)) <= Cardinality(Workers)
        BY <1>1 DEF EngineInv, PoolInv, BoundInv
    <2>5. Cardinality(SessionsOf(p)) <= Cardinality(Workers)
        BY <2>3, <2>4
    <2> QED BY <2>1, <2>5
<1> QED BY <1>1, EngineAlways, PTL

(* What process returns is complete and the call's own.                    *)
THEOREM OutputWrittenCorrect == Spec => []OutputWritten
<1>1. ASSUME EngineInv PROVE OutputWritten
    BY <1>1 DEF EngineInv, WrittenInv, OutputWritten
<1> QED BY <1>1, EngineAlways, PTL

=============================================================================
