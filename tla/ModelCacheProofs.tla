-------------------------- MODULE ModelCacheProofs --------------------------
(* Proofs about ModelCache for any number of threads.                      *)
EXTENDS ModelCache, FiniteSetTheorems, TLAPS

-----------------------------------------------------------------------------
(* The inductive invariant: its last three parts are about processes where *)
(* no threads have raced in state_for.                                     *)

PcValues == Outside \union Checking \union Downloading \union {"find", "insert", "lock"}

Types ==
    /\ target \in Contents \union {"absent"}
    /\ staging \in Contents \union {"absent"}
    /\ pc \in [Threads -> PcValues]
    /\ locked \in SUBSET Threads
    /\ inserted \in BOOLEAN /\ raced \in BOOLEAN
    /\ purging \in SUBSET {"target", "staging"}
    /\ began \in Contents \union {"absent"}
    /\ leftover \in BOOLEAN /\ disturbed \in BOOLEAN
    /\ valid \in SUBSET Threads

(* Who downloads has the mutex, and who has it is in hydrate.              *)
MutexInv ==
    /\ \A t \in Threads : pc[t] \in Downloading => t \in locked
    /\ \A t \in locked : pc[t] \in Checking \union Downloading
    /\ ~raced => \A t, u \in locked : t = u

(* The staging file is the one's that downloads: what has been verified    *)
(* stays good, or is purged, until it is renamed.                          *)
StagingInv ==
    ~raced =>
        /\ staging = "absent" \/ leftover \/ \E t \in locked : pc[t] \in Downloading
        /\ \A t \in Threads :
             /\ pc[t] \in {"clean", "remove_old"} => staging = "absent" \/ leftover
             /\ pc[t] \in {"drop", "rename"} => staging \in {"absent", "good"}

(* The weights that were there at first are never put back, so that a call *)
(* that has found the size right finds the checksum wrong only where the   *)
(* process began with a corrupt file.                                      *)
TargetInv ==
    ~raced =>
        /\ target \in {"absent", "good", began}
        /\ \A t \in Threads : pc[t] \in Downloading => target # "good"
        /\ began # "corrupt" =>
             /\ valid # {} => target = "good"
             /\ \A t \in Threads :
                  /\ pc[t] # "remove"
                  /\ pc[t] = "checksum" => target \in {"absent", "good"}

(* What a call is sure of as long as nothing fails and nobody purges.      *)
AloneInv ==
    /\ ~disturbed => purging = {}
    /\ ~raced /\ ~disturbed /\ began \in {"absent", "good"} =>
         \A t \in Threads :
             /\ pc[t] \notin {"error", "discard"}
             /\ pc[t] \in {"size", "checksum"} => target = "good"
             /\ pc[t] = "fetch" => staging = "partial"
             /\ pc[t] \in {"verify", "drop", "rename"} => staging = "good"

CacheInv == Types /\ MutexInv /\ StagingInv /\ TargetInv /\ AloneInv

-----------------------------------------------------------------------------
(* The steps: CacheInv is kept by each action                              *)

(* Nothing is known of a call that has only begun.                         *)
LEMMA CallStep ==
    ASSUME CacheInv, NEW t \in Threads, Call(t)
    PROVE  CacheInv'
<1> USE DEF CacheInv, Go, disk, mutexes, history, Call
<1>1. Types'
    BY DEF Types, Contents, Fetched, PcValues, Outside, Checking, Downloading
<1>2. MutexInv'
    BY DEF MutexInv, Types, Checking, Downloading, Outside
<1>3. StagingInv'
    BY DEF StagingInv, Types, MutexInv, Checking, Downloading, Outside
<1>4. TargetInv'
    BY DEF TargetInv, Types, MutexInv, StagingInv, Checking, Downloading, Outside
<1>5. AloneInv'
    BY DEF AloneInv, Types, MutexInv, StagingInv, TargetInv, Downloading
<1> QED BY <1>1, <1>2, <1>3, <1>4, <1>5

(* Under the mutex, a download begins only where the weights are missing.  *)
LEMMA ExistsStep ==
    ASSUME CacheInv, NEW t \in Threads, Exists(t)
    PROVE  CacheInv'
<1> USE DEF CacheInv, Go, disk, mutexes, history, Exists, NotReady, Locked, CheckGoesOn
<1>1. Types'
    BY DEF Types, Contents, Fetched, PcValues, Outside, Checking, Downloading
<1>2. MutexInv'
    BY DEF MutexInv, Types, Checking, Downloading, Outside
<1>3. StagingInv'
    BY DEF StagingInv, Types, MutexInv, Checking, Downloading, Outside
<1>4. TargetInv'
    BY DEF TargetInv, Types, MutexInv, StagingInv, Checking, Downloading, Outside
<1>5. AloneInv'
    BY DEF AloneInv, Types, MutexInv, StagingInv, TargetInv, Downloading
<1> QED BY <1>1, <1>2, <1>3, <1>4, <1>5

(* A file that is gone between two steps of file_ready is an error, which  *)
(* no call on its own causes another.                                      *)
LEMMA SizeStep ==
    ASSUME CacheInv, NEW t \in Threads, Size(t)
    PROVE  CacheInv'
<1> USE DEF CacheInv, Go, disk, mutexes, history, Size, NotReady, Locked, CheckGoesOn,
            CheckEnds, Return
<1>1. Types'
    <2>1. /\ pc' \in [Threads -> PcValues]
          /\ locked' \in SUBSET Threads /\ valid' \in SUBSET Threads
        BY DEF Types, PcValues, Outside, Checking, Downloading
    <2>2. UNCHANGED <<target, staging, inserted, raced, purging, began, leftover, disturbed>>
        OBVIOUS
    <2> QED BY <2>1, <2>2 DEF Types
<1>2. MutexInv'
    BY DEF MutexInv, Types, Checking, Downloading, Outside
<1>3. StagingInv'
    BY DEF StagingInv, Types, MutexInv, Checking, Downloading, Outside
<1>4. TargetInv'
    BY DEF TargetInv, Types, MutexInv, StagingInv, Checking, Downloading, Outside
<1>5. AloneInv'
    BY DEF AloneInv, Types, MutexInv, StagingInv, TargetInv, Downloading
<1> QED BY <1>1, <1>2, <1>3, <1>4, <1>5

(* A handle is only returned for weights that are good.                    *)
LEMMA ChecksumStep ==
    ASSUME CacheInv, NEW t \in Threads, Checksum(t)
    PROVE  CacheInv'
<1> USE DEF CacheInv, Go, disk, mutexes, history, Checksum, CheckGoesOn, CheckEnds,
            Return, Matches
<1>1. Types'
    <2>1. /\ pc' \in [Threads -> PcValues]
          /\ locked' \in SUBSET Threads /\ valid' \in SUBSET Threads
        BY DEF Types, PcValues, Outside, Checking, Downloading
    <2>2. UNCHANGED <<target, staging, inserted, raced, purging, began, leftover, disturbed>>
        OBVIOUS
    <2> QED BY <2>1, <2>2 DEF Types
<1>2. MutexInv'
    BY DEF MutexInv, Types, Checking, Downloading, Outside
<1>3. StagingInv'
    BY DEF StagingInv, Types, MutexInv, Checking, Downloading, Outside
<1>4. TargetInv'
    BY DEF TargetInv, Types, MutexInv, StagingInv, Checking, Downloading, Outside
<1>5. AloneInv'
    BY DEF AloneInv, Types, MutexInv, StagingInv, TargetInv, Downloading
<1> QED BY <1>1, <1>2, <1>3, <1>4, <1>5

(* What a call removes for its checksum was corrupt from the beginning.    *)
LEMMA RemoveMismatchStep ==
    ASSUME CacheInv, NEW t \in Threads, RemoveMismatch(t)
    PROVE  CacheInv'
<1> USE DEF CacheInv, Go, disk, mutexes, history, RemoveMismatch, NotReady, Locked
<1>1. Types'
    BY DEF Types, Contents, Fetched, PcValues, Outside, Checking, Downloading
<1>2. MutexInv'
    BY DEF MutexInv, Types, Checking, Downloading, Outside
<1>3. StagingInv'
    BY DEF StagingInv, Types, MutexInv, Checking, Downloading, Outside
<1>4. TargetInv'
    BY DEF TargetInv, Types, MutexInv, StagingInv, Checking, Downloading, Outside
<1>5. AloneInv'
    BY DEF AloneInv, Types, MutexInv, StagingInv, TargetInv, Downloading
<1> QED BY <1>1, <1>2, <1>3, <1>4, <1>5

(* Looking a state up changes nothing.                                     *)
LEMMA FindStateStep ==
    ASSUME CacheInv, NEW t \in Threads, FindState(t)
    PROVE  CacheInv'
<1> USE DEF CacheInv, Go, disk, mutexes, history, FindState
<1>1. Types'
    BY DEF Types, Contents, Fetched, PcValues, Outside, Checking, Downloading
<1>2. MutexInv'
    BY DEF MutexInv, Types, Checking, Downloading, Outside
<1>3. StagingInv'
    BY DEF StagingInv, Types, MutexInv, Checking, Downloading, Outside
<1>4. TargetInv'
    BY DEF TargetInv, Types, MutexInv, StagingInv, Checking, Downloading, Outside
<1>5. AloneInv'
    BY DEF AloneInv, Types, MutexInv, StagingInv, TargetInv, Downloading
<1> QED BY <1>1, <1>2, <1>3, <1>4, <1>5

(* An insertion gives the profile its mutex, or is a race.                 *)
LEMMA InsertStateStep ==
    ASSUME CacheInv, NEW t \in Threads, InsertState(t)
    PROVE  CacheInv'
<1> USE DEF CacheInv, Go, disk, mutexes, history, InsertState
<1>1. Types'
    BY DEF Types, Contents, Fetched, PcValues, Outside, Checking, Downloading
<1>2. MutexInv'
    BY DEF MutexInv, Types, Checking, Downloading, Outside
<1>3. StagingInv'
    BY DEF StagingInv, Types, MutexInv, Checking, Downloading, Outside
<1>4. TargetInv'
    BY DEF TargetInv, Types, MutexInv, StagingInv, Checking, Downloading, Outside
<1>5. AloneInv'
    BY DEF AloneInv, Types, MutexInv, StagingInv, TargetInv, Downloading
<1> QED BY <1>1, <1>2, <1>3, <1>4, <1>5

(* The mutex is taken by one thread, which looks for the file again.       *)
LEMMA LockStep ==
    ASSUME CacheInv, NEW t \in Threads, Lock(t)
    PROVE  CacheInv'
<1> USE DEF CacheInv, Go, disk, mutexes, history, Lock, MutexIsFree, AfterLock
<1>1. Types'
    BY DEF Types, Contents, Fetched, PcValues, Outside, Checking, Downloading
<1>2. MutexInv'
    BY DEF MutexInv, Types, Checking, Downloading, Outside
<1>3. StagingInv'
    BY DEF StagingInv, Types, MutexInv, Checking, Downloading, Outside
<1>4. TargetInv'
    BY DEF TargetInv, Types, MutexInv, StagingInv, Checking, Downloading, Outside
<1>5. AloneInv'
    BY DEF AloneInv, Types, MutexInv, StagingInv, TargetInv, Downloading
<1> QED BY <1>1, <1>2, <1>3, <1>4, <1>5

(* A call that cannot make its directories has touched no file.            *)
LEMMA CreateDirectoriesStep ==
    ASSUME CacheInv, NEW t \in Threads, CreateDirectories(t)
    PROVE  CacheInv'
<1> USE DEF CacheInv, Go, disk, mutexes, history, CreateDirectories, CheckGoesOn
<1>1. Types'
    <2>1. pc' \in [Threads -> PcValues] /\ locked' \in SUBSET Threads /\ disturbed' \in BOOLEAN
        BY DEF Types, PcValues, Outside, Checking, Downloading
    <2>2. UNCHANGED <<target, staging, inserted, raced, purging, began, leftover, valid>>
        OBVIOUS
    <2> QED BY <2>1, <2>2 DEF Types
<1>2. MutexInv'
    BY DEF MutexInv, Types, Checking, Downloading, Outside
<1>3. StagingInv'
    BY DEF StagingInv, Types, MutexInv, Checking, Downloading, Outside
<1>4. TargetInv'
    BY DEF TargetInv, Types, MutexInv, StagingInv, Checking, Downloading, Outside
<1>5. AloneInv'
    <2>1. CASE disturbed'
        BY <2>1 DEF AloneInv
    <2>2. CASE Go(t, "remove_old") /\ CheckGoesOn
        BY <2>2 DEF AloneInv, Types
    <2> QED BY <2>1, <2>2
<1> QED BY <1>1, <1>2, <1>3, <1>4, <1>5

(* Whatever an earlier process left of a download is gone.                 *)
LEMMA RemoveOldStagingStep ==
    ASSUME CacheInv, NEW t \in Threads, RemoveOldStaging(t)
    PROVE  CacheInv'
<1> USE DEF CacheInv, Go, disk, mutexes, history, RemoveOldStaging
<1>1. Types'
    BY DEF Types, Contents, Fetched, PcValues, Outside, Checking, Downloading
<1>2. MutexInv'
    BY DEF MutexInv, Types, Checking, Downloading, Outside
<1>3. StagingInv'
    BY DEF StagingInv, Types, MutexInv, Checking, Downloading, Outside
<1>4. TargetInv'
    BY DEF TargetInv, Types, MutexInv, StagingInv, Checking, Downloading, Outside
<1>5. AloneInv'
    BY DEF AloneInv, Types, MutexInv, StagingInv, TargetInv, Downloading
<1> QED BY <1>1, <1>2, <1>3, <1>4, <1>5

(* The staging file is there for the thread that has the mutex.            *)
LEMMA OpenStagingStep ==
    ASSUME CacheInv, NEW t \in Threads, OpenStaging(t)
    PROVE  CacheInv'
<1> USE DEF CacheInv, Go, disk, mutexes, history, OpenStaging
<1>1. Types'
    BY DEF Types, Contents, Fetched, PcValues, Outside, Checking, Downloading
<1>2. MutexInv'
    BY DEF MutexInv, Types, Checking, Downloading, Outside
<1>3. StagingInv'
    BY DEF StagingInv, Types, MutexInv, Checking, Downloading, Outside
<1>4. TargetInv'
    BY DEF TargetInv, Types, MutexInv, StagingInv, Checking, Downloading, Outside
<1>5. AloneInv'
    BY DEF AloneInv, Types, MutexInv, StagingInv, TargetInv, Downloading
<1> QED BY <1>1, <1>2, <1>3, <1>4, <1>5

(* A fetch that disturbs nothing leaves the weights in the staging file.   *)
LEMMA FetchStep ==
    ASSUME CacheInv, NEW t \in Threads, Fetch(t)
    PROVE  CacheInv'
<1> USE DEF CacheInv, Go, disk, mutexes, history, Fetch, Fetched
<1>1. Types'
    <2>1. pc' \in [Threads -> PcValues]
        BY DEF Types, PcValues, Downloading
    <2>2. staging' \in Contents \union {"absent"}
        BY DEF Types, Contents
    <2>3. disturbed' \in BOOLEAN
        BY DEF Types
    <2>4. UNCHANGED <<target, locked, inserted, raced, purging, began, leftover, valid>>
        OBVIOUS
    <2> QED BY <2>1, <2>2, <2>3, <2>4 DEF Types
<1>2. MutexInv'
    BY DEF MutexInv, Types, Checking, Downloading, Outside
<1>3. StagingInv'
    BY DEF StagingInv, Types, MutexInv, Checking, Downloading, Outside
<1>4. TargetInv'
    BY DEF TargetInv, Types, MutexInv, StagingInv, Checking, Downloading, Outside
<1>5. AloneInv'
    <2>1. CASE disturbed'
        BY <2>1 DEF AloneInv
    <2>2. CASE ~disturbed'
        <3>1. ~disturbed /\ Go(t, "verify") /\ staging' \notin {"wrong_size", "corrupt"}
            BY <2>2
        <3>2. ASSUME ~raced, began \in {"absent", "good"}
              PROVE  staging = "partial" /\ staging' = "good" /\ pc'[t] = "verify"
            BY <3>1, <3>2 DEF AloneInv, Types
        <3>3. ASSUME ~raced, NEW u \in Threads, u # t
              PROVE  pc'[u] = pc[u] /\ pc[u] \notin Downloading
            BY <3>1, <3>3 DEF Types, MutexInv, Downloading
        <3> QED BY <3>1, <3>2, <3>3 DEF AloneInv, Types, Downloading
    <2> QED BY <2>1, <2>2
<1> QED BY <1>1, <1>2, <1>3, <1>4, <1>5

(* Only a good staging file gets past Verify.                              *)
LEMMA VerifyStep ==
    ASSUME CacheInv, NEW t \in Threads, Verify(t)
    PROVE  CacheInv'
<1> USE DEF CacheInv, Go, disk, mutexes, history, Verify, Matches
<1>1. Types'
    BY DEF Types, Contents, Fetched, PcValues, Outside, Checking, Downloading
<1>2. MutexInv'
    BY DEF MutexInv, Types, Checking, Downloading, Outside
<1>3. StagingInv'
    BY DEF StagingInv, Types, MutexInv, Checking, Downloading, Outside
<1>4. TargetInv'
    BY DEF TargetInv, Types, MutexInv, StagingInv, Checking, Downloading, Outside
<1>5. AloneInv'
    BY DEF AloneInv, Types, MutexInv, StagingInv, TargetInv, Downloading
<1> QED BY <1>1, <1>2, <1>3, <1>4, <1>5

(* What is removed here is not good: no handle loses its weights.          *)
LEMMA DropTargetStep ==
    ASSUME CacheInv, NEW t \in Threads, DropTarget(t)
    PROVE  CacheInv'
<1> USE DEF CacheInv, Go, disk, mutexes, history, DropTarget
<1>1. Types'
    BY DEF Types, Contents, Fetched, PcValues, Outside, Checking, Downloading
<1>2. MutexInv'
    BY DEF MutexInv, Types, Checking, Downloading, Outside
<1>3. StagingInv'
    BY DEF StagingInv, Types, MutexInv, Checking, Downloading, Outside
<1>4. TargetInv'
    BY DEF TargetInv, Types, MutexInv, StagingInv, Checking, Downloading, Outside
<1>5. AloneInv'
    BY DEF AloneInv, Types, MutexInv, StagingInv, TargetInv, Downloading
<1> QED BY <1>1, <1>2, <1>3, <1>4, <1>5

(* What is renamed was verified, or somebody has purged it.                *)
LEMMA RenameStep ==
    ASSUME CacheInv, NEW t \in Threads, Rename(t)
    PROVE  CacheInv'
<1> USE DEF CacheInv, Go, disk, mutexes, history, Rename, Return
<1>1. Types'
    <2>1. /\ pc' \in [Threads -> PcValues] /\ disturbed' \in BOOLEAN
          /\ locked' \in SUBSET Threads /\ valid' \in SUBSET Threads
        BY DEF Types, PcValues, Outside, Downloading
    <2>2. target' \in Contents \union {"absent"} /\ staging' \in Contents \union {"absent"}
        BY DEF Types
    <2>3. UNCHANGED <<inserted, raced, purging, began, leftover>>
        OBVIOUS
    <2> QED BY <2>1, <2>2, <2>3 DEF Types
<1>2. MutexInv'
    BY DEF MutexInv, Types, Checking, Downloading, Outside
<1>3. StagingInv'
    BY DEF StagingInv, Types, MutexInv, Checking, Downloading, Outside
<1>4. TargetInv'
    BY DEF TargetInv, Types, MutexInv, StagingInv, Checking, Downloading, Outside
<1>5. AloneInv'
    <2>1. CASE disturbed'
        BY <2>1 DEF AloneInv
    <2>2. CASE ~disturbed'
        <3>1. ~disturbed /\ purging' = purging /\ raced' = raced /\ began' = began
            BY <2>2 DEF Types
        <3>2. ASSUME ~raced, began \in {"absent", "good"}
              PROVE  staging = "good" /\ pc'[t] = "ok" /\ target' = "good"
            BY <2>2, <3>1, <3>2 DEF AloneInv, Types
        <3>3. ASSUME ~raced, NEW u \in Threads, u # t
              PROVE  pc'[u] = pc[u] /\ pc[u] \notin Downloading
            BY <3>3 DEF Types, MutexInv, Downloading
        <3> QED BY <3>1, <3>2, <3>3 DEF AloneInv, Types, Downloading
    <2> QED BY <2>1, <2>2
<1> QED BY <1>1, <1>2, <1>3, <1>4, <1>5

(* A failed call leaves no staging file.                                   *)
LEMMA DiscardStagingStep ==
    ASSUME CacheInv, NEW t \in Threads, DiscardStaging(t)
    PROVE  CacheInv'
<1> USE DEF CacheInv, Go, disk, mutexes, history, DiscardStaging, Discards, Return
<1>1. Types'
    BY DEF Types, Contents, Fetched, PcValues, Outside, Checking, Downloading
<1>2. MutexInv'
    BY DEF MutexInv, Types, Checking, Downloading, Outside
<1>3. StagingInv'
    BY DEF StagingInv, Types, MutexInv, Checking, Downloading, Outside
<1>4. TargetInv'
    BY DEF TargetInv, Types, MutexInv, StagingInv, Checking, Downloading, Outside
<1>5. AloneInv'
    BY DEF AloneInv, Types, MutexInv, StagingInv, TargetInv, Downloading
<1> QED BY <1>1, <1>2, <1>3, <1>4, <1>5

(* A purge disturbs the calls and takes back what they have returned.      *)
LEMMA BeginPurgeStep ==
    ASSUME CacheInv, BeginPurge
    PROVE  CacheInv'
<1> USE DEF CacheInv, Go, disk, mutexes, history, BeginPurge
<1>1. Types'
    BY DEF Types, Contents, Fetched, PcValues, Outside, Checking, Downloading
<1>2. MutexInv'
    BY DEF MutexInv, Types, Checking, Downloading, Outside
<1>3. StagingInv'
    BY DEF StagingInv, Types, MutexInv, Checking, Downloading, Outside
<1>4. TargetInv'
    BY DEF TargetInv, Types, MutexInv, StagingInv, Checking, Downloading, Outside
<1>5. AloneInv'
    BY DEF AloneInv, Types, MutexInv, StagingInv, TargetInv, Downloading
<1> QED BY <1>1, <1>2, <1>3, <1>4, <1>5

(* A purge, which takes no lock, only ever removes.                        *)
LEMMA PurgeFileStep ==
    ASSUME CacheInv, NEW file \in purging, PurgeFile(file)
    PROVE  CacheInv'
<1> USE DEF CacheInv, Go, disk, mutexes, history, PurgeFile
<1>1. Types'
    BY DEF Types, Contents, Fetched, PcValues, Outside, Checking, Downloading
<1>2. MutexInv'
    BY DEF MutexInv, Types, Checking, Downloading, Outside
<1>3. StagingInv'
    BY DEF StagingInv, Types, MutexInv, Checking, Downloading, Outside
<1>4. TargetInv'
    BY DEF TargetInv, Types, MutexInv, StagingInv, Checking, Downloading, Outside
<1>5. AloneInv'
    BY DEF AloneInv, Types, MutexInv, StagingInv, TargetInv, Downloading
<1> QED BY <1>1, <1>2, <1>3, <1>4, <1>5

(* A process that starts knows nothing but the disk.                       *)
LEMMA RestartStep ==
    ASSUME CacheInv, Restart
    PROVE  CacheInv'
<1> USE DEF CacheInv, Go, disk, mutexes, history, Restart
<1>1. Types'
    BY DEF Types, Contents, Fetched, PcValues, Outside, Checking, Downloading
<1>2. MutexInv'
    BY DEF MutexInv, Types, Checking, Downloading, Outside
<1>3. StagingInv'
    BY DEF StagingInv, Types, MutexInv, Checking, Downloading, Outside
<1>4. TargetInv'
    BY DEF TargetInv, Types, MutexInv, StagingInv, Checking, Downloading, Outside
<1>5. AloneInv'
    BY DEF AloneInv, Types, MutexInv, StagingInv, TargetInv, Downloading
<1> QED BY <1>1, <1>2, <1>3, <1>4, <1>5

(* CacheInv holds at the start.                                            *)
LEMMA CacheInit == Init => CacheInv
<1> SUFFICES ASSUME Init PROVE CacheInv
    OBVIOUS
<1>1. Types
    <2>1. pc \in [Threads -> PcValues]
        BY DEF Init, PcValues, Outside
    <2> QED BY <2>1 DEF Init, Types, Contents
<1>2. MutexInv /\ StagingInv /\ TargetInv /\ AloneInv
    BY DEF Init, MutexInv, StagingInv, TargetInv, AloneInv, Downloading
<1> QED BY <1>1, <1>2 DEF CacheInv

(* CacheInv is inductive.                                                  *)
LEMMA CacheNext == CacheInv /\ [Next]_vars => CacheInv'
<1> SUFFICES ASSUME CacheInv, [Next]_vars PROVE CacheInv'
    OBVIOUS
<1>1. ASSUME NEW t \in Threads, Call(t) \/ EnsureReadyStep(t) PROVE CacheInv'
    BY <1>1, CallStep, ExistsStep, SizeStep, ChecksumStep, RemoveMismatchStep, FindStateStep,
       InsertStateStep, LockStep, CreateDirectoriesStep, RemoveOldStagingStep, OpenStagingStep,
       FetchStep, VerifyStep, DropTargetStep, RenameStep, DiscardStagingStep
       DEF EnsureReadyStep
<1>2. CASE BeginPurge
    BY <1>2, BeginPurgeStep
<1>3. CASE \E file \in purging : PurgeFile(file)
    BY <1>3, PurgeFileStep
<1>4. CASE Restart
    BY <1>4, RestartStep
<1>5. CASE UNCHANGED vars
    BY <1>5 DEF vars, disk, mutexes, history, CacheInv, Types, MutexInv, StagingInv, TargetInv,
                AloneInv
<1> QED BY <1>1, <1>2, <1>3, <1>4, <1>5 DEF Next

(* CacheInv holds in every state of every behaviour.                       *)
LEMMA CacheAlways == Spec => []CacheInv
BY CacheInit, CacheNext, PTL DEF Spec

-----------------------------------------------------------------------------
(* What follows from it                                                    *)

(* Type correctness, and that the mutex has one holder unless threads      *)
(* have raced in state_for.                                                *)
THEOREM CacheTypeCorrect == Spec => []TypeOK
<1>1. CacheInv => TypeOK
    <2> SUFFICES ASSUME CacheInv PROVE TypeOK
        OBVIOUS
    <2>1. ~raced => Cardinality(locked) <= 1
        <3>1. CASE locked = {}
            BY <3>1, FS_EmptySet
        <3>2. ASSUME NEW t \in locked, ~raced PROVE Cardinality(locked) <= 1
            <4>1. locked = {t}
                BY <3>2 DEF CacheInv, MutexInv
            <4>2. Cardinality({t}) = 1
                BY FS_Singleton
            <4> QED BY <4>1, <4>2
        <3> QED BY <3>1, <3>2
    <2>2. pc \in [Threads -> Outside \union Checking \union Downloading
                                 \union {"find", "insert", "lock"}]
        BY DEF CacheInv, Types, PcValues
    <2> QED BY <2>1, <2>2 DEF CacheInv, Types, TypeOK
<1> QED BY <1>1, CacheAlways, PTL

(* For any number of threads, purges and restarts, what the path of the    *)
(* weights names is good or was there when the process started.            *)
THEOREM TargetSoundCorrect == Spec => []TargetSound
<1>1. CacheInv => TargetSound
    BY DEF CacheInv, TargetInv, TargetSound
<1> QED BY <1>1, CacheAlways, PTL

(* For any number of threads, none downloads what the cache has.           *)
THEOREM NoNeedlessDownloadCorrect == Spec => []NoNeedlessDownload
<1>1. CacheInv => NoNeedlessDownload
    BY DEF CacheInv, TargetInv, NoNeedlessDownload
<1> QED BY <1>1, CacheAlways, PTL

(* For any number of threads, a staging file is somebody's who downloads,  *)
(* or an earlier process's.                                                *)
THEOREM StagingClearedCorrect == Spec => []StagingCleared
<1>1. CacheInv => StagingCleared
    BY DEF CacheInv, StagingInv, StagingCleared
<1> QED BY <1>1, CacheAlways, PTL

(* For any number of threads, a handle that was returned stays good until  *)
(* somebody purges, unless the process began with a corrupt file.          *)
THEOREM HandleStaysGoodCorrect == Spec => []HandleStaysGood
<1>1. CacheInv => HandleStaysGood
    BY DEF CacheInv, TargetInv, HandleStaysGood
<1> QED BY <1>1, CacheAlways, PTL

(* For any number of threads, none makes the call of another one fail.     *)
THEOREM NoErrorAloneCorrect == Spec => []NoErrorAlone
<1>1. CacheInv => NoErrorAlone
    BY DEF CacheInv, AloneInv, NoErrorAlone
<1> QED BY <1>1, CacheAlways, PTL

=============================================================================
