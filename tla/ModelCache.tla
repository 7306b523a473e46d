----------------------------- MODULE ModelCache -----------------------------
(***************************************************************************)
(* stemsmith::model_cache (src/src/model_cache.cpp): ensure_ready called   *)
(* by several threads for one profile, purge, the fetcher it downloads     *)
(* through, and the end of the process at any point, with what it leaves   *)
(* on disk.  Profiles share nothing but the map of their mutexes.          *)
(*                                                                         *)
(* The disk is what the two paths of the profile name.  Each access to it  *)
(* is an action; rename replaces what a path names in one step, and who    *)
(* reads a file keeps reading the one it has opened.                       *)
(*                                                                         *)
(* state_for looks up and inserts in profile_states_ with no lock.  An     *)
(* insertion while another thread is in state_for is a data race, after    *)
(* which the threads need not share a mutex: `raced` records it and from   *)
(* then on lock excludes nobody.                                           *)
(*                                                                         *)
(* A definition with no comment that stands directly before the one it     *)
(* varies is a mutant of it.                                               *)
(***************************************************************************)
EXTENDS Naturals, FiniteSets

CONSTANT Threads    \* threads that call ensure_ready

VARIABLES
    target,     \* what the path of the weights names
    staging,    \* what the path with ".tmp" names
    pc,         \* program counter of ensure_ready, per thread
    locked,     \* threads that hold the profile's mutex
    inserted,   \* profile_states_ has the profile
    raced,      \* one thread inserted it while another was in state_for
    purging,    \* the files purge has yet to remove
    began,      \* history: what target named at first
    leftover,   \* history: staging was left by a process that has ended
    disturbed,  \* history: a fetch failed, or somebody purged
    valid       \* history: threads that returned a handle nobody purged since

disk == <<target, staging>>
mutexes == <<locked, inserted, raced>>
history == <<began, leftover, disturbed, valid>>
vars == <<disk, pc, mutexes, purging, history>>

(* What a file may contain: the weights of the manifest, something of      *)
(* another size or only of the right size, or a download that goes on.     *)
Fetched == {"good", "wrong_size", "corrupt"}
Contents == Fetched \union {"partial"}

Checking == {"exists", "size", "checksum", "remove"}
Downloading == {"clean", "remove_old", "open", "fetch", "verify", "drop", "rename", "discard"}
Outside == {"idle", "ok", "error"}

(* The values of the variables; the mutex has one holder.                  *)
TypeOK ==
    /\ target \in Contents \union {"absent"}
    /\ staging \in Contents \union {"absent"}
    /\ pc \in [Threads -> Outside \union Checking \union Downloading
                            \union {"find", "insert", "lock"}]
    /\ locked \in SUBSET Threads
    /\ raced \/ Cardinality(locked) <= 1
    /\ inserted \in BOOLEAN /\ raced \in BOOLEAN
    /\ purging \in SUBSET {"target", "staging"}
    /\ began \in Contents \union {"absent"}
    /\ leftover \in BOOLEAN /\ disturbed \in BOOLEAN
    /\ valid \in SUBSET Threads

Init ==
    /\ target \in Contents \union {"absent"}
    /\ staging \in {"absent", "partial"}
    /\ pc = [t \in Threads |-> "idle"]
    /\ locked = {}
    /\ inserted = FALSE /\ raced = FALSE
    /\ purging = {}
    /\ began = target
    /\ leftover = (staging # "absent")
    /\ disturbed = FALSE
    /\ valid = {}

Go(t, to) == pc' = [pc EXCEPT ![t] = to]

(* ensure_ready returns; a lock it holds goes with it.                     *)
Return(t, result) ==
    /\ Go(t, result)
    /\ locked' = locked \ {t}
    /\ valid' = IF result = "ok" THEN valid \union {t} ELSE valid
    /\ UNCHANGED <<inserted, raced, began, leftover, disturbed>>

-----------------------------------------------------------------------------
(* ensure_ready and hydrate: file_ready with no lock, then again under it  *)

Locked(t) == t \in locked

Call(t) ==
    /\ pc[t] \in Outside
    /\ Go(t, "exists")
    /\ UNCHANGED <<disk, mutexes, purging, history>>

NotReady(t) == Go(t, IF Locked(t) THEN "clean" ELSE "find")

(* A step of file_ready that ends with the file, or a failure to read it.  *)
CheckEnds(t, result) == Return(t, result) /\ UNCHANGED <<disk, purging>>

CheckGoesOn == UNCHANGED <<disk, mutexes, purging, history>>

Exists(t) ==
    /\ pc[t] = "exists"
    /\ IF target = "absent" THEN NotReady(t) ELSE Go(t, "size")
    /\ CheckGoesOn

Size(t) ==
    /\ pc[t] = "size"
    /\ \/ target = "absent" /\ CheckEnds(t, "error")
       \/ target \in {"wrong_size", "partial"} /\ NotReady(t) /\ CheckGoesOn
       \/ target \in {"good", "corrupt"} /\ Go(t, "checksum") /\ CheckGoesOn

Matches_Any(file) == file # "absent"
Matches(file) == file = "good"

Checksum(t) ==
    /\ pc[t] = "checksum"
    /\ \/ target = "absent" /\ CheckEnds(t, "error")
       \/ Matches(target) /\ CheckEnds(t, "ok")
       \/ target # "absent" /\ ~Matches(target) /\ Go(t, "remove") /\ CheckGoesOn

(* The removal of what had the wrong checksum when it was read.            *)
RemoveMismatch(t) ==
    /\ pc[t] = "remove"
    /\ target' = "absent"
    /\ NotReady(t)
    /\ UNCHANGED <<staging, mutexes, purging, history>>

-----------------------------------------------------------------------------
(* state_for and the lock                                                  *)

FindState(t) ==
    /\ pc[t] = "find"
    /\ Go(t, IF inserted THEN "lock" ELSE "insert")
    /\ UNCHANGED <<disk, mutexes, purging, history>>

InStateFor(t) == pc[t] \in {"find", "insert"}

InsertState(t) ==
    /\ pc[t] = "insert"
    /\ inserted' = TRUE
    /\ raced' = (raced \/ \E u \in Threads \ {t} : InStateFor(u))
    /\ Go(t, "lock")
    /\ UNCHANGED <<disk, locked, purging, history>>

MutexIsFree_Always == TRUE
MutexIsFree == locked = {} \/ raced

AfterLock_NoRecheck == "clean"
AfterLock == "exists"

Lock(t) ==
    /\ pc[t] = "lock"
    /\ MutexIsFree
    /\ locked' = locked \union {t}
    /\ Go(t, AfterLock)
    /\ UNCHANGED <<disk, inserted, raced, purging, history>>

-----------------------------------------------------------------------------
(* download_and_stage                                                      *)

(* A failure of the disk is possible where its path through the code is    *)
(* not that of a bad file: here, in OpenStaging, DropTarget and Rename.    *)
CreateDirectories(t) ==
    /\ pc[t] = "clean"
    /\ \/ /\ Go(t, "remove_old")
          /\ CheckGoesOn
       \/ /\ Go(t, "error")
          /\ disturbed' = TRUE
          /\ locked' = locked \ {t}
          /\ UNCHANGED <<disk, inserted, raced, purging, began, leftover, valid>>

RemoveOldStaging(t) ==
    /\ pc[t] = "remove_old"
    /\ staging' = "absent"
    /\ leftover' = FALSE
    /\ Go(t, "open")
    /\ UNCHANGED <<target, mutexes, purging, began, disturbed, valid>>

(* fetch_weights opens its destination.                                    *)
OpenStaging(t) ==
    /\ pc[t] = "open"
    /\ \/ /\ staging' = "partial"
          /\ Go(t, "fetch")
          /\ UNCHANGED disturbed
       \/ /\ Go(t, "discard")
          /\ disturbed' = TRUE
          /\ UNCHANGED staging
    /\ UNCHANGED <<target, mutexes, purging, began, leftover, valid>>

(* The rest of fetch_weights.  What it writes goes to the file it opened,  *)
(* which purge may have removed; an answer that is not the weights is a    *)
(* success for it.                                                         *)
Fetch(t) ==
    /\ pc[t] = "fetch"
    /\ \/ /\ staging' \in IF staging = "partial" THEN Fetched ELSE {staging}
          /\ Go(t, "verify")
          /\ disturbed' = (disturbed \/ staging' \in {"wrong_size", "corrupt"})
       \/ /\ Go(t, "discard")
          /\ disturbed' = TRUE
          /\ UNCHANGED staging
    /\ UNCHANGED <<target, mutexes, purging, began, leftover, valid>>

(* Size and checksum of what staging names now.                            *)
Verify(t) ==
    /\ pc[t] = "verify"
    /\ Go(t, IF Matches(staging) THEN "drop" ELSE "discard")
    /\ UNCHANGED <<disk, mutexes, purging, history>>

DropTarget(t) ==
    /\ pc[t] = "drop"
    /\ \/ /\ target' = "absent"
          /\ Go(t, "rename")
          /\ UNCHANGED disturbed
       \/ /\ Go(t, "discard")
          /\ disturbed' = TRUE
          /\ UNCHANGED target
    /\ UNCHANGED <<staging, mutexes, purging, began, leftover, valid>>

Rename(t) ==
    /\ pc[t] = "rename"
    /\ \/ /\ staging # "absent"
          /\ target' = staging
          /\ staging' = "absent"
          /\ Return(t, "ok")
       \/ /\ Go(t, "discard")
          /\ disturbed' = (disturbed \/ staging # "absent")
          /\ UNCHANGED <<disk, mutexes, began, leftover, valid>>
    /\ UNCHANGED purging

Discards_Nothing(file) == file
Discards(file) == "absent"

(* Every failure after the staging file was opened removes it.             *)
DiscardStaging(t) ==
    /\ pc[t] = "discard"
    /\ staging' = Discards(staging)
    /\ Return(t, "error")
    /\ UNCHANGED <<target, purging>>

-----------------------------------------------------------------------------
(* purge and purge_all, which take no lock, and the end of the process     *)

BeginPurge ==
    /\ purging = {}
    /\ purging' = {"target", "staging"}
    /\ disturbed' = TRUE
    /\ valid' = {}
    /\ UNCHANGED <<disk, pc, mutexes, began, leftover>>

PurgeFile(file) ==
    /\ file \in purging
    /\ purging' = purging \ {file}
    /\ valid' = {}
    /\ target' = IF file = "target" THEN "absent" ELSE target
    /\ staging' = IF file = "staging" THEN "absent" ELSE staging
    /\ UNCHANGED <<pc, mutexes, began, leftover, disturbed>>

(* Another process starts with the disk as it is.                          *)
Restart ==
    /\ pc' = [t \in Threads |-> "idle"]
    /\ locked' = {} /\ inserted' = FALSE /\ raced' = FALSE
    /\ purging' = {}
    /\ began' = target
    /\ leftover' = (staging # "absent")
    /\ disturbed' = FALSE
    /\ valid' = {}
    /\ UNCHANGED disk

-----------------------------------------------------------------------------

EnsureReadyStep(t) ==
    \/ Exists(t)
    \/ Size(t)
    \/ Checksum(t)
    \/ RemoveMismatch(t)
    \/ FindState(t)
    \/ InsertState(t)
    \/ Lock(t)
    \/ CreateDirectories(t)
    \/ RemoveOldStaging(t)
    \/ OpenStaging(t)
    \/ Fetch(t)
    \/ Verify(t)
    \/ DropTarget(t)
    \/ Rename(t)
    \/ DiscardStaging(t)

Next ==
    \/ \E t \in Threads : Call(t) \/ EnsureReadyStep(t)
    \/ BeginPurge
    \/ \E file \in purging : PurgeFile(file)
    \/ Restart

Spec == Init /\ [][Next]_vars

-----------------------------------------------------------------------------
(* Properties.  None of them says anything once threads have raced in      *)
(* state_for.                                                              *)

(* What the path of the weights names is good, or it was there when the    *)
(* process started: no download is seen half done or unchecked, whatever   *)
(* other calls, purge and earlier processes do to the staging file.        *)
TargetSound == raced \/ target \in {"absent", "good", began}

(* No download is begun or goes on while the cache has the weights.        *)
NoNeedlessDownload ==
    \A t \in Threads : pc[t] \in Downloading /\ ~raced => target # "good"

(* A staging file belongs to a call that is downloading, or to a process   *)
(* that has ended.                                                         *)
StagingCleared ==
    raced \/ staging = "absent" \/ leftover
          \/ \E t \in locked : pc[t] \in Downloading

(* A handle stays good until somebody purges: no other call removes or     *)
(* replaces the weights.  A process that began with a corrupt file is left *)
(* out: there, a call that has read that file removes what another call    *)
(* has put in its place.                                                   *)
HandleStaysGood == raced \/ began = "corrupt" \/ (valid # {} => target = "good")

(* Calls do not fail one another: where fetches and the disk work and      *)
(* nobody purges, every call returns the weights.  A process that began    *)
(* with a bad file is left out: there, a call may find it gone between two *)
(* steps of file_ready.                                                    *)
NoErrorAlone ==
    raced \/ disturbed \/ began \notin {"absent", "good"}
          \/ \A t \in Threads : pc[t] # "error"

=============================================================================
