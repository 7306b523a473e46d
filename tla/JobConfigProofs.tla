-------------------------- MODULE JobConfigProofs --------------------------
(* Proofs about JobConfig for any lists of stems, any base templates and   *)
(* any number of jobs.                                                     *)
EXTENDS JobConfig, SequenceTheorems, TLAPS

-----------------------------------------------------------------------------
(* The operators                                                           *)

(* What was taken before m was taken before any later n.                   *)
LEMMA LaterIds ==
    ASSUME NEW m \in Nat, NEW n \in Nat, m <= n, NEW id \in 1 .. m - 1
    PROVE  id \in 1 .. n - 1
<1> QED OBVIOUS

(* The domain of a sequence ends at its length.                            *)
LEMMA DomainOfSeq ==
    ASSUME NEW S, NEW s \in Seq(S), NEW i \in DOMAIN s
    PROVE  i \in 1 .. Len(s)
<1> QED OBVIOUS

(* The two profiles and their stems.                                       *)
LEMMA StemsType ==
    ASSUME NEW p \in Profiles
    PROVE  /\ stems[p] \in Seq(AllStems)
           /\ stems[p] # <<>>
           /\ ToSet(stems[p]) \subseteq AllStems
<1> USE DEF stems, Profiles, AllStems, ToSet
<1>1. CASE p = "balanced-four-stem"
    BY <1>1
<1>2. CASE p = "balanced-six-stem"
    BY <1>2
<1> QED BY <1>1, <1>2

(* A list that is checked against a profile has stems only.                *)
LEMMA AllInType ==
    ASSUME NEW p \in Profiles, NEW list \in StemLists, AllIn(list, p)
    PROVE  list \in Seq(AllStems)
<1>1. list \in Seq(STRING)
    BY JobConfigAssumption
<1>2. \A i \in DOMAIN list : list[i] \in AllStems
    BY <1>1, StemsType DEF AllIn, stem_in_profile, ToSet
<1> QED BY <1>1, <1>2

(* What a filter, or none, makes the model return: resolve_stem_indices    *)
(* fails exactly for a stem the profile lacks, and else picks the outputs  *)
(* that resolved_stems announces.                                          *)
LEMMA ResolvedAsAnnounced ==
    ASSUME NEW t \in Templates
    PROVE  LET indices == resolve_stem_indices(t.profile, t.stems_filter) IN
           /\ AllIn(t.stems_filter, t.profile) <=> indices # Error
           /\ indices # Error =>
                {stems[t.profile][i] : i \in ToSet(indices)} = ToSet(resolved_stems(t))
<1> DEFINE p == t.profile
           list == t.stems_filter
           indices == resolve_stem_indices(p, list)
<1>1. /\ p \in Profiles /\ list \in StemLists /\ list \in Seq(STRING)
      /\ stems[p] \in Seq(AllStems)
    BY JobConfigAssumption, StemsType DEF Templates
<1>2. CASE list = <<>>
    <2>1. AllIn(list, p)
        BY <1>2 DEF AllIn, ToSet
    <2>2. indices = [i \in DOMAIN stems[p] |-> i]
        BY <1>2 DEF resolve_stem_indices
    <2>3. indices \in Seq(Nat)
        BY <1>1, <2>2
    <2>4. ToSet(indices) = DOMAIN stems[p]
        BY <1>1, <2>2 DEF ToSet
    <2>5. {stems[p][i] : i \in ToSet(indices)} = ToSet(stems[p])
        BY <2>4 DEF ToSet
    <2>6. resolved_stems(t) = stems[p]
        BY <1>2 DEF resolved_stems
    <2> QED BY <2>1, <2>3, <2>5, <2>6, JobConfigAssumption
<1>3. CASE list # <<>> /\ ~AllIn(list, p)
    <2>1. indices = Error
        BY <1>3 DEF resolve_stem_indices
    <2> QED BY <1>3, <2>1
<1>4. CASE list # <<>> /\ AllIn(list, p)
    <2>1. indices = [i \in DOMAIN list |-> IndexOf(list[i], p)]
        BY <1>4 DEF resolve_stem_indices
    <2>2. ASSUME NEW i \in DOMAIN list
          PROVE  IndexOf(list[i], p) \in DOMAIN stems[p] /\ stems[p][IndexOf(list[i], p)] = list[i]
        <3>1. \E k \in DOMAIN stems[p] : stems[p][k] = list[i]
            BY <1>4 DEF AllIn, stem_in_profile, ToSet
        <3> QED BY <3>1 DEF IndexOf
    <2>3. indices \in Seq(Nat)
        <3>1. \A i \in DOMAIN list : IndexOf(list[i], p) \in Nat
            BY <1>1, <2>2
        <3> QED BY <1>1, <2>1, <3>1
    <2>4. {stems[p][i] : i \in ToSet(indices)} = ToSet(list)
        <3>1. DOMAIN indices = DOMAIN list
            BY <2>1
        <3>2. \A i \in DOMAIN list : indices[i] = IndexOf(list[i], p)
            BY <2>1
        <3> HIDE DEF indices
        <3> QED BY <2>2, <3>1, <3>2 DEF ToSet
    <2>5. resolved_stems(t) = list
        BY <1>4 DEF resolved_stems
    <2> QED BY <1>4, <2>3, <2>4, <2>5, JobConfigAssumption
<1> QED BY <1>2, <1>3, <1>4

(* from_json_string and the request that POST makes of its template.       *)
LEMMA PostRequestType ==
    ASSUME NEW doc \in Documents, PostRequest(doc) # Error
    PROVE  /\ PostRequest(doc) \in Requests
           /\ AskedBy(doc) \in Seq(AllStems)
           /\ PostRequest(doc).profile # Absent
           /\ AskedBy(doc) = IF PostRequest(doc).stems = Absent
                             THEN stems[PostRequest(doc).profile]
                             ELSE PostRequest(doc).stems
<1> DEFINE profile == IF doc.model = Absent THEN DefaultTemplate.profile ELSE doc.model
           list == IF doc.stems = Absent THEN <<>> ELSE doc.stems
           t == [profile |-> profile, stems_filter |-> list]
<1>1. from_json_string(doc) = t /\ profile \in Profiles /\ list # Invalid /\ AllIn(list, profile)
    BY DEF PostRequest, from_json_string
<1>2. /\ list \in StemLists
      /\ Absent \notin Profiles /\ Absent \notin StemLists
    BY <1>1, JobConfigAssumption DEF Documents
<1>3. t \in Templates /\ t # Error /\ t.profile = profile /\ t.stems_filter = list
    BY <1>1, <1>2, JobConfigAssumption DEF Templates
<1>4. PostRequest(doc) = [profile |-> profile,
                          stems |-> IF list # <<>> THEN list ELSE Absent,
                          output_subdir |-> doc.output_subdir]
    BY <1>1, <1>3 DEF PostRequest, StemsOfPost
<1>5. doc.output_subdir \in Subdirs \ {Invalid}
    BY <1>1, <1>3 DEF PostRequest, Documents
<1>6. PostRequest(doc) \in Requests
    BY <1>1, <1>2, <1>4, <1>5 DEF Requests
<1>7. AskedBy(doc) = IF list # <<>> THEN list ELSE stems[profile]
    <2>1. CASE doc.stems \notin {Absent, <<>>}
        <3>1. AskedBy(doc) = doc.stems
            BY <2>1 DEF AskedBy
        <3>2. list = doc.stems /\ doc.stems # <<>>
            BY <2>1
        <3> HIDE DEF list, profile
        <3> QED BY <3>1, <3>2
    <2>2. CASE doc.stems \in {Absent, <<>>}
        <3>1. list = <<>>
            BY <2>2
        <3>2. CASE doc.model = Absent
            BY <2>2, <3>1, <3>2 DEF AskedBy
        <3>3. CASE doc.model # Absent
            BY <2>2, <3>1, <3>3 DEF AskedBy
        <3> QED BY <3>2, <3>3
    <2> QED BY <2>1, <2>2
<1>8. AskedBy(doc) \in Seq(AllStems)
    BY <1>1, <1>2, <1>7, AllInType, StemsType
<1> HIDE DEF profile, list
<1> QED BY <1>1, <1>2, <1>4, <1>6, <1>7, <1>8

(* A template that apply_overrides returns is one, and its stems are of    *)
(* its profile unless they are the base's and the profile is not.          *)
LEMMA OverridesApplied ==
    ASSUME base \in Bases, NEW r \in Requests, apply_overrides(r) # Error
    PROVE  /\ apply_overrides(r) \in Templates
           /\ \/ AllIn(apply_overrides(r).stems_filter, apply_overrides(r).profile)
              \/ /\ r.stems = Absent /\ base.stems_filter # <<>>
                 /\ r.profile \notin {Absent, base.profile}
           /\ r.profile # Absent => apply_overrides(r).profile = r.profile
           /\ apply_overrides(r).stems_filter =
                IF r.stems = Absent THEN base.stems_filter ELSE r.stems
           /\ r.stems # Absent => r.stems \in Seq(AllStems)
<1>1. /\ base \in Templates /\ AllIn(base.stems_filter, base.profile)
      /\ base.profile \in Profiles /\ base.stems_filter \in StemLists
    BY JobConfigAssumption DEF Templates
<1>2. r.profile \in Profiles \union {Absent} /\ r.stems \in StemLists \union {Absent}
    BY DEF Requests
<1>3. \A p : AllIn(<<>>, p)
    BY DEF AllIn, ToSet
<1>4. CASE r.stems = Absent
    <2>1. apply_overrides(r) = [profile |-> IF r.profile = Absent THEN base.profile ELSE r.profile,
                                stems_filter |-> base.stems_filter]
        BY <1>4 DEF apply_overrides
    <2> QED BY <1>1, <1>2, <1>3, <1>4, <2>1 DEF Templates
<1>5. CASE r.stems # Absent
    <2> DEFINE p == IF r.profile = Absent THEN base.profile ELSE r.profile
    <2>1. apply_overrides(r) = [profile |-> p, stems_filter |-> r.stems] /\ AllIn(r.stems, p)
        BY <1>5 DEF apply_overrides, CheckedProfile
    <2>2. p \in Profiles /\ r.stems \in StemLists
        BY <1>1, <1>2, <1>5
    <2>3. r.stems \in Seq(AllStems)
        BY <2>1, <2>2, AllInType
    <2> QED BY <1>5, <2>1, <2>2, <2>3 DEF Templates
<1> QED BY <1>4, <1>5

-----------------------------------------------------------------------------
(* Type correctness                                                        *)

Jobs == [template : Templates, request : Requests, asked : Seq(AllStems),
         epoch : 0 .. 1, dir : Directories,
         status : {"queued", "completed", "unknown stem"}]

(* What is known of a job that was accepted: whose directory it has, that  *)
(* its template is a good one or excused, and that it has the stems that   *)
(* were asked for.                                                         *)
Named(job) == job.request.output_subdir # Absent

Excused(job, b) ==
    /\ job.request.stems = Absent
    /\ job.request.profile \notin {Absent, b.profile}
    /\ b.stems_filter # <<>>

GoodJob(job, h, b) ==
    /\ job \in Jobs
    /\ AllIn(job.template.stems_filter, job.template.profile) \/ Excused(job, b)
    /\ job.asked # <<>> => ToSet(job.asked) = ToSet(resolved_stems(job.template))
    /\ h /\ ~Named(job) => \E id \in 1 .. MaxJobs : job.dir = UploadDir(id)

(* A status that changes leaves the rest of a job as it is.                *)
LEMMA StatusChanged ==
    ASSUME NEW job \in Jobs, NEW status \in {"completed", "unknown stem"}
    PROVE  LET new == [job EXCEPT !.status = status] IN
           /\ new \in Jobs /\ new.status = status
           /\ new.template = job.template /\ new.request = job.request
           /\ new.asked = job.asked /\ new.epoch = job.epoch /\ new.dir = job.dir
<1> QED BY DEF Jobs

(* The fields of a job.                                                    *)
LEMMA JobFields ==
    ASSUME NEW job \in Jobs
    PROVE  /\ job.template \in Templates /\ job.request \in Requests
           /\ job.epoch \in 0 .. 1 /\ job.dir \in Directories
           /\ job.template.profile \in Profiles /\ job.template.stems_filter \in StemLists
<1> QED BY DEF Jobs, Templates

(* A job made of an accepted request is a good one.                        *)
LEMMA AcceptedJob ==
    ASSUME base \in Bases, epoch \in 0 .. 1, NEW r \in Requests, Accepted(r),
           NEW input \in Directories, NEW asked \in Seq(AllStems),
           asked # <<>> => ToSet(asked) = ToSet(resolved_stems(apply_overrides(r))),
           http => \E id \in 1 .. MaxJobs : input = UploadDir(id)
    PROVE  GoodJob(NewJob(r, input, asked), http, base) /\ NewJob(r, input, asked).status = "queued"
<1>1. apply_overrides(r) # Error /\ r.output_subdir # Absolute
    BY DEF Accepted
<1>2. OutputDir(r, input) \in Directories /\ (r.output_subdir = Absent => OutputDir(r, input) = input)
    BY <1>1 DEF OutputDir, Requests, Subdirs, Directories
<1> DEFINE job == NewJob(r, input, asked)
<1>3. /\ job.template = apply_overrides(r) /\ job.request = r /\ job.asked = asked
      /\ job.epoch = epoch /\ job.dir = OutputDir(r, input) /\ job.status = "queued"
    BY DEF NewJob
<1>4. job \in Jobs
    BY <1>1, <1>2, OverridesApplied DEF NewJob, Jobs
<1>5. AllIn(job.template.stems_filter, job.template.profile) \/ Excused(job, base)
    BY <1>1, <1>3, OverridesApplied DEF Excused
<1> HIDE DEF job
<1>6. GoodJob(job, http, base)
    BY <1>2, <1>3, <1>4, <1>5 DEF GoodJob, Named
<1> QED BY <1>3, <1>6 DEF job

-----------------------------------------------------------------------------
(* The inductive invariant                                                 *)

Unnamed(j) == jobs[j].request.output_subdir = Absent

Written(j) == ToSet(resolved_stems(jobs[j].template))

ConfigTypes ==
    /\ http \in BOOLEAN /\ base \in Bases
    /\ http => base = DefaultTemplate
    /\ next_id \in 1 .. MaxJobs + 1 /\ epoch \in 0 .. 1
    /\ jobs \in Seq(Jobs)
    /\ files \subseteq [dir : Directories, stem : AllStems, job : DOMAIN jobs]

JobsInv ==
    \A j \in DOMAIN jobs :
        /\ GoodJob(jobs[j], http, base)
        /\ jobs[j].epoch <= epoch
        /\ jobs[j].status = "unknown stem" => Excused(jobs[j], base)

(* Jobs of one process that name no directory have directories of their    *)
(* own, since each has an id of its own.                                   *)
IdsInv ==
    http => \A j \in DOMAIN jobs : Unnamed(j) /\ jobs[j].epoch = epoch =>
        /\ \E id \in 1 .. next_id - 1 : jobs[j].dir = UploadDir(id)

ApartInv ==
    http => \A j, k \in DOMAIN jobs :
        j # k /\ Unnamed(j) /\ Unnamed(k) /\ jobs[j].epoch = jobs[k].epoch
            => jobs[j].dir # jobs[k].dir

(* A file is where its job puts it and is one of those the job writes; all *)
(* that a completed job writes is in its directory, by it or by another.   *)
FilesInv ==
    /\ \A f \in files : /\ f.job \in DOMAIN jobs /\ f.dir = jobs[f.job].dir
                         /\ f.stem \in Written(f.job)
    /\ \A j \in DOMAIN jobs : jobs[j].status = "completed" =>
         \A stem \in Written(j) : \E f \in files : f.dir = jobs[j].dir /\ f.stem = stem

ConfigInv == ConfigTypes /\ JobsInv /\ IdsInv /\ ApartInv /\ FilesInv

(* There are no jobs and no files at the start.                            *)
LEMMA ConfigInit == Init => ConfigInv
<1> SUFFICES ASSUME Init PROVE ConfigInv
    OBVIOUS
<1>1. DOMAIN jobs = {} /\ jobs \in Seq(Jobs) /\ files = {}
    BY DEF Init
<1>2. http \in BOOLEAN /\ base \in Bases /\ (http => base = DefaultTemplate)
    BY DEF Init
<1>3. next_id \in 1 .. MaxJobs + 1 /\ epoch \in 0 .. 1
    BY JobConfigAssumption DEF Init
<1> QED BY <1>1, <1>2, <1>3 DEF ConfigInv, ConfigTypes, JobsInv, IdsInv, ApartInv, FilesInv

(* An accepted job is added at the end; where the service is the HTTP      *)
(* server's, a directory that is not named is that of the id just taken.   *)
LEMMA AddJob ==
    ASSUME ConfigInv, NEW job \in Jobs, jobs' = Append(jobs, job), GoodJob(job, http, base),
           job.status = "queued", job.epoch = epoch,
           http /\ ~Named(job) => job.dir = UploadDir(next_id) /\ next_id' = next_id + 1,
           next_id' \in {next_id, next_id + 1}, next_id' \in 1 .. MaxJobs + 1,
           UNCHANGED <<http, base, epoch, files>>
    PROVE  ConfigInv'
<1> USE DEF ConfigInv
<1>1. /\ jobs' \in Seq(Jobs) /\ Len(jobs) \in Nat
      /\ DOMAIN jobs = 1 .. Len(jobs) /\ DOMAIN jobs' = DOMAIN jobs \union {Len(jobs) + 1}
      /\ \A j \in DOMAIN jobs : jobs'[j] = jobs[j]
      /\ jobs'[Len(jobs) + 1] = job /\ Len(jobs) + 1 \notin DOMAIN jobs
    BY AppendProperties DEF ConfigTypes
<1> DEFINE n == Len(jobs) + 1
<1> HIDE DEF n
<1>2. /\ jobs' \in Seq(Jobs) /\ DOMAIN jobs' = DOMAIN jobs \union {n} /\ n \notin DOMAIN jobs
      /\ \A j \in DOMAIN jobs : jobs'[j] = jobs[j]
      /\ jobs'[n] = job
    BY <1>1 DEF n
<1>3. ConfigTypes'
    BY <1>2 DEF ConfigTypes
<1>4. JobsInv'
    <2> SUFFICES ASSUME NEW j \in DOMAIN jobs'
                 PROVE  /\ GoodJob(jobs'[j], http, base)
                        /\ jobs'[j].epoch <= epoch
                        /\ jobs'[j].status = "unknown stem" => Excused(jobs'[j], base)
        BY DEF JobsInv
    <2>1. CASE j = n
        <3>1. epoch <= epoch
            BY DEF ConfigTypes
        <3> QED BY <1>2, <2>1, <3>1
    <2>2. CASE j \in DOMAIN jobs
        BY <1>2, <2>2 DEF JobsInv
    <2> QED BY <1>2, <2>1, <2>2
<1>5. IdsInv'
    <2> SUFFICES ASSUME http, NEW j \in DOMAIN jobs', Unnamed(j)', jobs'[j].epoch = epoch
                 PROVE  \E id \in 1 .. next_id' - 1 : jobs'[j].dir = UploadDir(id)
        BY DEF IdsInv
    <2>1. next_id \in Nat /\ next_id' \in Nat /\ next_id <= next_id' /\ 1 <= next_id
        BY JobConfigAssumption DEF ConfigTypes
    <2>2. jobs'[j].request.output_subdir = Absent
        BY DEF Unnamed
    <2>3. CASE j = n
        <3>1. job.dir = UploadDir(next_id) /\ next_id' = next_id + 1
            BY <1>2, <2>2, <2>3 DEF Named
        <3>2. next_id \in 1 .. next_id' - 1
            BY <2>1, <3>1
        <3> QED BY <1>2, <2>3, <3>1, <3>2
    <2>4. CASE j \in DOMAIN jobs
        <3>1. Unnamed(j) /\ jobs[j].epoch = epoch
            BY <1>2, <2>2, <2>4 DEF Unnamed
        <3>2. PICK id \in 1 .. next_id - 1 : jobs[j].dir = UploadDir(id)
            BY <2>4, <3>1 DEF IdsInv
        <3>3. id \in 1 .. next_id' - 1
            BY <2>1, <3>2, LaterIds, Zenon
        <3> QED BY <1>2, <2>4, <3>2, <3>3
    <2> QED BY <1>2, <2>3, <2>4
<1>6. ApartInv'
    <2>1. \A j \in DOMAIN jobs : http /\ Unnamed(j) /\ ~Named(job) /\ jobs[j].epoch = epoch
            => jobs[j].dir # job.dir
        BY DEF IdsInv, ConfigTypes, UploadDir
    <2> QED BY <1>2, <2>1 DEF ApartInv, Unnamed, Named
<1>7. FilesInv'
    <2>1. \A j \in DOMAIN jobs : Written(j)' = Written(j)
        BY <1>2 DEF Written
    <2> QED BY <1>2, <2>1 DEF FilesInv
<1> QED BY <1>3, <1>4, <1>5, <1>6, <1>7

(* A POST takes an id of its own, and so a directory of its own.           *)
LEMMA PostStep ==
    ASSUME ConfigInv, NEW doc \in Documents, Post(doc)
    PROVE  ConfigInv'
<1> DEFINE r == PostRequest(doc)
           job == NewJob(r, UploadDir(next_id), AskedBy(doc))
<1>1. /\ http /\ r # Error /\ next_id <= MaxJobs /\ next_id' = next_id + 1
      /\ UNCHANGED <<http, base, epoch, files>>
    BY DEF Post, NextId
<1>2. next_id \in 1 .. MaxJobs /\ next_id' \in 1 .. MaxJobs + 1 /\ epoch \in 0 .. 1
    BY <1>1, JobConfigAssumption DEF ConfigInv, ConfigTypes
<1>3. base = DefaultTemplate /\ base \in Bases
    BY <1>1 DEF ConfigInv, ConfigTypes
<1>4. CASE Accepted(r)
    <2>1. jobs' = Append(jobs, job)
        BY <1>4 DEF Post
    <2>2. /\ apply_overrides(r).profile = r.profile
          /\ apply_overrides(r).stems_filter = IF r.stems = Absent THEN <<>> ELSE r.stems
        BY <1>1, <1>3, <1>4, PostRequestType, OverridesApplied DEF Accepted, DefaultTemplate
    <2>3. AskedBy(doc) # <<>> =>
            ToSet(AskedBy(doc)) = ToSet(resolved_stems(apply_overrides(r)))
        BY <1>1, <2>2, PostRequestType DEF resolved_stems
    <2>4. UploadDir(next_id) \in Directories
        BY <1>2 DEF Directories
    <2>5. GoodJob(job, http, base) /\ job.status = "queued"
        BY <1>1, <1>2, <1>3, <1>4, <2>3, <2>4, PostRequestType, AcceptedJob
    <2>6. /\ job \in Jobs /\ job.epoch = epoch
          /\ ~Named(job) => job.dir = UploadDir(next_id)
        BY <2>5 DEF GoodJob, NewJob, Named, OutputDir
    <2> HIDE DEF job, r
    <2> QED BY <1>1, <1>2, <2>1, <2>5, <2>6, AddJob
<1>5. CASE ~Accepted(r)
    <2>1. UNCHANGED jobs
        BY <1>5 DEF Post
    <2>2. \A id \in 1 .. next_id - 1 : id \in 1 .. next_id' - 1
        BY <1>1, <1>2
    <2>3. ConfigTypes' /\ JobsInv'
        BY <1>1, <1>2, <2>1 DEF ConfigInv, ConfigTypes, JobsInv
    <2>4. IdsInv'
        BY <1>1, <2>1, <2>2 DEF ConfigInv, IdsInv, Unnamed
    <2>5. ApartInv' /\ FilesInv'
        BY <1>1, <2>1 DEF ConfigInv, ApartInv, FilesInv, Unnamed, Written
    <2> QED BY <2>3, <2>4, <2>5 DEF ConfigInv
<1> QED BY <1>4, <1>5

(* A submission in the library adds a good job.                            *)
LEMMA SubmitStep ==
    ASSUME ConfigInv, NEW r \in Requests, Submit(r)
    PROVE  ConfigInv'
<1> DEFINE asked == IF r.stems = Absent THEN <<>> ELSE r.stems
<1>1. PICK n \in 1 .. 2 : jobs' = Append(jobs, NewJob(r, InputDir(n), asked))
    BY DEF Submit
<1>2. ~http /\ Accepted(r) /\ UNCHANGED <<http, base, next_id, epoch, files>>
    BY DEF Submit
<1>3. /\ base \in Bases /\ epoch \in 0 .. 1 /\ next_id \in 1 .. MaxJobs + 1
    BY DEF ConfigInv, ConfigTypes
<1>4. asked \in Seq(AllStems)
    BY <1>2, <1>3, OverridesApplied DEF Accepted
<1>5. asked # <<>> => ToSet(asked) = ToSet(resolved_stems(apply_overrides(r)))
    BY <1>2, <1>3, OverridesApplied DEF Accepted, resolved_stems
<1>6. InputDir(n) \in Directories
    BY DEF Directories
<1> DEFINE job == NewJob(r, InputDir(n), asked)
<1>7. GoodJob(job, http, base) /\ job.status = "queued"
    BY <1>2, <1>3, <1>4, <1>5, <1>6, AcceptedJob
<1>8. job \in Jobs /\ job.epoch = epoch
    BY <1>7 DEF GoodJob, NewJob
<1> HIDE DEF job
<1> QED BY <1>1, <1>2, <1>3, <1>7, <1>8, AddJob DEF job

(* A run writes the files of its job's stems, or refuses an unknown stem.  *)
LEMMA RunStep ==
    ASSUME ConfigInv, NEW j \in DOMAIN jobs, Run(j)
    PROVE  ConfigInv'
<1> DEFINE t == jobs[j].template
           indices == resolve_stem_indices(t.profile, t.stems_filter)
<1>0. /\ jobs \in Seq(Jobs) /\ UNCHANGED <<http, base, next_id, epoch>>
      /\ jobs[j].status = "queued"
    BY DEF ConfigInv, ConfigTypes, Run
<1>1. \A k \in DOMAIN jobs : jobs[k] \in Jobs
    BY <1>0
<1>2. PICK status \in {"completed", "unknown stem"} :
        /\ jobs' = [jobs EXCEPT ![j].status = status]
        /\ status = "unknown stem" <=> indices = Error
    <2>1. CASE indices = Error
        <3>1. jobs' = [jobs EXCEPT ![j].status = "unknown stem"]
            BY <2>1 DEF Run
        <3> QED BY <2>1, <3>1
    <2>2. CASE indices # Error
        <3>1. jobs' = [jobs EXCEPT ![j].status = "completed"]
            BY <2>2 DEF Run
        <3> QED BY <2>2, <3>1
    <2> QED BY <2>1, <2>2
<1>3. /\ DOMAIN jobs' = DOMAIN jobs
      /\ \A k \in DOMAIN jobs : k # j => jobs'[k] = jobs[k]
      /\ jobs'[j] = [jobs[j] EXCEPT !.status = status]
    BY <1>0, <1>2
<1>4. /\ \A k \in DOMAIN jobs :
            /\ jobs'[k].template = jobs[k].template /\ jobs'[k].request = jobs[k].request
            /\ jobs'[k].asked = jobs[k].asked /\ jobs'[k].epoch = jobs[k].epoch
            /\ jobs'[k].dir = jobs[k].dir /\ jobs'[k] \in Jobs
      /\ jobs'[j].status = status
    <2>1. ASSUME NEW k \in DOMAIN jobs, k # j
          PROVE  jobs'[k] = jobs[k] /\ jobs'[k] \in Jobs
        BY <1>1, <1>3, <2>1
    <2> DEFINE new == [jobs[j] EXCEPT !.status = status]
    <2>2. /\ new.template = jobs[j].template /\ new.request = jobs[j].request
          /\ new.asked = jobs[j].asked /\ new.epoch = jobs[j].epoch
          /\ new.dir = jobs[j].dir /\ new \in Jobs /\ new.status = status
        BY <1>1, StatusChanged
    <2>3. jobs'[j] = new
        BY <1>3
    <2> HIDE DEF new
    <2> QED BY <2>1, <2>2, <2>3
<1>5. jobs' \in Seq(Jobs)
    <2>1. j \in 1 .. Len(jobs)
        BY <1>0, DomainOfSeq, Zenon
    <2>3. [jobs[j] EXCEPT !.status = status] \in Jobs
        BY <1>3, <1>4
    <2>2. jobs' = [jobs EXCEPT ![j] = [jobs[j] EXCEPT !.status = status]]
        BY <1>2
    <2> QED BY <1>0, <2>1, <2>2, <2>3, ExceptSeq
<1>6. \A k \in DOMAIN jobs : Written(k)' = Written(k) /\ (Unnamed(k)' <=> Unnamed(k))
    BY <1>4 DEF Written, Unnamed
<1>7. /\ t \in Templates
      /\ AllIn(t.stems_filter, t.profile) <=> indices # Error
      /\ indices # Error => {stems[t.profile][i] : i \in ToSet(indices)} = Written(j)
    BY <1>1, JobFields, ResolvedAsAnnounced DEF Written
<1>8. JobsInv'
    <2> SUFFICES ASSUME NEW k \in DOMAIN jobs
                 PROVE  /\ GoodJob(jobs'[k], http, base)
                        /\ jobs'[k].epoch <= epoch
                        /\ jobs'[k].status = "unknown stem" => Excused(jobs'[k], base)
        BY <1>0, <1>3 DEF JobsInv
    <2>1. /\ GoodJob(jobs[k], http, base) /\ jobs[k].epoch <= epoch
          /\ jobs[k].status = "unknown stem" => Excused(jobs[k], base)
        BY DEF ConfigInv, JobsInv
    <2>2. GoodJob(jobs'[k], http, base)
        BY <1>4, <2>1 DEF GoodJob, Named, Excused
    <2>3. Excused(jobs'[k], base) <=> Excused(jobs[k], base)
        BY <1>4 DEF Excused
    <2>4. k = j /\ status = "unknown stem" => Excused(jobs[k], base)
        BY <1>2, <1>7, <2>1 DEF GoodJob
    <2> QED BY <1>3, <1>4, <2>1, <2>2, <2>3, <2>4
<1>9. IdsInv' /\ ApartInv'
    <2>1. UNCHANGED <<http, next_id, epoch>>
        BY <1>0
    <2>2. \A k \in DOMAIN jobs : jobs'[k].dir = jobs[k].dir /\ jobs'[k].epoch = jobs[k].epoch
        BY <1>4
    <2>3. IdsInv'
        <3> SUFFICES ASSUME http, NEW k \in DOMAIN jobs, Unnamed(k)', jobs'[k].epoch = epoch
                     PROVE  \E id \in 1 .. next_id - 1 : jobs'[k].dir = UploadDir(id)
            BY <1>3, <2>1 DEF IdsInv
        <3> QED BY <1>6, <2>2 DEF ConfigInv, IdsInv
    <2>4. ApartInv'
        <3> SUFFICES ASSUME http, NEW k \in DOMAIN jobs, NEW l \in DOMAIN jobs, k # l,
                            Unnamed(k)', Unnamed(l)', jobs'[k].epoch = jobs'[l].epoch
                     PROVE  jobs'[k].dir # jobs'[l].dir
            BY <1>3, <2>1 DEF ApartInv
        <3> QED BY <1>6, <2>2 DEF ConfigInv, ApartInv
    <2> QED BY <2>3, <2>4
<1>10. files' \subseteq [dir : Directories, stem : AllStems, job : DOMAIN jobs] /\ FilesInv'
    <2>1. CASE indices = Error
        <3>1. UNCHANGED files
            BY <2>1 DEF Run
        <3>2. jobs'[j].status # "completed"
            BY <1>2, <1>4, <2>1
        <3>3. files' \subseteq [dir : Directories, stem : AllStems, job : DOMAIN jobs]
            BY <3>1 DEF ConfigInv, ConfigTypes
        <3>4. \A f \in files' : f.job \in DOMAIN jobs' /\ f.dir = jobs'[f.job].dir
                                    /\ f.stem \in Written(f.job)'
            BY <1>3, <1>4, <1>6, <3>1 DEF ConfigInv, FilesInv
        <3>5. \A k \in DOMAIN jobs' : jobs'[k].status = "completed" =>
                \A stem \in Written(k)' : \E f \in files' : f.dir = jobs'[k].dir /\ f.stem = stem
            <4> SUFFICES ASSUME NEW k \in DOMAIN jobs', jobs'[k].status = "completed",
                                NEW stem \in Written(k)'
                         PROVE  \E f \in files' : f.dir = jobs'[k].dir /\ f.stem = stem
                OBVIOUS
            <4>1. k \in DOMAIN jobs /\ stem \in Written(k) /\ jobs'[k].dir = jobs[k].dir
                BY <1>3, <1>4, <1>6
            <4>2. k # j /\ jobs[k].status = "completed"
                BY <1>3, <3>2, <4>1
            <4>3. \E f \in files : f.dir = jobs[k].dir /\ f.stem = stem
                BY <4>1, <4>2 DEF ConfigInv, FilesInv
            <4> QED BY <3>1, <4>1, <4>3
        <3> QED BY <3>3, <3>4, <3>5 DEF FilesInv
    <2>2. CASE indices # Error
        <3> DEFINE kept == {f \in files : f.dir # jobs[j].dir \/ f.stem \notin Written(j)}
                   new == [dir : {jobs[j].dir}, stem : Written(j), job : {j}]
        <3>1. files' = kept \union new
            <4>1. {stems[t.profile][i] : i \in ToSet(indices)} = Written(j)
                BY <1>7, <2>2
            <4> QED BY <2>2, <4>1 DEF Run
        <3>2. jobs[j].dir \in Directories
            BY <1>1, JobFields
        <3>3. Written(j) \subseteq AllStems
            <4>1. AllIn(t.stems_filter, t.profile) /\ t.profile \in Profiles
                BY <1>1, <1>7, <2>2, JobFields
            <4> QED BY <4>1, StemsType DEF Written, resolved_stems, AllIn, stem_in_profile
        <3>4. \A f \in new : f.dir = jobs[j].dir /\ f.stem \in Written(j) /\ f.job = j
            OBVIOUS
        <3>5. \A stem \in Written(j) : \E f \in new : f.dir = jobs[j].dir /\ f.stem = stem
            <4> TAKE stem \in Written(j)
            <4> WITNESS [dir |-> jobs[j].dir, stem |-> stem, job |-> j] \in new
            <4> QED OBVIOUS
        <3>6. new \subseteq [dir : Directories, stem : AllStems, job : DOMAIN jobs]
            BY <3>2, <3>3
        <3>7. files \subseteq [dir : Directories, stem : AllStems, job : DOMAIN jobs]
            BY DEF ConfigInv, ConfigTypes
        <3>8. \A k \in DOMAIN jobs : jobs'[k].status = "completed" =>
                \A stem \in Written(k) : \E f \in files' : f.dir = jobs[k].dir /\ f.stem = stem
            <4> SUFFICES ASSUME NEW k \in DOMAIN jobs, jobs'[k].status = "completed",
                                NEW stem \in Written(k)
                         PROVE  \E f \in kept \union new : f.dir = jobs[k].dir /\ f.stem = stem
                BY <3>1
            <4>1. CASE jobs[k].dir = jobs[j].dir /\ stem \in Written(j)
                BY <3>5, <4>1
            <4>2. CASE ~(jobs[k].dir = jobs[j].dir /\ stem \in Written(j))
                <5>1. k # j /\ jobs[k].status = "completed"
                    BY <1>3, <3>2, <4>2
                <5>2. PICK f \in files : f.dir = jobs[k].dir /\ f.stem = stem
                    BY <5>1 DEF ConfigInv, FilesInv
                <5>3. f \in kept
                    BY <4>2, <5>2
                <5> QED BY <5>2, <5>3
            <4> QED BY <4>1, <4>2
        <3> HIDE DEF new
        <3>9. \A f \in files' : /\ f.job \in DOMAIN jobs /\ f.dir = jobs[f.job].dir
                                 /\ f.stem \in Written(f.job)
            BY <3>1, <3>4 DEF ConfigInv, FilesInv
        <3>10. files' \subseteq [dir : Directories, stem : AllStems, job : DOMAIN jobs]
            BY <3>1, <3>6, <3>7
        <3> HIDE DEF kept
        <3>11. \A f \in files' : f.job \in DOMAIN jobs' /\ f.dir = jobs'[f.job].dir
                                     /\ f.stem \in Written(f.job)'
            BY <1>3, <1>4, <1>6, <3>9
        <3>12. \A k \in DOMAIN jobs' : jobs'[k].status = "completed" =>
                \A stem \in Written(k)' : \E f \in files' : f.dir = jobs'[k].dir /\ f.stem = stem
            <4> SUFFICES ASSUME NEW k \in DOMAIN jobs', jobs'[k].status = "completed",
                                NEW stem \in Written(k)'
                         PROVE  \E f \in files' : f.dir = jobs'[k].dir /\ f.stem = stem
                OBVIOUS
            <4>1. k \in DOMAIN jobs /\ stem \in Written(k) /\ jobs'[k].dir = jobs[k].dir
                BY <1>3, <1>4, <1>6
            <4> QED BY <3>8, <4>1
        <3> QED BY <3>10, <3>11, <3>12 DEF FilesInv
    <2> QED BY <2>1, <2>2
<1>11. ConfigTypes'
    BY <1>0, <1>3, <1>5, <1>10 DEF ConfigInv, ConfigTypes
<1> QED BY <1>8, <1>9, <1>10, <1>11 DEF ConfigInv

(* A restart starts a new epoch, of which there are no jobs yet.           *)
LEMMA RestartStep == ConfigInv /\ Restart => ConfigInv'
<1> SUFFICES ASSUME ConfigInv, Restart PROVE ConfigInv'
    OBVIOUS
<1>1. /\ epoch = 0 /\ epoch' = 1 /\ next_id' = 1 /\ UNCHANGED <<http, base, jobs, files>>
    BY DEF Restart
<1>2. \A j \in DOMAIN jobs : jobs[j].epoch = 0
    <2> SUFFICES ASSUME NEW j \in DOMAIN jobs PROVE jobs[j].epoch = 0
        OBVIOUS
    <2>1. jobs[j] \in Jobs
        BY DEF ConfigInv, ConfigTypes
    <2>2. jobs[j].epoch \in 0 .. 1 /\ jobs[j].epoch <= 0
        BY <1>1, <2>1, JobFields DEF ConfigInv, JobsInv
    <2> QED BY <2>2
<1>3. ConfigTypes'
    BY <1>1, JobConfigAssumption DEF ConfigInv, ConfigTypes
<1>4. JobsInv'
    <2>1. \A j \in DOMAIN jobs : jobs[j].epoch <= epoch'
        BY <1>1, <1>2
    <2> QED BY <1>1, <2>1 DEF ConfigInv, JobsInv
<1>5. IdsInv'
    <2>1. \A j \in DOMAIN jobs : jobs[j].epoch # epoch'
        BY <1>1, <1>2
    <2> QED BY <1>1, <2>1 DEF IdsInv
<1>6. ApartInv' /\ FilesInv'
    BY <1>1 DEF ConfigInv, ApartInv, FilesInv, Unnamed, Written
<1> QED BY <1>3, <1>4, <1>5, <1>6 DEF ConfigInv

(* ConfigInv is inductive.                                                 *)
LEMMA ConfigNext == ConfigInv /\ [Next]_vars => ConfigInv'
<1> SUFFICES ASSUME ConfigInv, [Next]_vars PROVE ConfigInv'
    OBVIOUS
<1>1. CASE UNCHANGED vars
    BY <1>1 DEF vars, ConfigInv, ConfigTypes, JobsInv, IdsInv, ApartInv,
                FilesInv, Unnamed, Written
<1> QED BY <1>1, PostStep, SubmitStep, RunStep, RestartStep DEF Next

(* ConfigInv holds in every state of every behaviour.                      *)
LEMMA ConfigAlways == Spec => []ConfigInv
<1> QED BY ConfigInit, ConfigNext, PTL DEF Spec

-----------------------------------------------------------------------------
(* The theorems                                                            *)

(* Every variable keeps its type, for any lists, bases and number of jobs. *)
THEOREM ConfigTypeCorrect == Spec => []TypeOK
<1>1. ConfigInv => TypeOK
    BY DEF ConfigInv, ConfigTypes, TypeOK, Jobs
<1> QED BY <1>1, ConfigAlways, PTL

(* No accepted job fails for its stems, except for a base template's own   *)
(* filter under another profile.                                           *)
THEOREM RunsAsConfiguredCorrect == Spec => []RunsAsConfigured
<1>1. ConfigInv => RunsAsConfigured
    BY DEF ConfigInv, JobsInv, Excused, RunsAsConfigured
<1> QED BY <1>1, ConfigAlways, PTL

(* A download has exactly what was asked for, all of it by its own job, as *)
(* long as no other job's directory is in that of the job for one of the   *)
(* reasons that Shared names.                                              *)
THEOREM DownloadCorrect == Spec => []DownloadAsAsked
<1>1. ASSUME ConfigInv, NEW j \in DOMAIN jobs, jobs[j].status = "completed", ~Shared(j)
      PROVE  {<<f.stem, f.job>> : f \in make_zip(j)} = ToSet(Asked(j)) \X {j}
    <2>1. GoodJob(jobs[j], http, base) /\ jobs[j] \in Jobs
        BY <1>1 DEF ConfigInv, JobsInv, GoodJob
    <2>2. ToSet(Asked(j)) = Written(j)
        BY <2>1 DEF Asked, Written, GoodJob
    <2>3. ASSUME NEW k \in DOMAIN jobs, k # j, Within(jobs[j].dir, jobs[k].dir) PROVE FALSE
        <3>1. http /\ jobs[j].epoch = jobs[k].epoch /\ Unnamed(j) /\ Unnamed(k)
            BY <1>1, <2>3 DEF Shared, Unnamed
        <3>2. jobs[j].dir # jobs[k].dir
            BY <1>1, <2>3, <3>1 DEF ConfigInv, ApartInv
        <3>3. jobs[j].dir # Root
            BY <2>1, <3>1 DEF GoodJob, Named, Unnamed, UploadDir, Root
        <3> QED BY <2>3, <3>2, <3>3 DEF Within
    <2>4. \A f \in make_zip(j) : f.job = j /\ f.stem \in Written(j)
        BY <1>1, <2>3 DEF make_zip, ConfigInv, FilesInv
    <2>5. \A stem \in Written(j) : \E f \in make_zip(j) : f.stem = stem
        BY <1>1 DEF make_zip, Within, ConfigInv, FilesInv
    <2>6. {<<f.stem, f.job>> : f \in make_zip(j)} \subseteq Written(j) \X {j}
        BY <2>4
    <2>7. Written(j) \X {j} \subseteq {<<f.stem, f.job>> : f \in make_zip(j)}
        <3> SUFFICES ASSUME NEW stem \in Written(j)
                     PROVE  <<stem, j>> \in {<<f.stem, f.job>> : f \in make_zip(j)}
            OBVIOUS
        <3> QED BY <2>4, <2>5
    <2> QED BY <2>2, <2>6, <2>7
<1>2. ConfigInv => DownloadAsAsked
    BY <1>1 DEF DownloadAsAsked
<1> QED BY <1>2, ConfigAlways, PTL

=============================================================================
