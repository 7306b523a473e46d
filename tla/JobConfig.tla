----------------------------- MODULE JobConfig -----------------------------
(***************************************************************************)
(* What becomes of the configuration of a job, from the config part of a   *)
(* POST or the job_request of a library call to the files a client may     *)
(* download: job_template (src/src/job_config.cpp), the rest of            *)
(* handle_post_job (src/src/http/server.cpp), the checks of                *)
(* job_runner::submit, job_catalog::apply_overrides, the stems             *)
(* model_session resolves, the directory separation_engine writes them to  *)
(* and make_zip.                                                           *)
(*                                                                         *)
(* Each of submit and process is a step: how their steps interleave is the *)
(* subject of JobRunner and SeparationEngine.  A job that fails for any    *)
(* reason but its configuration is left to SeparationEngine too.           *)
(*                                                                         *)
(* A definition with no comment that stands directly before the one it     *)
(* varies is a mutant of it.                                               *)
(***************************************************************************)
EXTENDS Integers, Sequences, SequencesExt

CONSTANTS
    StemLists,  \* the lists of stem names a client may send
    Bases,      \* the templates a program may create a service with
    MaxJobs,    \* how many jobs are submitted
    Absent,     \* a field that is not there, or std::nullopt
    Invalid,    \* a value of another type than the field's
    Error       \* std::unexpected

Profiles == {"balanced-four-stem", "balanced-six-stem"}

stems == [p \in Profiles |->
    IF p = "balanced-four-stem"
    THEN <<"drums", "bass", "other", "vocals">>
    ELSE <<"drums", "bass", "other", "vocals", "piano", "guitar">>]

Templates == [profile : Profiles, stems_filter : StemLists]

stem_in_profile(stem, profile) == stem \in ToSet(stems[profile])

AllIn(list, profile) == \A stem \in ToSet(list) : stem_in_profile(stem, profile)

(* The default of job_template, which the HTTP server's service has.       *)
DefaultTemplate == [profile |-> "balanced-six-stem", stems_filter |-> <<>>]

(* A template is what from_json_string returns.                            *)
ASSUME JobConfigAssumption ==
    /\ StemLists \subseteq Seq(STRING) /\ <<>> \in StemLists
    /\ Bases \subseteq Templates /\ DefaultTemplate \in Bases
    /\ \A b \in Bases : AllIn(b.stems_filter, b.profile)
    /\ MaxJobs \in Nat
    /\ Absent \notin Profiles \union StemLists /\ Invalid \notin StemLists
    /\ Error \notin Templates \union Seq(Nat)

VARIABLES
    http,       \* the service is the HTTP server's
    base,       \* base_config_ of the catalog
    next_id,    \* next_id_ of the registry
    epoch,      \* how many processes there were before this one
    jobs,       \* the jobs accepted by any of them
    files       \* the stems on disk, with the job that wrote each

vars == <<http, base, next_id, epoch, jobs, files>>

-----------------------------------------------------------------------------
(* The config part of a POST                                               *)

(* Directories under the output root: the root itself, which is what the   *)
(* empty string names, one a client names, and one for each name of an     *)
(* input file, of which an upload's begins with its id.                    *)
Root == <<"root", 0>>
Mix == <<"mix", 0>>
UploadDir(id) == <<"upload", id>>
InputDir(n) == <<"input", n>>

Absolute == <<"absolute", 0>>
Subdirs == {Absent, Invalid, Root, Mix, Absolute}

Documents ==
    [model : Profiles \union {Absent, Invalid, "unknown"},
     stems : StemLists \union {Absent, Invalid},
     output_subdir : Subdirs]

(* job_template::from_json_string of an object, by its two fields.         *)
from_json_string(doc) ==
    LET profile == IF doc.model = Absent THEN DefaultTemplate.profile ELSE doc.model
        list == IF doc.stems = Absent THEN <<>> ELSE doc.stems
    IN  IF profile \in Profiles /\ list # Invalid /\ AllIn(list, profile)
        THEN [profile |-> profile, stems_filter |-> list]
        ELSE Error

StemsOfPost(template) == IF template.stems_filter # <<>> THEN template.stems_filter ELSE Absent

(* The job_request a POST makes of its document.                           *)
PostRequest(doc) ==
    LET template == from_json_string(doc) IN
    IF template = Error \/ doc.output_subdir = Invalid
    THEN Error
    ELSE [profile |-> template.profile, stems |-> StemsOfPost(template),
          output_subdir |-> doc.output_subdir]

-----------------------------------------------------------------------------
(* job_runner::submit and job_catalog                                      *)

Requests ==
    [profile : Profiles \union {Absent}, stems : StemLists \union {Absent},
     output_subdir : Subdirs \ {Invalid}]

CheckedProfile_Base(request) == base.profile
CheckedProfile(request) == IF request.profile = Absent THEN base.profile ELSE request.profile

(* The base template's own filter is not looked at again.                  *)
apply_overrides(request) ==
    LET profile == IF request.profile = Absent THEN base.profile ELSE request.profile IN
    IF request.stems = Absent
    THEN [profile |-> profile, stems_filter |-> base.stems_filter]
    ELSE IF AllIn(request.stems, CheckedProfile(request))
         THEN [profile |-> profile, stems_filter |-> request.stems]
         ELSE Error

(* What the request names, or else the input's name.                       *)
OutputDir(request, input) == IF request.output_subdir = Absent THEN input ELSE request.output_subdir

Accepted_AnyPath(request) == apply_overrides(request) # Error
Accepted(request) == request.output_subdir # Absolute /\ apply_overrides(request) # Error

NewJob(request, input, asked) ==
    [template |-> apply_overrides(request), request |-> request, asked |-> asked,
     epoch |-> epoch, dir |-> OutputDir(request, input), status |-> "queued"]

-----------------------------------------------------------------------------
(* What the engine makes of the template                                   *)

IndexOf(stem, profile) == CHOOSE i \in DOMAIN stems[profile] : stems[profile][i] = stem

(* Indices into the outputs of the model, which are in the profile's order.*)
resolve_stem_indices(profile, list) ==
    CASE list = <<>> -> [i \in DOMAIN stems[profile] |-> i]
      [] list # <<>> /\ AllIn(list, profile) -> [i \in DOMAIN list |-> IndexOf(list[i], profile)]
      [] OTHER -> Error

(* job_template::resolved_stems                                            *)
resolved_stems(template) ==
    IF template.stems_filter # <<>> THEN template.stems_filter ELSE stems[template.profile]

-----------------------------------------------------------------------------

Init ==
    /\ base \in Bases
    /\ http \in (IF base = DefaultTemplate THEN BOOLEAN ELSE {FALSE})
    /\ next_id = 1 /\ epoch = 0
    /\ jobs = <<>> /\ files = {}

NextId_Kept == next_id
NextId == next_id + 1

(* The stems a document asks for.                                          *)
AskedBy(doc) ==
    IF doc.stems \notin {Absent, <<>>} THEN doc.stems
    ELSE IF doc.model = Absent THEN stems[DefaultTemplate.profile]
    ELSE stems[doc.model]

(* A POST that passes validation takes an id, whether or not submit then   *)
(* refuses the job.                                                        *)
Post(doc) ==
    /\ http /\ Len(jobs) < MaxJobs /\ next_id <= MaxJobs
    /\ LET request == PostRequest(doc) IN
       /\ request # Error
       /\ jobs' = IF Accepted(request)
                  THEN Append(jobs, NewJob(request, UploadDir(next_id), AskedBy(doc)))
                  ELSE jobs
    /\ next_id' = NextId
    /\ UNCHANGED <<http, base, epoch, files>>

(* A call of service::submit by a program; two of its inputs may have the  *)
(* same name in different directories.                                     *)
Submit(request) ==
    /\ ~http /\ Len(jobs) < MaxJobs
    /\ Accepted(request)
    /\ \E n \in 1 .. 2 :
         jobs' = Append(jobs, NewJob(request, InputDir(n),
                                IF request.stems = Absent THEN <<>> ELSE request.stems))
    /\ UNCHANGED <<http, base, next_id, epoch, files>>

(* separation_engine::process                                              *)
Run(j) ==
    /\ jobs[j].status = "queued" /\ jobs[j].epoch = epoch
    /\ LET template == jobs[j].template
           dir == jobs[j].dir
           indices == resolve_stem_indices(template.profile, template.stems_filter)
       IN  IF indices = Error
           THEN /\ jobs' = [jobs EXCEPT ![j].status = "unknown stem"]
                /\ UNCHANGED files
           ELSE LET written == {stems[template.profile][i] : i \in ToSet(indices)} IN
                /\ jobs' = [jobs EXCEPT ![j].status = "completed"]
                /\ files' = {f \in files : f.dir # dir \/ f.stem \notin written}
                                \union [dir : {dir}, stem : written, job : {j}]
    /\ UNCHANGED <<http, base, next_id, epoch>>

Within(d, e) == d = Root \/ d = e

(* The files under the directory of a job.                                 *)
make_zip(j) == {f \in files : Within(jobs[j].dir, f.dir)}

(* The process ends; the next one has an empty registry, and the disk.     *)
Restart ==
    /\ epoch = 0
    /\ epoch' = 1
    /\ next_id' = 1
    /\ UNCHANGED <<http, base, jobs, files>>

Next ==
    \/ \E doc \in Documents : Post(doc)
    \/ \E request \in Requests : Submit(request)
    \/ \E j \in DOMAIN jobs : Run(j)
    \/ Restart

Spec == Init /\ [][Next]_vars

-----------------------------------------------------------------------------
(* Properties                                                              *)

Directories == {Root, Mix} \union {UploadDir(i) : i \in 1 .. MaxJobs} \union {InputDir(n) : n \in 1 .. 2}
AllStems == ToSet(stems["balanced-six-stem"])

(* The values of the variables.                                            *)
TypeOK ==
    /\ http \in BOOLEAN /\ base \in Bases
    /\ next_id \in 1 .. MaxJobs + 1 /\ epoch \in 0 .. 1
    /\ jobs \in Seq([template : Templates, request : Requests, asked : Seq(AllStems),
                     epoch : 0 .. 1, dir : Directories,
                     status : {"queued", "completed", "unknown stem"}])
    /\ files \subseteq [dir : Directories, stem : AllStems, job : DOMAIN jobs]

(* A job that was accepted has only stems its model knows, wherever they   *)
(* come from: it does not fail for them once it has waited and its audio   *)
(* was loaded.  The exception is a base template with a filter of its own, *)
(* of which apply_overrides asks nothing when a request changes the        *)
(* profile.                                                                *)
RunsAsConfigured ==
    \A j \in DOMAIN jobs : jobs[j].status = "unknown stem" =>
        /\ jobs[j].request.stems = Absent
        /\ jobs[j].request.profile \notin {Absent, base.profile}
        /\ base.stems_filter # <<>>

(* Another job's directory is in that of job j because a client named it,  *)
(* or a program's inputs have one name, or the ids began anew.             *)
Shared(j) ==
    \E k \in DOMAIN jobs \ {j} :
        /\ Within(jobs[j].dir, jobs[k].dir)
        /\ \/ ~http \/ jobs[j].epoch # jobs[k].epoch
           \/ jobs[j].request.output_subdir # Absent
           \/ jobs[k].request.output_subdir # Absent

Asked(j) == IF jobs[j].asked # <<>> THEN jobs[j].asked ELSE resolved_stems(jobs[j].template)

(* The download of a job has the stems its client asked for, or all of the *)
(* model it asked for, and nothing else, all written by this job: ids keep *)
(* the jobs of a process apart.                                            *)
DownloadAsAsked ==
    \A j \in DOMAIN jobs : jobs[j].status = "completed" /\ ~Shared(j) =>
        {<<f.stem, f.job>> : f \in make_zip(j)} = ToSet(Asked(j)) \X {j}

=============================================================================
