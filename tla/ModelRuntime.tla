---------------------------- MODULE ModelRuntime ----------------------------
(***************************************************************************)
(* The model stages of a deployment: model_runtime/mainline.py and         *)
(* preparation.py resolve a model and download it into the cache directory *)
(* all tasks share (assets/), and controller.py starts a server on it,     *)
(* waits until it is ready and verifies its answers.                       *)
(*                                                                         *)
(* Each member of Tasks is a harness process working on one task; it may   *)
(* be killed at any step and run again.  The tasks deploy the same model,  *)
(* so that they meet in one cache directory (revision_cache_path) and on   *)
(* one port (model_runtime_port).  The cache's cleanup command runs beside *)
(* them, and nothing takes the download lock the cache has a path for.     *)
(***************************************************************************)
EXTENDS ModelFiles

CONSTANTS Tasks,        \* the tasks
          Models,       \* by name, the models one of which the source holds
          Envs,         \* by name, [ref, net, host]: what a preparation meets
          Answers,      \* answers of a server to a verification request
          Assets,       \* the plans of the preparation without inference
          Configs,      \* by name, the configurations one of which is in force
          Worlds,       \* [model, config]: the pairs considered
          RetryCount,   \* retry_count of the downloader
          MaxRuns,      \* bound: executions of the tasks
          MaxRounds,    \* bound: polls within the startup deadline
          MaxCleans     \* bound: runs of the cleanup command

ASSUME ModelBounds ==
    /\ \A c \in DOMAIN Configs : Configs[c].mode \in {"managed_vllm", "local_vllm"}
    /\ Worlds \subseteq [model : DOMAIN Models, config : DOMAIN Configs]
    /\ {RetryCount, MaxCleans} \subseteq Nat /\ {MaxRuns, MaxRounds} \subseteq Nat \ {0}

VARIABLES chosen,     \* the model at the source and the configuration
          dir,        \* the cache directory: part, target, meta, marker
          reports,    \* reports/model of each task
          p,          \* where each task is
          services,   \* the containers or processes started, by task and run
          cleaning,   \* the cleanup command is removing the directory
          cleans,     \* how often it was started
          overlap     \* two writers were in the directory at the same time

vars == <<chosen, dir, reports, p, services, cleaning, cleans, overlap>>

model == Models[chosen.model]
config == Configs[chosen.config]

Absent == <<-1>>
Right(f) == [i \in 1..f.len |-> i]
Paths == {f.path : f \in model.listing}

\* What a process knows, and loses when it dies.
Fresh == [pc |-> "idle", execute |-> FALSE, left |-> <<>>, attempt |-> 0, at |-> "none", mode |-> "wb",
          got |-> 0, sent |-> 0, download |-> "", bundle |-> <<>>, round |-> 0, heard |-> "", verdict |-> ""]

Init ==
    /\ chosen \in Worlds
    /\ dir = [part |-> [q \in Paths |-> Absent], target |-> [q \in Paths |-> Absent],
              meta |-> {}, marker |-> FALSE]
    /\ reports = [t \in Tasks |-> [spec |-> "", plan |-> "", decision |-> "", stage |-> ""]]
    /\ p = [t \in Tasks |-> [run |-> 0] @@ Fresh]
    /\ services = {}
    /\ cleaning = FALSE /\ cleans = 0 /\ overlap = FALSE

Executions == MapThenSumSet(LAMBDA t : p[t].run, Tasks)
Set(t, new) == p' = [p EXCEPT ![t] = new @@ @]
Downloading(t) == p[t].pc \in {"download", "stream", "meta", "finalize"}
File(t) == Head(p[t].left)

\* The plan of a model is the same whenever it is built, its listing being
\* that of one commit.  (Both tables are made explicit by "@@".)
Plans == [m \in DOMAIN Models |-> build(Models[m], TRUE)] @@ <<>>
plan == Plans[chosen.model]

-----------------------------------------------------------------------------
(* The preparation stage                                                    *)

\* _precheck_disk asks the disk itself; host.disk is what the probe reported.
_target_valid(f) ==
    /\ dir.target[f.path] # Absent
    /\ f.size > 0 => Len(dir.target[f.path]) = f.size
    /\ f.sha => dir.target[f.path] = Right(f)
    /\ f.etag => f.path \in dir.meta
Remaining(f) == IF _target_valid(f) THEN 0
                ELSE Max({0, f.size - (IF dir.part[f.path] = Absent THEN 0 ELSE Len(dir.part[f.path]))})
_precheck_disk(host) ==
    (FoldSeq(LAMBDA f, n : Remaining(f) + n, 0, plan.files) * config.disk_ratio) \div 100 <= host.free

\* The status map at the end of ModelPreparationStageRunner.run, of a bundle
\* whose decision is "" when none was taken.
StageStatus(status, decision) ==
    IF status \in {"prepared", "allowed"} THEN "passed"
    ELSE IF decision \notin {"", "allowed"} THEN "uncertain" ELSE "failed"

\* What resolve_spec, build_plan and decide give for an environment; a failed
\* request of build_plan raises SourceClientError.
Meetings ==
    [x \in (DOMAIN Models) \X (DOMAIN Configs) \X (DOMAIN Envs) |->
        LET m   == Models[x[1]]
            env == Envs[x[3]]
        IN  [source   |-> _resolve_source(env.ref),
             spec     |-> resolve_model(m, env.net),
             raises   |-> \/ _get(env.net.again) # "ok"
                          \/ (RolesOf(m.listing, "weight_index") # {} /\ fetch_file(m, env.net) # "ok"),
             decision |-> solve(m, Configs[x[2]], Plans[x[1]], env.host).status]] @@ <<>>

\* ModelPreparationOrchestrator.run up to the download: each artifact is
\* written as soon as it is known, and an early return leaves the later ones
\* of an earlier run in place.
Prepare(t) ==
    /\ p[t].pc \in {"idle", "ended"} /\ Executions < MaxRuns /\ config.enabled
    /\ \E env \in DOMAIN Envs, execute \in BOOLEAN :
        LET met      == Meetings[<<chosen.model, chosen.config, env>>]
            known    == [reports[t] EXCEPT !.stage = ""]
            begun    == [run |-> p[t].run + 1, execute |-> execute] @@ Fresh
            Stop(pc, written) == /\ p' = [p EXCEPT ![t] = [pc |-> pc, execute |-> FALSE] @@ begun]
                                 /\ reports' = [reports EXCEPT ![t] = written]
        IN  \/ ~met.source /\ Stop("ended", [known EXCEPT !.stage = "failed"])
            \/ /\ met.source /\ met.spec # "resolved"
               /\ Stop("ended", [known EXCEPT !.spec = met.spec, !.stage = "failed"])
            \/ /\ met.source /\ met.spec = "resolved" /\ met.raises
               /\ Stop("ended", [known EXCEPT !.spec = "resolved", !.stage = "raised"])
            \/ /\ met.source /\ met.spec = "resolved" /\ ~met.raises /\ plan.status = "blocked"
               /\ Stop("ended", [known EXCEPT !.spec = "resolved", !.plan = "blocked",
                                              !.stage = StageStatus("blocked", "")])
            \/ /\ met.source /\ met.spec = "resolved" /\ ~met.raises /\ plan.status = "planned"
               /\ LET written == [spec |-> "resolved", plan |-> "planned", decision |-> met.decision, stage |-> ""]
                      ends    == [written EXCEPT !.stage = StageStatus(met.decision, met.decision)]
                  IN  IF met.decision # "allowed" THEN Stop("ended", ends)
                      ELSE IF ~execute THEN Stop("gate", ends)
                      ELSE IF ~_precheck_disk(Envs[env].host)
                      THEN /\ p' = [p EXCEPT ![t] = [pc |-> "gate", download |-> "insufficient_disk"] @@ begun]
                           /\ reports' = [reports EXCEPT ![t] = ends]
                      ELSE /\ p' = [p EXCEPT ![t] = [pc |-> "download", left |-> plan.files] @@ begun]
                           /\ reports' = [reports EXCEPT ![t] = written]
    /\ overlap' = (overlap \/ (p'[t].pc = "download" /\ (cleaning \/ \E u \in Tasks \ {t} : Downloading(u))))
    /\ UNCHANGED <<chosen, dir, services, cleaning, cleans>>

\* modules/model_prepare.py, the stage of a task without model inference.
GitStatus(g, execute) ==
    IF g = "not_required" THEN "" ELSE IF ~execute THEN "planned"
    ELSE IF g \in {"disallowed", "exit_nonzero"} THEN "failed" ELSE "ready"
AssetStatus(a, execute) ==
    IF ~execute THEN "planned"
    ELSE IF a \notin {"huggingface", "modelscope", "unreachable"} THEN "unsupported"
    ELSE IF a = "unreachable" THEN "failed" ELSE "downloaded"
_combined_status(lfs, sub, assets, execute) ==
    IF "failed" \in {lfs, sub} THEN "failed"
    ELSE IF execute /\ "failed" \in assets THEN "failed"
    ELSE IF execute /\ "unsupported" \in assets THEN "uncertain" ELSE "passed"
PrepareAssets(t) ==
    /\ p[t].pc \in {"idle", "ended"} /\ Executions < MaxRuns /\ ~config.enabled
    /\ \E a \in Assets, execute \in BOOLEAN :
        /\ p' = [p EXCEPT ![t] = [run |-> @.run + 1, execute |-> execute, pc |-> "ended"] @@ Fresh]
        /\ reports' = [reports EXCEPT ![t].stage =
                _combined_status(GitStatus(a.lfs, execute), GitStatus(a.submodules, execute),
                                 {AssetStatus(x, execute) : x \in a.sources}, execute)]
    /\ UNCHANGED <<chosen, dir, services, cleaning, cleans, overlap>>

-----------------------------------------------------------------------------
(* assets/base.py: one file at a time, as max_workers is 1 by default.      *)

\* The end of the stage: the decision was "allowed", so whatever the download
\* gave, the status map says passed.
EndStage(t, download) ==
    /\ Set(t, [pc |-> "gate", download |-> download, left |-> <<>>, attempt |-> 0, at |-> "none", mode |-> "wb",
               got |-> 0, sent |-> 0])
    /\ reports' = [reports EXCEPT ![t].stage =
            StageStatus(IF download = "complete" THEN "prepared" ELSE "allowed", "allowed")]

\* _call_with_retries around _download_file_to_cache: every error is tried
\* again but a checksum mismatch.
_call_with_retries_Endless(t, permanent) ==
    IF permanent THEN EndStage(t, "download_failed")
    ELSE /\ Set(t, [pc |-> "download", at |-> "none", mode |-> "wb", got |-> 0, sent |-> 0])
         /\ UNCHANGED reports
_call_with_retries(t, permanent) ==
    IF permanent \/ p[t].attempt = RetryCount THEN EndStage(t, "download_failed")
    ELSE /\ Set(t, [pc |-> "download", attempt |-> p[t].attempt + 1, at |-> "none", mode |-> "wb",
                    got |-> 0, sent |-> 0])
         /\ UNCHANGED reports

NextFile(t) ==
    Set(t, [pc |-> IF Len(p[t].left) = 1 THEN "finalize" ELSE "download", left |-> Tail(p[t].left),
            attempt |-> 0, at |-> "none", mode |-> "wb", got |-> 0, sent |-> 0])

FileCached(t) ==
    /\ p[t].pc = "download" /\ _target_valid(File(t))
    /\ NextFile(t)
    /\ UNCHANGED <<chosen, dir, reports, services, cleaning, cleans, overlap>>

\* The request.  A part asks for the bytes after it; a server that honours
\* ranges refuses one that starts at the end of the file.
Existing(q) == IF dir.part[q] = Absent THEN 0 ELSE Len(dir.part[q])
FileOpen(t) ==
    LET f == File(t)
        resumed == Existing(f.path) > 0 /\ model.ranges
    IN  /\ p[t].pc = "download" /\ ~_target_valid(f)
        /\ resumed => Existing(f.path) < f.len
        /\ Set(t, [pc |-> "stream", at |-> "part", mode |-> IF resumed THEN "ab" ELSE "wb",
                   got |-> IF resumed THEN Existing(f.path) ELSE 0, sent |-> IF resumed THEN Existing(f.path) ELSE 0])
        /\ dir' = IF resumed THEN dir ELSE [dir EXCEPT !.part[f.path] = <<>>]
        /\ UNCHANGED <<chosen, reports, services, cleaning, cleans, overlap>>

\* The request fails, or the connection breaks while the body is read.
FileError(t) ==
    /\ p[t].pc \in {"download", "stream"}
    /\ p[t].pc = "download" => ~_target_valid(File(t))
    /\ _call_with_retries(t, FALSE)
    /\ UNCHANGED <<chosen, dir, services, cleaning, cleans, overlap>>

\* f.write(chunk): at the end of the file in mode "ab", at the position of
\* the handle in mode "wb"; the handle follows its file through a rename.
WriteAt(content, pos, byte) ==
    [i \in 1..Max({Len(content), pos}) |->
        IF i = pos THEN byte ELSE IF i <= Len(content) THEN content[i] ELSE 0]
FileChunk(t) ==
    LET f == File(t)
        Written(content, byte) ==
            WriteAt(content, IF p[t].mode = "ab" THEN Len(content) + 1 ELSE p[t].sent + 1, byte)
    IN  /\ p[t].pc = "stream" /\ p[t].sent < f.len
        /\ \E byte \in {p[t].sent + 1} \cup (IF f.path \in model.noisy THEN {0} ELSE {}) :
            dir' = CASE p[t].at = "part"   -> [dir EXCEPT !.part[f.path] = Written(@, byte)]
                     [] p[t].at = "target" -> [dir EXCEPT !.target[f.path] = Written(@, byte)]
                     [] OTHER -> dir
        /\ Set(t, [got |-> p[t].got + 1, sent |-> p[t].sent + 1])
        /\ UNCHANGED <<chosen, reports, services, cleaning, cleans, overlap>>

\* The body ended, at its end or early: the size and checksum tests and the
\* rename.
Received_NoSum(f, got) ==
    IF dir.part[f.path] = Absent \/ (f.size > 0 /\ got # f.size) THEN "short" ELSE "right"
Received(f, got) ==
    IF dir.part[f.path] = Absent \/ (f.size > 0 /\ got # f.size) THEN "short"
    ELSE IF f.sha /\ dir.part[f.path] # Right(f) THEN "sha256 mismatch" ELSE "right"
FileEnd(t) ==
    LET f == File(t)
        Renamed(at) == IF at = "part" THEN "target" ELSE "gone"
    IN  /\ p[t].pc = "stream"
        /\ IF Received(f, p[t].got) # "right"
           THEN _call_with_retries(t, Received(f, p[t].got) = "sha256 mismatch") /\ UNCHANGED dir
           ELSE /\ dir' = [dir EXCEPT !.target[f.path] = dir.part[f.path], !.part[f.path] = Absent]
                /\ p' = [u \in Tasks |->
                    IF u = t THEN [pc |-> "meta", at |-> "none"] @@ p[t]
                    ELSE IF p[u].pc = "stream" /\ File(u) = f THEN [p[u] EXCEPT !.at = Renamed(@)] ELSE p[u]]
                /\ UNCHANGED reports
        /\ UNCHANGED <<chosen, services, cleaning, cleans, overlap>>

\* _write_meta follows the rename; the file is gone if cleanup came between.
\* Only the etag of the metadata is ever read.
FileMeta(t) ==
    /\ p[t].pc = "meta"
    /\ IF dir.target[File(t).path] = Absent THEN _call_with_retries(t, FALSE) /\ UNCHANGED dir
       ELSE NextFile(t) /\ dir' = [dir EXCEPT !.meta = @ \cup {q \in {File(t).path} : File(t).etag}] /\ UNCHANGED reports
    /\ UNCHANGED <<chosen, services, cleaning, cleans, overlap>>

\* _finalize_plan: every required file again, then the complete marker.
FinalFile(f) ==
    /\ dir.target[f.path] # Absent /\ Len(dir.target[f.path]) = f.size
    /\ f.sha => dir.target[f.path] = Right(f)
_finalize_plan(t) ==
    /\ p[t].pc = "finalize"
    /\ IF \A f \in RequiredOf(plan) : FinalFile(f)
       THEN dir' = [dir EXCEPT !.marker = TRUE] /\ EndStage(t, "complete")
       ELSE EndStage(t, "integrity_failed") /\ UNCHANGED dir
    /\ UNCHANGED <<chosen, services, cleaning, cleans, overlap>>

-----------------------------------------------------------------------------
(* The cache's cleanup command: shutil.rmtree, one entry after the other in  *)
(* the order of the directory (by path here, the marker anywhere), which may *)
(* be interrupted and knows nothing of the tasks.                            *)

CleanStart ==
    /\ ~cleaning /\ cleans < MaxCleans
    /\ cleaning' = TRUE /\ cleans' = cleans + 1
    /\ overlap' = (overlap \/ \E t \in Tasks : Downloading(t))
    /\ UNCHANGED <<chosen, dir, reports, p, services>>

Unlink(q, at) == [t \in Tasks |->
    IF p[t].pc = "stream" /\ File(t).path = q /\ p[t].at = at THEN [p[t] EXCEPT !.at = "gone"] ELSE p[t]]
cleanup ==
    LET here == {q \in Paths : dir.target[q] # Absent \/ dir.part[q] # Absent}
        q    == Min(here)
    IN  /\ cleaning
        /\ \/ /\ here # {} /\ dir.target[q] # Absent
              /\ dir' = [dir EXCEPT !.target[q] = Absent, !.meta = @ \ {q}] /\ p' = Unlink(q, "target")
           \/ /\ here # {} /\ dir.target[q] = Absent
              /\ dir' = [dir EXCEPT !.part[q] = Absent] /\ p' = Unlink(q, "part")
           \/ dir.marker /\ dir' = [dir EXCEPT !.marker = FALSE] /\ UNCHANGED p
        /\ UNCHANGED <<chosen, reports, services, cleaning, cleans, overlap>>

CleanEnd ==
    /\ cleaning /\ cleaning' = FALSE
    /\ UNCHANGED <<chosen, dir, reports, p, services, cleans, overlap>>

-----------------------------------------------------------------------------
(* controller.py: the runtime phase.                                         *)

\* PreparationArtifactGate.validate and its _check_file.
_check_file(f) ==
    /\ dir.target[f.path] # Absent /\ Len(dir.target[f.path]) = f.size
    /\ f.sha => dir.target[f.path] = Right(f)
validate_MarkerOnly(t) ==
    /\ reports[t].spec = "resolved" /\ reports[t].decision = "allowed" /\ reports[t].plan = "planned"
    /\ dir.marker
validate(t) ==
    /\ reports[t].spec = "resolved" /\ reports[t].decision = "allowed" /\ reports[t].plan = "planned"
    /\ dir.marker
    /\ \A f \in RequiredOf(plan) : _check_file(f)

Ended(t, verdict) == [run |-> p[t].run, pc |-> "ended", verdict |-> verdict] @@ Fresh

\* The phase up to the start.  The bundle is what the gate has seen.
run_runtime_phase(t) ==
    LET decision == [status |-> reports[t].decision, dtype |-> select_dtype(model.config, config.dtype),
                     max_len |-> _max_model_len(model.config, config)]
        bundle   == [ok |-> validate(t), plan |-> plan, decision |-> decision, dir |-> dir.target]
        rplan    == RuntimePlan(t, bundle, config)
        allowed  == IF config.mode = "local_vllm" THEN _authorize_local(rplan, bundle, config)
                    ELSE VllmBuilds(config) /\ authorize(rplan, bundle, config)
    IN  /\ p[t].pc = "gate"
        /\ \E allow_start \in BOOLEAN :
            p' = [p EXCEPT ![t] =
                IF ~(bundle.ok /\ allowed) THEN Ended(t, "uncertain")
                ELSE IF ~(@.execute /\ allow_start) THEN Ended(t, "planned")
                ELSE [pc |-> "start", bundle |-> bundle.dir, download |-> ""] @@ @]
        /\ UNCHANGED <<chosen, dir, reports, services, cleaning, cleans, overlap>>

Own(t) == {s \in services : s.task = t /\ s.run = p[t].run}
Binds(s) == s.state = "serving" \/ (s.state = "loading" /\ config.mode = "managed_vllm")

\* docker run fails on a name or a port in use, in the latter case after the
\* container was created; the labels are then inspected.  A local process is
\* launched and meets a port in use only when it binds it.
run_model_runtime(t) ==
    LET Service(state) == [task |-> t, run |-> p[t].run, state |-> state, files |-> p[t].bundle]
    IN  /\ p[t].pc = "start"
        /\ IF config.mode = "managed_vllm" /\ \E s \in services : s.task = t
           THEN p' = [p EXCEPT ![t] = Ended(t, "failed")] /\ UNCHANGED services
           ELSE IF config.mode = "managed_vllm" /\ \E s \in services : Binds(s)
           THEN /\ services' = services \cup {Service("created")}
                /\ p' = [p EXCEPT ![t] = Ended(t, "failed")]
           ELSE /\ services' = services \cup {Service("loading")}
                /\ \E inspected \in {TRUE, config.mode = "local_vllm"} :
                    IF inspected THEN Set(t, [pc |-> "wait", bundle |-> <<>>])
                    ELSE p' = [p EXCEPT ![t] = Ended(t, "failed")]
        /\ UNCHANGED <<chosen, dir, reports, cleaning, cleans, overlap>>

\* vLLM: it loads the files and serves them, or exits at any time.
Loaded(s) ==
    /\ s.state = "loading"
    /\ services' = (services \ {s}) \cup
            {[s EXCEPT !.state = IF \E o \in services \ {s} : Binds(o) THEN "exited" ELSE "serving"]}
    /\ UNCHANGED <<chosen, dir, reports, p, cleaning, cleans, overlap>>
Exits(s) ==
    /\ s.state \in {"loading", "serving"}
    /\ services' = (services \ {s}) \cup {[s EXCEPT !.state = "exited"]}
    /\ UNCHANGED <<chosen, dir, reports, p, cleaning, cleans, overlap>>

\* ModelRuntimeReadiness.wait: one round.  The probe asks whoever holds the
\* port; the deadline is looked at last.
Serving == \E s \in services : s.state = "serving"
wait(t) ==
    LET running == \E s \in Own(t) : s.state \in {"loading", "serving"}
    IN  /\ p[t].pc = "wait"
        /\ \E inspected \in {TRUE, config.mode = "local_vllm"}, category \in BOOLEAN :
            p' = [p EXCEPT ![t] =
                IF ~inspected \/ ~running THEN Ended(t, "failed")
                ELSE IF Serving THEN [pc |-> "verify", round |-> 0] @@ @
                ELSE IF category \/ @.round = MaxRounds THEN Ended(t, "failed")
                ELSE [round |-> @.round + 1] @@ @]
        /\ UNCHANGED <<chosen, dir, reports, services, cleaning, cleans, overlap>>

\* verify_model_runtime: two requests to the port, each with its own trace.
Heard(a) == IF Serving THEN a ELSE [a EXCEPT !.http = "refused"]
AskNonStream(t) ==
    /\ p[t].pc = "verify" /\ p[t].heard = ""
    /\ \E a \in Answers, later \in BOOLEAN : Set(t, [heard |-> verify_non_stream(later, Heard(a))])
    /\ UNCHANGED <<chosen, dir, reports, services, cleaning, cleans, overlap>>
AskStream(t) ==
    /\ p[t].pc = "verify" /\ p[t].heard # ""
    /\ \E a \in Answers, later \in BOOLEAN :
        p' = [p EXCEPT ![t] = Ended(t, verify_model_runtime(@.heard, verify_stream(later, Heard(a))))]
    /\ UNCHANGED <<chosen, dir, reports, services, cleaning, cleans, overlap>>

-----------------------------------------------------------------------------
\* The process dies; what it wrote stays, and so do the services.
Crash(t) ==
    /\ p[t].pc \notin {"idle", "ended"}
    /\ p' = [p EXCEPT ![t] = [run |-> @.run] @@ Fresh]
    /\ UNCHANGED <<chosen, dir, reports, services, cleaning, cleans, overlap>>

\* A later execution of a task whose preparation had passed starts at the
\* runner stage.
Resume(t) ==
    /\ p[t].pc = "idle" /\ reports[t].stage = "passed" /\ config.enabled
    /\ Executions < MaxRuns
    /\ p' = [p EXCEPT ![t] = [run |-> @.run + 1, execute |-> TRUE, pc |-> "gate"] @@ Fresh]
    /\ UNCHANGED <<chosen, dir, reports, services, cleaning, cleans, overlap>>

TaskStep(t) ==
    \/ FileCached(t) \/ FileOpen(t) \/ FileError(t) \/ FileChunk(t) \/ FileEnd(t) \/ FileMeta(t)
    \/ _finalize_plan(t) \/ run_runtime_phase(t) \/ run_model_runtime(t) \/ wait(t)
    \/ AskNonStream(t) \/ AskStream(t)

Next ==
    \/ \E t \in Tasks : Prepare(t) \/ PrepareAssets(t) \/ Resume(t) \/ TaskStep(t) \/ Crash(t)
    \/ \E s \in services : Loaded(s) \/ Exits(s)
    \/ CleanStart \/ cleanup \/ CleanEnd

Spec == Init /\ [][Next]_vars

-----------------------------------------------------------------------------
(* Properties *)

\* The files a server of the model reads, whatever the plan says.
Needed == {f \in model.listing : \/ f.role \in {"config", "tokenizer_config"}
                                 \/ (f.role = "weight_shard" /\ f.path \in ShardPaths(model))}
Whole(content, f) ==
    /\ content[f.path] # Absent
    /\ f.size >= 0 => Len(content[f.path]) = f.len
    /\ f.sha => content[f.path] = Right(f)

\* As long as no two writers met in the directory, a file under its final
\* name whose checksum is known has the right bytes, through resumed parts,
\* damaged bytes, broken connections and crashes between the rename and the
\* metadata; and before any cleanup the complete marker means that every file
\* a server needs is there in full.
CacheIsSound ==
    ~overlap =>
      /\ \A f \in model.listing : f.sha => dir.target[f.path] \in {Absent, Right(f)}
      /\ (dir.marker /\ cleans = 0) => \A f \in Needed : Whole(dir.target, f)

\* No server is started on files the gate had not found whole: even with
\* several downloads in one directory, an interrupted cleanup that leaves the
\* marker, or a stale passed stage, the files the runtime phase bound were,
\* at the gate, every file the model needs, with the size and the checksum
\* the source gives for it.
StartedOnWholeModel ==
    \A s \in services :
      /\ \A f \in Needed : Whole(s.files, f)
      /\ \E f \in RolesOf(model.listing, "tokenizer") : Whole(s.files, f)

\* What is left of a task's execution.
Measure(t) ==
    LET Rank == [download |-> 30, stream |-> 29, meta |-> 8]
    IN  CASE p[t].pc \in DOMAIN Rank ->
               1000 + 100 * Len(p[t].left) + 40 * (RetryCount - p[t].attempt) + Rank[p[t].pc]
                 - (IF p[t].pc = "stream" THEN p[t].sent ELSE 0)
          [] p[t].pc = "finalize" -> 1000
          [] p[t].pc = "gate" -> 500
          [] p[t].pc = "start" -> 400
          [] p[t].pc = "wait" -> 200 - p[t].round
          [] p[t].pc = "verify" -> IF p[t].heard = "" THEN 3 ELSE 2
          [] OTHER -> 0

\* Every step an execution takes on its own brings it nearer to its end: the
\* retries of a file, the bytes of a body and the readiness rounds are all
\* counted, so no answer of the source or the server keeps a task busy for
\* ever.
StagesEnd ==
    [][\A t \in Tasks :
         p'[t].run = p[t].run /\ p'[t] # [p[t] EXCEPT !.at = p'[t].at] => Measure(t)' < Measure(t)]_vars

\* mainline.py: a stage that was to download passes only if the download is
\* complete.
PassedIsPrepared ==
    \A t \in Tasks : p[t].pc = "gate" /\ p[t].execute /\ p[t].download # "" =>
        (reports[t].stage = "passed" => p[t].download = "complete")
=============================================================================
