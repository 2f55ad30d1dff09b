----------------------------- MODULE ModelFiles -----------------------------
(***************************************************************************)
(* The pure decisions of the model_runtime package: which model a          *)
(* repository names, what its source answers, which files it consists of,  *)
(* whether the host can hold it, what the runtime plan and its policy are, *)
(* and how an answer of the served model is judged.                        *)
(*                                                                         *)
(* A path is a natural number, its rank in the order of path names; a      *)
(* file's content is the sequence of its bytes, 1, 2, ... when right and 0 *)
(* where the wire or another writer damaged it.                            *)
(***************************************************************************)
EXTENDS Integers, Sequences, FiniteSets, SequencesExt, FiniteSetsExt

-----------------------------------------------------------------------------
(* resolver.py: the reference.  Confidences are in tenths.                 *)

HIGH_CONFIDENCE == 8
CLEAR_WINNER_GAP == 2

\* A reference: the operator's override, the confidences of the primary
\* candidates in descending order, and whether accessories were found.
select_primary(ref) ==
    IF ref.override # "" THEN "resolved"
    ELSE IF ref.primary = <<>> THEN (IF ref.accessory THEN "needs_human_input" ELSE "not_found")
    ELSE IF \/ Len(ref.primary) = 1
            \/ /\ ref.primary[1] >= HIGH_CONFIDENCE
               /\ ref.primary[1] - ref.primary[2] >= CLEAR_WINNER_GAP
    THEN "resolved"
    ELSE "needs_human_input"

\* An override that is not [source:]org/model raises ValueError.
_parse_override(ref) == ref.override # "malformed"

\* mainline.py decides the source before anything is written.
_resolve_source(ref) == _parse_override(ref) /\ select_primary(ref) = "resolved"

-----------------------------------------------------------------------------
(* source_clients.py: one answer of the source per attempt.                *)

MaxAttempts == 3

\* urllib raises HTTPError for every 4xx and 5xx, so with the transport the
\* pipeline uses they reach _get as exceptions, not as statuses.
UrlopenTransport(answer) ==
    IF answer \in {"limited", "limited_after", "denied", "gated", "missing", "5xx"} THEN "exception" ELSE answer

Retried(answer) == answer \in {"exception", "5xx", "limited_after"}

\* The loop of _get over the answers it is given, one per attempt.
_get(answers) ==
    LET seen  == [i \in 1..MaxAttempts |-> UrlopenTransport(answers[i])]
        last  == Min({i \in 1..MaxAttempts : ~Retried(seen[i]) \/ i = MaxAttempts})
    IN  CASE seen[last] = "ok" -> "ok"
          [] seen[last] \in {"exception", "5xx", "odd", "foreign_host"} -> "network_failed"
          [] seen[last] \in {"limited", "limited_after"} -> "retry_exhausted"
          [] seen[last] = "denied" -> "access_required"
          [] seen[last] = "gated" -> "license_acceptance_required"
          [] seen[last] = "missing" -> "not_found"
          [] seen[last] \in {"too_big", "not_json"} -> "metadata_invalid"

\* The answer must pin a 40-digit commit: Hugging Face names it, ModelScope's
\* listing only the commit of each file, of which _head_commit takes the one
\* the head's short id matches, or else the newest.
_head_commit(model) ==
    model.listing # {} /\ (IF model.short_id THEN TRUE ELSE model.newest)
resolve_revision(model, net) ==
    IF _get(net.revision) # "ok" THEN _get(net.revision)
    ELSE IF (IF model.source = "modelscope" THEN _head_commit(model) ELSE model.commit) THEN "ok"
    ELSE "metadata_invalid"

fetch_model_config(net) == _get(net.config)
list_files(net) == _get(net.files)

\* Only the Hugging Face client defines fetch_file; the base class raises.
fetch_file(model, net) ==
    IF model.source = "modelscope" THEN "raises" ELSE _get(net.index)

_detect_quantization(config) == config.quantization # ""
_supported_architectures(config) == config.architecture \in {"none", "supported"}

\* ResolvedModelSpec.status.
resolve_model(model, net) ==
    IF resolve_revision(model, net) # "ok" THEN resolve_revision(model, net)
    ELSE IF fetch_model_config(net) # "ok" THEN fetch_model_config(net)
    ELSE IF list_files(net) # "ok" THEN list_files(net)
    ELSE IF model.config.auto_map THEN "remote_code_required"
    ELSE IF _detect_quantization(model.config) THEN "unsupported_quantization"
    ELSE IF ~_supported_architectures(model.config) THEN "unsupported_architecture"
    ELSE "resolved"

-----------------------------------------------------------------------------
(* file_closure.py: the files a model consists of.                          *)

RolesOf(listing, role) == {f \in listing : f.role = role}

\* size_bytes of an entry: an unknown size (-1) becomes 0.
_file_entry(f, required) ==
    [path |-> f.path, role |-> f.role, size |-> IF f.size < 0 THEN 0 ELSE f.size,
     sha |-> f.sha, etag |-> f.etag, required |-> required, len |-> f.len]

\* The shards the index names, or the only shard there is.
ShardPaths(model) ==
    IF RolesOf(model.listing, "weight_index") # {} THEN model.index
    ELSE {f.path : f \in RolesOf(model.listing, "weight_shard")}

FormatErrors(model) ==
    \/ \E f \in model.listing : ~f.safe
    \/ RolesOf(model.listing, "gguf_weight") # {}
    \/ RolesOf(model.listing, "legacy_weight") # {}
    \/ Cardinality(RolesOf(model.listing, "weight_index")) > 1

\* index_json: what fetch_file gave: an object with a weight map, one
\* without, or text that is not JSON.
ShardErrors(model) ==
    IF RolesOf(model.listing, "weight_index") # {}
    THEN \/ model.index_json # "weight_map"
         \/ \E q \in model.index : ~\E f \in RolesOf(model.listing, "weight_shard") : f.path = q
    ELSE Cardinality(RolesOf(model.listing, "weight_shard")) > 1

RequiredErrors(model) ==
    \E role \in {"config", "tokenizer_config", "tokenizer"} : RolesOf(model.listing, role) = {}

TokenizerFile(listing) ==
    CHOOSE f \in RolesOf(listing, "tokenizer") : \A g \in RolesOf(listing, "tokenizer") : f.path <= g.path

Optional == {"generation_config", "special_tokens_map", "added_tokens", "chat_template", "vocab", "merges",
             "tiktoken"}

PlanFiles(model) ==
    {_file_entry(f, TRUE) : f \in {g \in model.listing : g.role = "weight_shard" /\ g.path \in ShardPaths(model)}}
    \cup {_file_entry(f, TRUE) : f \in {g \in model.listing : g.role \in {"weight_index", "config", "tokenizer_config"}}}
    \cup {_file_entry(TokenizerFile(model.listing), TRUE)}
    \cup {_file_entry(f, FALSE) : f \in {g \in model.listing : g.role \in Optional}}

\* ModelFileClosure.build: the entries in path order, or blocked.
build(model, require_strong) ==
    IF \/ FormatErrors(model) \/ ShardErrors(model) \/ ShardPaths(model) = {} \/ RequiredErrors(model)
       \/ require_strong /\ \E f \in PlanFiles(model) : f.role = "weight_shard" /\ ~f.sha
    THEN [status |-> "blocked", files |-> <<>>]
    ELSE [status |-> "planned", files |-> SetToSortSeq(PlanFiles(model), LAMBDA a, b : a.path < b.path)]

RequiredOf(plan) == {plan.files[i] : i \in {j \in DOMAIN plan.files : plan.files[j].required}}
TotalSize(plan) == FoldSeq(LAMBDA f, n : f.size + n, 0, plan.files)

-----------------------------------------------------------------------------
(* resource_solver.py and compatibility.py: whether the host can hold it.   *)
(* Ratios are in hundredths.                                                *)

KV_CACHE_TENSORS == 2

select_dtype(config, configured) ==
    IF config.dtype \in {"float16", "bfloat16", "float32"} THEN config.dtype
    ELSE IF configured \in {"float16", "bfloat16", "float32"} THEN configured ELSE "float16"
dtype_element_bytes(dtype) == IF dtype = "float32" THEN 4 ELSE 2

_weight_bytes(plan) ==
    FoldSeq(LAMBDA f, n : IF f.role = "weight_shard" THEN f.size + n ELSE n, 0, plan.files)

\* 0 stands for a field the model's config does not have.
HeadDim(config) ==
    IF config.head_dim = 0 /\ config.hidden > 0 /\ config.heads > 0 THEN config.hidden \div config.heads
    ELSE config.head_dim
KvHeads(config) == IF config.kv_heads > 0 THEN config.kv_heads ELSE config.heads
KvKnown(config) == HeadDim(config) > 0 /\ config.layers > 0 /\ KvHeads(config) > 0
_max_model_len(config, cfg) ==
    Max({1, Min({cfg.max_len, IF config.max_position > 0 THEN config.max_position ELSE cfg.max_len})})
_kv_cache(config, cfg) ==
    KV_CACHE_TENSORS * config.layers * KvHeads(config) * HeadDim(config)
      * dtype_element_bytes(select_dtype(config, cfg.dtype)) * _max_model_len(config, cfg) * cfg.seqs

required_vram(config, cfg, plan) ==
    LET runtime == (_weight_bytes(plan) * 105) \div 100
    IN  runtime + (IF KvKnown(config) THEN _kv_cache(config, cfg) ELSE 0)
          + Max({cfg.overhead_floor, (runtime * 10) \div 100})

\* A total, an amount of memory or of disk that could not be probed is 0.
_final_status(config, cfg, plan, host) ==
    LET vram == required_vram(config, cfg, plan)
        ram  == (((_weight_bytes(plan) * 105) \div 100) * cfg.ram_ratio) \div 100 + cfg.ram_floor
        disk == (TotalSize(plan) * cfg.disk_ratio) \div 100
    IN  IF ~KvKnown(config) THEN "uncertain"
        ELSE IF host.gpu_total > 0 /\ vram > host.gpu_total THEN "insufficient_gpu_memory"
        ELSE IF vram > (host.gpu_free * cfg.utilization) \div 100 THEN "gpu_busy"
        ELSE IF host.ram > 0 /\ ram > host.ram THEN "insufficient_system_memory"
        ELSE IF host.disk > 0 /\ disk > host.disk THEN "insufficient_disk"
        ELSE "allowed"

solve(model, cfg, plan, host) ==
    [status |-> _final_status(model.config, cfg, plan, host), vram |-> required_vram(model.config, cfg, plan),
     dtype |-> select_dtype(model.config, cfg.dtype), max_len |-> _max_model_len(model.config, cfg)]

-----------------------------------------------------------------------------
(* vllm_adapter.py, local_adapter.py and policy.py: the runtime plan.       *)

command_for(bundle, mode) == <<mode, bundle.decision.dtype, bundle.decision.max_len, bundle.dir>>

\* build raises ValueError, and the phase is blocked, when the image of a
\* container is not pinned by a digest.
VllmBuilds(cfg) == cfg.image \in {"listed@sha256", "foreign@sha256"}
RuntimePlan(t, bundle, cfg) ==
    [mode |-> cfg.mode, image |-> IF cfg.mode = "local_vllm" THEN "" ELSE cfg.image, dir |-> bundle.dir,
     file_plan |-> bundle.plan, decision |-> bundle.decision, command |-> command_for(bundle, cfg.mode),
     name |-> IF cfg.mode = "local_vllm" THEN "" ELSE t]

\* The denials that a plan the adapter has just built can still meet.
authorize(plan, bundle, cfg) ==
    /\ cfg.enabled
    /\ bundle.ok
    /\ plan.mode = "managed_vllm" => plan.image = "listed@sha256"
    /\ plan.command = command_for(bundle, plan.mode)
    /\ bundle.decision.status = "allowed"
_authorize_local(plan, bundle, cfg) ==
    /\ authorize(plan, bundle, cfg)
    /\ cfg.mode = "local_vllm"
    /\ plan.image = "" /\ plan.name = ""

-----------------------------------------------------------------------------
(* evidence.py: how an answer of the served model is judged.                *)

Judge(model, trace, usage, served_required) ==
    IF model # "served" /\ (served_required \/ model # "") THEN "failed"
    ELSE IF ~trace THEN "failed"
    ELSE IF ~usage THEN "uncertain" ELSE "passed"

\* later: the request started at a later second than the ready time.
verify_non_stream(later, a) ==
    IF ~later \/ a.http # "2xx" \/ ~a.json THEN "failed"
    ELSE Judge(a.model, a.trace, a.usage, TRUE)

\* The frames up to the one that ends the parse: [DONE], or one that is not
\* a JSON object.
parse_sse_stream(frames) ==
    LET ends == {i \in DOMAIN frames : frames[i].kind # "event"}
        read == SubSeq(frames, 1, IF ends = {} THEN Len(frames) ELSE Min(ends))
        has(field) == \E i \in DOMAIN read : read[i].kind = "event" /\ read[i][field]
    IN  [terminal |-> read # <<>> /\ Last(read).kind = "done",
         error    |-> read # <<>> /\ Last(read).kind = "garbled",
         content  |-> has("content"), trace |-> has("trace"), usage |-> has("usage"),
         model    |-> IF has("model") THEN "served" ELSE ""]

verify_stream(later, a) ==
    LET sse == parse_sse_stream(a.frames)
    IN  IF ~later \/ a.http # "2xx" \/ sse.error \/ ~sse.terminal \/ ~sse.content THEN "failed"
        ELSE Judge(sse.model, sse.trace, sse.usage, FALSE)

\* verify_model_runtime: pass requires both gates.
verify_model_runtime(non_stream, stream) ==
    IF non_stream = "passed" /\ stream = "passed" THEN "passed" ELSE "uncertain"
=============================================================================
