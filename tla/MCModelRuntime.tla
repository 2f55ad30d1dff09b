--------------------------- MODULE MCModelRuntime ---------------------------
(* ModelRuntime with small models: a single shard with a checksum, its      *)
(* configuration and tokenizer, and variations of it, one fact at a time.   *)
EXTENDS ModelRuntime

FileOf(path, role, len, sha) ==
    [path |-> path, role |-> role, safe |-> TRUE, size |-> len, sha |-> sha, etag |-> FALSE, len |-> len]

Weights == FileOf(1, "weight_shard", 2, TRUE)
Settings == {FileOf(7, "config", 1, FALSE), FileOf(8, "tokenizer_config", 1, FALSE),
             FileOf(9, "tokenizer", 1, FALSE)}

BaseConfig == [auto_map |-> FALSE, quantization |-> "", architecture |-> "supported", dtype |-> "",
               layers |-> 1, heads |-> 2, kv_heads |-> 0, head_dim |-> 0, hidden |-> 2, max_position |-> 0]
Base == [source |-> "huggingface", commit |-> TRUE, short_id |-> FALSE, newest |-> TRUE, config |-> BaseConfig,
         listing |-> {Weights} \cup Settings, index |-> {}, index_json |-> "weight_map", ranges |-> TRUE, noisy |-> {}]
Sharded == [Base EXCEPT !.listing = {FileOf(1, "weight_shard", 1, TRUE), FileOf(2, "weight_shard", 1, TRUE),
                                     FileOf(3, "weight_index", 1, FALSE)} \cup Settings,
                        !.index = {1, 2}]
MCModels ==
    [base    |-> Base,
     noisy   |-> [Base EXCEPT !.noisy = {1}, !.listing = {[Weights EXCEPT !.etag = TRUE]} \cup Settings],
     unsized |-> [Base EXCEPT !.ranges = FALSE, !.listing =
                    {f \in @ : f.role # "config"} \cup {[FileOf(7, "config", 2, FALSE) EXCEPT !.size = -1]}],
     scope   |-> [Sharded EXCEPT !.source = "modelscope"],
     legacy  |-> [Base EXCEPT !.listing = @ \cup {FileOf(4, "legacy_weight", 1, FALSE)}],
     remote  |-> [Base EXCEPT !.config.auto_map = TRUE]]

Ok == <<"ok", "ok", "ok">>
GoodNet == [revision |-> Ok, config |-> Ok, files |-> Ok, again |-> Ok, index |-> Ok]
GoodHost == [gpu_total |-> 100, gpu_free |-> 100, ram |-> 100, disk |-> 100, free |-> 100]
GoodRef == [override |-> "", primary |-> <<9>>, accessory |-> FALSE]
Good == [ref |-> GoodRef, net |-> GoodNet, host |-> GoodHost]
MCEnvs ==
    [good |-> Good,
     malformed |-> [Good EXCEPT !.ref.override = "malformed"],
     ambiguous |-> [Good EXCEPT !.ref.primary = <<9, 8>>],
     missing   |-> [Good EXCEPT !.net.revision = <<"exception", "missing", "ok">>],
     denied    |-> [Good EXCEPT !.net.config = <<"5xx", "5xx", "denied">>],
     not_json  |-> [Good EXCEPT !.net.again = <<"not_json", "ok", "ok">>],
     gpu_busy  |-> [Good EXCEPT !.host.gpu_free = 5],
     disk_full |-> [Good EXCEPT !.host.disk = 1],
     unprobed  |-> [Good EXCEPT !.host.disk = 0, !.host.free = 1]]

Frames == <<[kind |-> "event", content |-> TRUE, trace |-> TRUE, usage |-> TRUE, model |-> TRUE],
            [kind |-> "done", content |-> FALSE, trace |-> FALSE, usage |-> FALSE, model |-> FALSE]>>
GoodAnswer == [http |-> "2xx", json |-> TRUE, model |-> "served", trace |-> TRUE, usage |-> TRUE, frames |-> Frames]
MCAnswers == {GoodAnswer, [GoodAnswer EXCEPT !.http = "5xx"], [GoodAnswer EXCEPT !.trace = FALSE],
              [GoodAnswer EXCEPT !.usage = FALSE, !.frames[1].usage = FALSE],
              [GoodAnswer EXCEPT !.frames = <<Frames[1]>>]}

MCAssets == {[lfs |-> l, submodules |-> m, sources |-> a] :
               l \in {"not_required", "runs", "exit_nonzero"}, m \in {"not_required", "disallowed"},
               a \in {{}, {"huggingface"}, {"huggingface", "unreachable"}, {"git"}}}

BaseCfg == [enabled |-> TRUE, mode |-> "managed_vllm", image |-> "listed@sha256", max_len |-> 4, dtype |-> "auto",
            seqs |-> 1, overhead_floor |-> 1, ram_ratio |-> 120, ram_floor |-> 1, disk_ratio |-> 120,
            utilization |-> 90]
MCConfigs ==
    [docker   |-> BaseCfg,
     local    |-> [BaseCfg EXCEPT !.mode = "local_vllm"],
     foreign  |-> [BaseCfg EXCEPT !.image = "foreign@sha256"],
     unpinned |-> [BaseCfg EXCEPT !.image = "tag"],
     disabled |-> [BaseCfg EXCEPT !.enabled = FALSE]]
MCWorlds ==
    {[model |-> m, config |-> "docker"] : m \in {"noisy", "scope", "legacy", "remote"}} \cup
    {[model |-> "base", config |-> c] : c \in {"foreign", "unpinned", "disabled"}} \cup
    {[model |-> "unsized", config |-> "local"]}
Symmetry == Permutations(Tasks)
=============================================================================
