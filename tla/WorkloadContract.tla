--------------------------- MODULE WorkloadContract ---------------------------
(***************************************************************************)
(* What each workload demands of a manifest (src/corpus_validation.ts).    *)
(* Callers always pass the processor, so the contract always applies; a    *)
(* field that is present is well-formed.                                   *)
(***************************************************************************)
EXTENDS Naturals, Sequences

Given(record, field) == field \in DOMAIN record

BookShard(shard) ==
  \/ Given(shard.bounds, "chapter") \/ Given(shard.bounds, "page_number")
  \/ Given(shard.bounds, "page_start") /\ Given(shard.bounds, "page_end")

RowsAgree(shard) ==
  Given(shard.bounds, "row_count") =>
    shard.bounds.row_end + 1 = shard.bounds.row_start + shard.bounds.row_count

DatasetShard(shard) ==
  /\ Given(shard.bounds, "row_start") /\ Given(shard.bounds, "row_end")
  /\ RowsAgree(shard)

MediaShard(shard) ==
  \A field \in {"duration_seconds", "sha256"} : Given(shard.bounds, field)
MediaSidecar(shard) ==
  Given(shard.bounds, "sidecar_sha256") \/ Given(shard.bounds, "shard_sha256")

TranslationShard(shard) ==
  \A field \in {"source_lang", "target_lang", "source_sha256", "shard_sha256"} : Given(shard.bounds, field)

TranslationContract(m) ==
  /\ m.processor.type = "deepseek_batch"
  /\ \A i \in DOMAIN m.sources : Given(m.sources[i], "sha256")
  /\ m.acceptance = "translation"  \* languages and preserve_placeholders are given

MediaContract(m) ==
  /\ m.processor.type = "copy_text"
  /\ \A i \in DOMAIN m.sources :
       Given(m.sources[i], "path") /\ Given(m.sources[i], "sha256") /\ m.sources[i].type \in {"audio", "video"}

\* validateCorpusWorkload has no blocker.
ContractHolds(m) ==
  LET every(Holds(_)) == \A i \in DOMAIN m.shards : Holds(m.shards[i])
  IN  CASE m.workload = "book_reading" -> every(BookShard)
        [] m.workload = "dataset_transform" -> every(DatasetShard)
        [] m.workload = "media_catalogue" -> MediaContract(m) /\ every(MediaShard) /\ every(MediaSidecar)
        [] m.workload = "translation" -> TranslationContract(m) /\ every(TranslationShard)
        [] OTHER -> TRUE

=============================================================================
