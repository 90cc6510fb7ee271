----------------------------- MODULE JsonlBuilder -----------------------------
(***************************************************************************)
(* buildJsonlCorpusManifest (src/corpus_ingest.ts): one pass over a file   *)
(* in blocks, which digests the source and each shard and checks every     *)
(* record as it goes.  The file may change between two blocks.             *)
(***************************************************************************)
EXTENDS CorpusSource

CONSTANTS
  MaxRecord,  \* MAX_JSONL_RECORD_BYTES
  ReadBytes   \* JSONL_READ_CHUNK_BYTES
ASSUME BlocksAssumption == MaxRecord \in Nat \ {0} /\ ReadBytes \in Nat \ {0}

\* validateRecord: JSON in UTF-8; JSON.parse takes no byte-order mark.
ValidRecord(record) == "j" \in Range(record) /\ Range(record) \subseteq {"j", "s"}

\* bytes: of the source so far; record and shard: those not yet closed; invalid: it throws.
Scan0 ==
  [bytes |-> <<>>, record |-> <<>>, shard |-> <<>>, rows |-> 0, shardRows |-> 0,
   shards |-> <<>>, invalid |-> FALSE]

EndRecord(scan) ==
  [scan EXCEPT !.invalid = @ \/ ~ValidRecord(scan.record), !.record = <<>>,
               !.rows = @ + 1, !.shardRows = @ + 1]

\* finishShard.
EndShard(scan) ==
  LET end == Len(scan.bytes)
  IN  [scan EXCEPT
         !.invalid = @ \/ Len(scan.shards) >= MaxShards,
         !.shards = Append(@, [byte_start |-> end - Len(scan.shard), byte_end |-> end,
                               row_start |-> scan.rows - scan.shardRows + 1, row_end |-> scan.rows,
                               row_count |-> scan.shardRows, shard_sha256 |-> scan.shard]),
         !.shard = <<>>, !.shardRows = 0]

FullShard(scan) == IF scan.shardRows = call.records THEN EndShard(scan) ELSE scan

TakeByte(scan, byte) ==
  LET taken == [scan EXCEPT !.bytes = Append(@, byte), !.shard = Append(@, byte)]
  IN  IF byte = "l" THEN FullShard(EndRecord(taken))
      ELSE [taken EXCEPT !.record = Append(@, byte), !.invalid = @ \/ Len(scan.record) >= MaxRecord]

\* The last record may have no line feed, the last shard too few records.
EndScan(scan) ==
  LET last == IF scan.record = <<>> THEN scan ELSE FullShard(EndRecord(scan))
  IN  IF last.rows = 0 THEN [last EXCEPT !.invalid = TRUE]
      ELSE IF last.shardRows > 0 THEN EndShard(last) ELSE last

JsonlManifest(scan) ==
  [workload |-> "dataset_transform", processor |-> [type |-> "copy_text"], acceptance |-> "none",
   sources |-> <<[type |-> "dataset", path |-> call.path, sha256 |-> scan.bytes]>>,
   shards |-> [i \in DOMAIN scan.shards |->
                 [source |-> 1, path |-> call.path,
                  bounds |-> Joined([source_sha256 |-> scan.bytes], scan.shards[i])]]]

OpenJsonl ==
  /\ stage = "called" /\ call.builder = "jsonl"
  /\ IF call.records > 0 /\ Safe(call.path) /\ IsFile(call.path)
     THEN BuilderStep("scanning", Scan0)
     ELSE Refuse

\* readSync at the file's position: the next block of what the file now holds.
Block ==
  LET rest == SubSeq(disk[call.path].bytes, Len(work.bytes) + 1, Size(call.path))
  IN  SubSeq(rest, 1, Min({ReadBytes, Len(rest)}))

ScanBlock ==
  /\ stage = "scanning" /\ Block # <<>>
  /\ LET scan == FoldLeft(TakeByte, work, Block)
     IN  IF scan.invalid THEN Refuse ELSE BuilderStep("scanning", scan)

EndOfFile ==
  /\ stage = "scanning" /\ Block = <<>>
  /\ LET scan == EndScan(work)
     IN  IF scan.invalid THEN Refuse ELSE Return(JsonlManifest(scan))

JsonlNext == OpenJsonl \/ ScanBlock \/ EndOfFile

=============================================================================
