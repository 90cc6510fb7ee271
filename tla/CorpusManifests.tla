---------------------------- MODULE CorpusManifests ----------------------------
(***************************************************************************)
(* A corpus manifest from the builder that makes it to the shards that are *)
(* processed from it: the builders (TextBuilders, JsonlBuilder,            *)
(* ScanBuilders), the caller who holds the manifest in between and may     *)
(* edit it, corpusPlan, corpusStart and one pass over the shards           *)
(* (src/corpus.ts).  Retries, crashes and the ledger are CorpusLedger's,   *)
(* hosted batches CorpusHosted's; their shards are read here all the same. *)
(***************************************************************************)
EXTENDS TextBuilders, JsonlBuilder, ScanBuilders, WorkloadContract

\* The job goes on, or throws, with other locals and results.
JobStep(next, locals, processed) ==
  /\ stage' = next /\ work' = locals /\ results' = processed
  /\ UNCHANGED <<call, disk, edits, built, manifest, planned>>

-----------------------------------------------------------------------------
(* The caller, who has the manifest as a file or as the answer of a tool   *)

Without(record, field) == [f \in DOMAIN record \ {field} |-> record[f]]

\* A field of a shard or source is changed or left out, or the workload is another.
ShardEdits(shard) ==
  LET bounds == shard.bounds
  IN  {[shard EXCEPT !.bounds = Without(bounds, field)] :
         field \in DOMAIN bounds \cap {"shard_sha256", "source_sha256", "sidecar_sha256", "page_count"}}
      \cup (IF Has(shard, "text") THEN {[shard EXCEPT !.text = <<"w", "h", "w">>]} ELSE {})
      \cup (IF Has(bounds, "byte_end") THEN {[shard EXCEPT !.bounds.byte_end = @ - 1],
                                             [shard EXCEPT !.bounds.row_end = @ + 1]} ELSE {})
      \cup (IF Has(bounds, "page_number") THEN {[shard EXCEPT !.bounds.page_number = @ + 1]} ELSE {})
      \cup {[shard EXCEPT !.source = Len(manifest.sources) + 1]}

SourceEdits(source) == {Without(source, "sha256"), [source EXCEPT !.sha256 = <<"x">>]}

HandEdit ==
  /\ stage = "built" /\ manifest = built /\ call.editable
  /\ \/ \E i \in DOMAIN manifest.shards : \E shard \in ShardEdits(manifest.shards[i]) :
          manifest' = [manifest EXCEPT !.shards[i] = shard]
     \/ \E source \in SourceEdits(manifest.sources[1]) : manifest' = [manifest EXCEPT !.sources[1] = source]
     \/ manifest' = [manifest EXCEPT !.workload = "mixed"]
  /\ planned' = [planned EXCEPT !.verdict = "none"]
  /\ UNCHANGED <<call, disk, edits, stage, work, built, results>>

-----------------------------------------------------------------------------
(* Admission                                                               *)

\* corpusManifestSchema: a project has at most 128 characters.
Parses == call.project # "long" /\ Len(manifest.shards) \in 1 .. MaxShards

\* assertNotForbiddenPath, assertNotSensitiveSourcePath: corpus.ts has a list of its own.
Forbidden(name) == Barred(name)

\* assertShardInputsSafe: what is on disk at the sources' and shards' paths.
SourceSafe(source) ==
  Has(source, "path") => /\ Safe(source.path) /\ ~Forbidden(source.path)
                         /\ disk[source.path].kind # "missing"
                         /\ IsFile(source.path) => Has(source, "sha256")

ShardInputSafe(shard) ==
  Has(shard, "path") => /\ shard.source \in DOMAIN manifest.sources
                        /\ Has(manifest.sources[shard.source], "path")
                        /\ manifest.sources[shard.source].path = shard.path

InputsSafe ==
  /\ \A i \in DOMAIN manifest.sources : SourceSafe(manifest.sources[i])
  /\ \A i \in DOMAIN manifest.shards : ShardInputSafe(manifest.shards[i])

\* The digest a shard declares; a media shard's is its sidecar's.
Declared(shard) ==
  IF Has(shard.bounds, "shard_sha256") THEN {shard.bounds.shard_sha256}
  ELSE IF manifest.workload = "media_catalogue" /\ Has(shard.bounds, "sidecar_sha256")
       THEN {shard.bounds.sidecar_sha256} ELSE {}

DeclaredSource(shard) ==
  IF Has(shard.bounds, "source_sha256") THEN {shard.bounds.source_sha256}
  ELSE IF manifest.workload = "media_catalogue" /\ Has(shard.bounds, "sha256")
       THEN {shard.bounds.sha256} ELSE {}

\* Mutant: a page of an OCR source needs a digest too.
SourcesDeclared_PagesToo ==
  \A i \in DOMAIN manifest.shards :
    LET shard == manifest.shards[i]
    IN  /\ shard.source \in DOMAIN manifest.sources
        /\ Has(manifest.sources[shard.source], "path") => Declared(shard) # {}

\* ensureShardSources: every shard has a source, a file-backed one a digest.
SourcesDeclared ==
  \A i \in DOMAIN manifest.shards :
    LET shard == manifest.shards[i]
    IN  /\ shard.source \in DOMAIN manifest.sources
        /\ Has(manifest.sources[shard.source], "path") /\ manifest.workload # "ocr" => Declared(shard) # {}

\* verifySourceIntegrity: what the files now are, where sources have files.
Verified == [i \in {j \in DOMAIN manifest.sources :
                      Has(manifest.sources[j], "path") /\ IsFile(manifest.sources[j].path)} |->
               disk[manifest.sources[i].path].bytes]

SourcesIntact ==
  \A i \in DOMAIN manifest.sources :
    Has(manifest.sources[i], "path") =>
      /\ disk[manifest.sources[i].path].kind # "missing"
      /\ i \in DOMAIN Verified /\ Has(manifest.sources[i], "sha256") => manifest.sources[i].sha256 = Verified[i]

\* verifyShardInputIntegrity.
InputIntact(shard, input, verified) ==
  /\ Declared(shard) \subseteq {input}
  /\ shard.source \in DOMAIN verified => DeclaredSource(shard) \subseteq {verified[shard.source]}

\* verifyInlineShardIntegrity.
InlineIntact ==
  \A i \in DOMAIN manifest.shards :
    Has(manifest.shards[i], "text") => InputIntact(manifest.shards[i], manifest.shards[i].text, Verified)

-----------------------------------------------------------------------------
(* corpusPlan                                                              *)

\* The engine "auto" selects.
AutoEngine ==
  IF Installed("focr") THEN "focr"
  ELSE IF Installed("tesseract") THEN "tesseract"
  ELSE IF Installed("swiftc") THEN "macos_vision" ELSE "none"

Engine == IF manifest.processor.engine = "auto" THEN AutoEngine ELSE manifest.processor.engine

HasPdf == \E i \in DOMAIN manifest.sources : manifest.sources[i].type = "pdf"

EngineInstalled ==
  /\ CASE Engine = "none" -> FALSE [] Engine = "macos_vision" -> Installed("swiftc") [] OTHER -> Installed(Engine)
  /\ Engine = "tesseract" /\ HasPdf => Installed("pdftoppm")

\* corpusPreflight, toolsForManifest: only OCR has required tools.
ToolsReady == manifest.processor.type = "local_ocr" => EngineInstalled

\* Mutant: the plan forgets the workload's contract.
PlanOk_AnyWorkload == ToolsReady

PlanOk == ToolsReady /\ ContractHolds(manifest)

Plan ==
  /\ stage = "built" /\ planned.verdict = "none"
  /\ planned' = [edits |-> edits,
                 verdict |-> IF ~(Parses /\ InputsSafe /\ SourcesDeclared /\ SourcesIntact /\ InlineIntact)
                             THEN "throws" ELSE IF PlanOk THEN "ok" ELSE "blocked"]
  /\ UNCHANGED <<call, disk, edits, stage, work, built, manifest, results>>

-----------------------------------------------------------------------------
(* corpusStart and the pass it begins                                      *)

\* assertCorpusWorkloadContract.
ContractEnforced == manifest.workload \in {"translation", "media_catalogue"} => ContractHolds(manifest)

\* What start checks before it hashes the sources.
StartChecks ==
  /\ stage = "built"
  /\ IF Parses /\ ContractEnforced /\ InputsSafe /\ SourcesDeclared
     THEN JobStep("checked", work, results)
     ELSE JobStep("turned_away", work, results)

StartVerifies ==
  /\ stage = "checked"
  /\ IF SourcesIntact /\ InlineIntact
     THEN JobStep("admitted", work, results)
     ELSE JobStep("turned_away", work, results)

\* corpusResumeSync: a pass checks and hashes the sources again.  It throws when they
\* have changed, and the job waits for a pass that finds them as they were.
BeginPass ==
  /\ stage = "admitted"
  /\ SourcesDeclared /\ InputsSafe /\ SourcesIntact
  /\ JobStep("working", [verified |-> Verified], results)

Shard == manifest.shards[Len(results) + 1]

\* The shard under way is committed, or marked failed; the pass goes on.
Settle(ok, input) ==
  LET processed == Append(results, [ok |-> ok, input |-> input])
  IN  JobStep(IF Len(processed) = Len(manifest.shards) THEN "done" ELSE "working",
              [verified |-> work.verified], processed)

\* readShardInput: the inline text, or a range of bytes that is within the file.
RangeReadable(shard) ==
  /\ IsFile(shard.path)
  /\ shard.bounds.byte_end > shard.bounds.byte_start /\ shard.bounds.byte_end <= Size(shard.path)

Slice(bytes, bounds) == SubSeq(bytes, bounds.byte_start + 1, bounds.byte_end)

ShardInput(shard) == IF Has(shard, "text") THEN shard.text ELSE Slice(disk[shard.path].bytes, shard.bounds)

InputAccepted(shard) ==
  /\ ~Has(shard, "text") => RangeReadable(shard) /\ Decodes(ShardInput(shard))
  /\ InputIntact(shard, ShardInput(shard), work.verified)

ProcessShard ==
  /\ stage = "working" /\ manifest.processor.type # "local_ocr"
  /\ IF InputAccepted(Shard) THEN Settle(TRUE, ShardInput(Shard)) ELSE Settle(FALSE, <<>>)

\* validateBounds: one page of a PDF, its count checked against the file once more.
PageValid(bounds) ==
  /\ bounds.page_number = bounds.page_start /\ bounds.page_start = bounds.page_end
  /\ LET supplied == IF Has(bounds, "page_count") THEN bounds.page_count ELSE 0
     IN  IF disk[Shard.path].type = "image" THEN bounds.page_number = 1
         ELSE /\ CountAgrees(Shard.path, supplied)
              /\ bounds.page_number <= Counted(supplied, Detected(Shard.path, supplied))

\* runEngine: the text of one page, as a PDF page rendered first or read by the engine itself.
PageText(name, page) == <<disk[name].bytes[page]>>

\* extractOcrShard: the engine finds text on the page of what the file now is, or fails.
Extract ==
  /\ stage = "working" /\ manifest.processor.type = "local_ocr"
  /\ \/ /\ OcrSource(Shard.path) /\ PageValid(Shard.bounds) /\ EngineInstalled
        /\ Shard.bounds.page_number <= Size(Shard.path)
        /\ JobStep("extracted", Joined(work, [text |-> PageText(Shard.path, Shard.bounds.page_number)]), results)
     \/ Settle(FALSE, <<>>)

\* Mutant: the source is not hashed again after OCR.
Rehash_NotTaken ==
  /\ stage = "extracted"
  /\ Settle(TRUE, work.text)

\* The source must still be what the pass verified.
Rehash ==
  /\ stage = "extracted"
  /\ IF /\ IsFile(Shard.path)
        /\ Shard.source \in DOMAIN work.verified =>
             disk[Shard.path].bytes = work.verified[Shard.source]
     THEN Settle(TRUE, work.text)
     ELSE Settle(FALSE, <<>>)

Next ==
  \/ TextNext \/ JsonlNext \/ ScanNext
  \/ EditFile \/ HandEdit
  \/ Plan \/ StartChecks \/ StartVerifies \/ BeginPass
  \/ ProcessShard \/ Extract \/ Rehash

Spec == Init /\ [][Next]_vars

-----------------------------------------------------------------------------
(* Properties                                                              *)

TypeOK ==
  /\ DOMAIN disk = DOMAIN call.files /\ edits \in 0 .. MaxEdits
  /\ stage \in {"called", "opened", "read", "cutting", "scanning", "counting", "counted", "hashing", "probing",
                "rehashing", "sizing", "refused", "built", "checked", "admitted", "turned_away", "working",
                "extracted", "done"}
  /\ planned.verdict \in {"none", "ok", "blocked", "throws"} /\ planned.edits \in 0 .. edits
  /\ Len(results) <= Len(manifest.shards) /\ Len(built.shards) <= MaxShards

\* What the manifest says its first source was, and the text of it.
SourceAsRead == built.sources[1].sha256
TextAsRead   == IF call.builder \in {"text", "translation"} THEN SourceAsRead ELSE Decoded(SourceAsRead)

Consecutive(Follows(_, _)) ==
  \A i \in 1 .. Len(built.shards) - 1 : Follows(built.shards[i].bounds, built.shards[i + 1].bounds)

\* Every shard is its part of the text; nothing but blank front matter is left out; shards
\* overlap as was asked within a chapter and not across chapters, each brings something
\* new, and none runs over a heading; there are as many as the plan was bounded for.
TextIsCovered ==
  LET shards == built.shards
      holds(i, p) == shards[i].bounds.start_char < p /\ p <= shards[i].bounds.end_char
      follows(a, b) ==
        IF call.builder = "book" /\ a.chapter # b.chapter
        THEN b.start_char >= a.end_char
        ELSE b.start_char + call.overlap = a.end_char /\ b.end_char > a.end_char
  IN  /\ \A i \in DOMAIN shards :
           shards[i].text = SubSeq(TextAsRead, shards[i].bounds.start_char + 1, shards[i].bounds.end_char)
      /\ \A p \in DOMAIN TextAsRead :
           (call.builder = "book" /\ Blank(SubSeq(TextAsRead, 1, p))) \/ \E i \in DOMAIN shards : holds(i, p)
      /\ Consecutive(follows)
      /\ call.builder = "book" => \A p \in DOMAIN TextAsRead, i \in DOMAIN shards :
           TextAsRead[p] = "h" /\ holds(i, p) => p = shards[i].bounds.start_char + 1
      /\ Len(shards) = SumOver(ShardCount, Segments(TextAsRead))
      /\ Sum([i \in DOMAIN shards |-> Len(shards[i].text)]) <= MaxChars

\* The shards' bytes and rows tile the bytes that were digested, in full shards but the last.
RowsAreCovered ==
  LET bounds(i) == built.shards[i].bounds
      part(i) == Slice(SourceAsRead, bounds(i))
      rows(bytes) == Cardinality({p \in DOMAIN bytes : bytes[p] = "l" \/ p = Len(bytes)})
      follows(a, b) == b.byte_start = a.byte_end /\ b.row_start = a.row_end + 1 /\ a.row_count = call.records
      last == Len(built.shards)
  IN  /\ bounds(1).byte_start = 0 /\ bounds(1).row_start = 1
      /\ bounds(last).byte_end = Len(SourceAsRead) /\ bounds(last).row_count <= call.records
      /\ Consecutive(follows)
      /\ \A i \in 1 .. last : /\ bounds(i).shard_sha256 = part(i) /\ bounds(i).row_count = rows(part(i))
                             /\ RowsAgree(built.shards[i])

\* One shard a page, as many as the file digested has unless it changed after the count.
PagesAreCovered ==
  /\ \A i \in DOMAIN built.shards : built.shards[i].bounds.page_number = i
  /\ edits = 0 /\ built.sources[1].type = "pdf" /\ CountsPages(call.pages) =>
       Len(built.shards) = Len(SourceAsRead)

\* One shard a file, no file twice, and the duration that of the content digested.
MediaIsCatalogued ==
  /\ Len(built.shards) = Len(built.sources)
  /\ \A i, j \in DOMAIN built.sources : built.sources[i].path = built.sources[j].path => i = j
  /\ \A i \in DOMAIN built.shards : built.shards[i].bounds.duration_seconds = Duration(built.sources[i].sha256)

\* A manifest that a builder returns declares the whole of the source it digested, in order,
\* through every edit of the file while the builder reads it (chunkText, scanJsonlFile,
\* buildOcrCorpusManifest, buildMediaCorpusManifest).
ManifestIsWhole ==
  built # NoManifest =>
    CASE call.builder \in Cutters -> TextIsCovered
      [] call.builder = "jsonl" -> RowsAreCovered
      [] call.builder = "longform" -> built.shards = SectionShards(TextAsRead, SourceAsRead)
      [] call.builder = "ocr" -> PagesAreCovered
      [] call.builder = "media" -> MediaIsCatalogued

\* What the builder declared the i-th shard to be.
Part(i) ==
  LET shard == built.shards[i]
  IN  IF Has(shard, "text") THEN shard.text
      ELSE IF Has(shard.bounds, "byte_end") THEN Slice(SourceAsRead, shard.bounds)
      ELSE <<SourceAsRead[shard.bounds.page_number]>>

\* A shard is committed with the part of the source its builder declared, of the revision it
\* digested, whatever another program did to the file or the caller to one field of the
\* manifest; and when pdfinfo is there to recheck the count, a PDF whose shards are all
\* committed has been read to its last page (processCorpusShard, verifyShardInputIntegrity).
\* A page of a file that was changed and, before it is hashed again, changed back is the
\* exception: a second edit hides the first from the OCR pass.
ProcessedIsDeclared ==
  /\ \A i \in DOMAIN results :
       results[i].ok /\ (call.builder = "ocr" => edits < 2) => results[i].input = Part(i)
  /\ stage = "done" /\ call.builder = "ocr" /\ edits < 2 /\ (\A i \in DOMAIN results : results[i].ok)
     /\ built.sources[1].type = "pdf" /\ Installed("pdfinfo") /\ manifest = built
     => Len(results) = Len(SourceAsRead)

\* Manifests the builders return and start can never take: a project name the schema finds
\* too long, a byte-order mark the digest of the decoded text has lost, a workload the text
\* builder does not serve, a sensitive name in a media directory.
NeverAdmitted ==
  \/ call.project = "long"
  \/ /\ call.builder \in {"text", "translation"} /\ FromFile
     /\ Source # Decoded(Source)
  \/ /\ call.builder = "text"
     /\ call.workload \in {"translation", "media_catalogue"}
  \/ /\ call.builder = "media"
     /\ \E i \in DOMAIN built.sources : ~Safe(built.sources[i].path)

\* A manifest as its builder returned it is turned away only when a file has changed since
\* the builder began, or for one of those reasons (corpusStartSync).
RefusedOnlyIfChanged ==
  stage = "turned_away" /\ manifest = built /\ edits = 0 => NeverAdmitted

\* A plan that said ok is honoured: start turns the manifest away afterwards only when a file
\* has changed since the plan, however the caller edited the manifest before it (corpusPlan
\* and corpusStartSync make the same checks in two places, start in two steps).
PlanIsHonoured ==
  stage = "turned_away" /\ planned.verdict = "ok" => planned.edits < edits

=============================================================================
