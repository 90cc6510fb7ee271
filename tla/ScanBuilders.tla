----------------------------- MODULE ScanBuilders -----------------------------
(***************************************************************************)
(* The builders that ask a tool what a file holds and digest it in another *)
(* call: buildOcrCorpusManifest (src/corpus_ocr.ts) counts pages, then     *)
(* hashes; buildMediaCorpusManifest (src/corpus_media.ts) hashes, probes   *)
(* and hashes again, file by file.  The file may change in between.        *)
(***************************************************************************)
EXTENDS CorpusSource

Installed(tool) == tool \in call.tools

-----------------------------------------------------------------------------
(* OCR                                                                     *)

\* readSource: a file that is not empty, by its name a PDF or an image.
OcrSource(name) ==
  Safe(name) /\ IsFile(name) /\ Size(name) > 0 /\ disk[name].type \in {"pdf", "image"}

OpenOcr ==
  /\ stage = "called" /\ call.builder = "ocr"
  /\ IF call.project # "blank" /\ OcrSource(call.path)
     THEN BuilderStep("counting", work)
     ELSE Refuse

CountsPages(supplied) == Installed("pdfinfo") \/ (supplied = 0 /\ Installed("swiftc"))

\* detectPdfPageCount: pdfinfo, or the Vision adapter when no count was supplied; 0 is none.
\* A tool that fails on the file counts as absent; a hit in the page count cache is the
\* answer of the same tool to the same file.
Detected(name, supplied) ==
  IF IsFile(name) /\ CountsPages(supplied) THEN Size(name) ELSE 0

Counted(supplied, detected) == IF supplied # 0 THEN supplied ELSE detected

\* determinePdfPageCount throws unless there is a count and the two agree.
CountAgrees(name, supplied) ==
  LET detected == Detected(name, supplied)
  IN  /\ disk[name].kind # "missing"
      /\ Counted(supplied, detected) \in 1 .. MaxShards
      /\ supplied # 0 /\ detected # 0 => supplied = detected

CountPages ==
  /\ stage = "counting"
  /\ IF disk[call.path].type = "image"
     THEN BuilderStep("counted", [pages |-> 1])
     ELSE IF CountAgrees(call.path, call.pages)
     THEN \/ BuilderStep("counted", [pages |-> Counted(call.pages, Detected(call.path, call.pages))])
          \/ CountsPages(call.pages) /\ Refuse  \* it times out
     ELSE Refuse

OcrManifest(pages, digest) ==
  [workload |-> "ocr", processor |-> [type |-> "local_ocr", engine |-> call.engine], acceptance |-> "none",
   sources |-> <<[type |-> disk[call.path].type, path |-> call.path, sha256 |-> digest]>>,
   shards |-> [page \in 1 .. pages |->
                 [source |-> 1, path |-> call.path,
                  bounds |-> [page_number |-> page, page_start |-> page, page_end |-> page,
                              page_count |-> pages]]]]

HashPages ==
  /\ stage = "counted"
  /\ IF IsFile(call.path) THEN Return(OcrManifest(work.pages, disk[call.path].bytes)) ELSE Refuse

-----------------------------------------------------------------------------
(* Media                                                                   *)

\* visitDirectory: what is in the directory, and below it when recursive.  Path 0 is the
\* directory itself; names in it are not held against the sensitive ones.
Entries ==
  IF call.path # 0 THEN {call.path}
  ELSE {name \in DOMAIN disk : /\ disk[name].kind \notin {"missing", "directory"}
                               /\ name \in call.nested => call.recursive}

RegularFiles == {name \in Entries : disk[name].kind \in {"file", "barred"}}

OpenMedia ==
  /\ stage = "called" /\ call.builder = "media"
  /\ IF /\ call.project # "blank" /\ call.maxFiles \in 1 .. MaxShards
        /\ call.path # 0 => Safe(call.path) /\ IsFile(call.path)
        /\ RegularFiles = Entries /\ Cardinality(Entries) \in 1 .. call.maxFiles
     THEN BuilderStep("hashing", [files |-> InOrder(Entries), sources |-> <<>>, shards |-> <<>>])
     ELSE Refuse

File == Head(work.files)

MediaManifest(catalogue) ==
  [workload |-> "media_catalogue", processor |-> [type |-> "copy_text"], acceptance |-> "none",
   sources |-> catalogue.sources, shards |-> catalogue.shards]

\* The next file, or the end of them.
Proceed(catalogue) ==
  IF Len(catalogue.files) > 1
  THEN BuilderStep("hashing", [catalogue EXCEPT !.files = Tail(@)])
  ELSE IF catalogue.sources = <<>> THEN Refuse ELSE Return(MediaManifest(catalogue))

\* statSync, then hashFile, which follows no link.
Hashable(name) == disk[name].kind \in {"file", "barred"}

HashBefore ==
  /\ stage = "hashing"
  /\ IF Hashable(File)
     THEN BuilderStep("probing", Joined(work, [before |-> disk[File]]))
     ELSE Refuse

\* probeMedia: ffprobe may be absent or time out; a file it finds no stream in is skipped.
IsMedia(name) == IsFile(name) /\ disk[name].type \in {"audio", "video"}
Duration(bytes) == Len(bytes)

Catalogue == [files |-> work.files, sources |-> work.sources, shards |-> work.shards]

Probe ==
  /\ stage = "probing"
  /\ \/ /\ Installed("ffprobe") /\ IsMedia(File)
        /\ BuilderStep("rehashing", Joined(work, [type |-> disk[File].type, duration |-> Duration(disk[File].bytes)]))
     \/ Installed("ffprobe") /\ ~IsMedia(File) /\ Proceed(Catalogue)
     \/ Refuse

HashAfter ==
  /\ stage = "rehashing"
  /\ IF Hashable(File) /\ <<disk[File].bytes, disk[File].mtime>> = <<work.before.bytes, work.before.mtime>>
     THEN BuilderStep("sizing", work)
     ELSE Refuse

\* The sidecar's size is that of one more stat.
Sidecar(size) ==
  <<work.type, ToString(work.duration), ToString(size)>> \o work.before.bytes

AddMedia ==
  /\ stage = "sizing"
  /\ IF ~IsFile(File) THEN Refuse
     ELSE LET source == [type |-> work.type, path |-> File, sha256 |-> work.before.bytes]
              shard  == [source |-> Len(work.sources) + 1, text |-> Sidecar(Size(File)),
                         bounds |-> [duration_seconds |-> work.duration, sha256 |-> work.before.bytes,
                                     sidecar_sha256 |-> Sidecar(Size(File))]]
          IN  Proceed([Catalogue EXCEPT !.sources = Append(@, source), !.shards = Append(@, shard)])

ScanNext ==
  \/ OpenOcr \/ CountPages \/ HashPages
  \/ OpenMedia \/ HashBefore \/ Probe \/ HashAfter \/ AddMedia

=============================================================================
