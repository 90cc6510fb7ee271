----------------------------- MODULE CorpusSource -----------------------------
(***************************************************************************)
(* One call of a manifest builder, the files it reads, and what becomes of *)
(* its manifest: the state the builders (TextBuilders, JsonlBuilder,       *)
(* ScanBuilders) share with the job that takes the manifest                *)
(* (CorpusManifests).                                                      *)
(*                                                                         *)
(* A file's bytes are a sequence of tokens.  "w" is a character of a word, *)
(* "s" white space, "h" the first character of a chapter heading, "B" a    *)
(* byte-order mark, "x" a byte that is not UTF-8; "j" is a piece of JSON,  *)
(* "l" a line feed, "{" the object of an outline; pages of a PDF and media *)
(* content are any tokens.  A SHA-256 digest is what it was taken of.      *)
(***************************************************************************)
EXTENDS Integers, Sequences, FiniteSets, SequencesExt, TLC

CONSTANTS
  Calls,      \* the calls: [builder, path, project, files, others, tools, the builder's options]
  MaxSource,  \* MAX_TEXT_SOURCE_BYTES and its like: bytes of a source
  MaxShards,  \* MAX_TEXT_SHARDS and its like: shards, sections, pages, files of a manifest
  MaxChars,   \* MAX_TEXT_MANIFEST_CHARS and its like: characters of a manifest's inline text
  MaxEdits    \* bound: edits of the files by other programs

ASSUME LimitsAssumption == MaxSource \in Nat /\ MaxShards \in Nat \ {0} /\ MaxChars \in Nat /\ MaxEdits \in Nat

Token == STRING
FileRecord == [kind : STRING, type : STRING, bytes : Seq(Token), mtime : Nat]

CallRecord ==
  [builder : {"text", "book", "translation", "longform", "jsonl", "ocr", "media"}, path : Nat, project : STRING,
   files : Seq(FileRecord), others : SUBSET FileRecord, tools : SUBSET STRING, editable : BOOLEAN,
   workload : STRING, chunk : Int, overlap : Int, prompt : Nat, expected : SUBSET Seq(Token),
   glossary : SUBSET [source : STRING, target : STRING], languages : Seq(STRING), concurrency : Int,
   ratio : Seq(Nat), text : Seq(Token), records : Int, pages : Int, engine : STRING, maxFiles : Int,
   recursive : BOOLEAN, nested : SUBSET Nat]

\* A call names one of its files; a translation may bring its text, a catalogue take the whole
\* directory.  The digest a caller writes into a manifest, <<"x">>, is that of no file.
ASSUME CallsAssumption ==
  \A c \in Calls :
    /\ c \in CallRecord
    /\ c.path \in DOMAIN c.files \/ (c.path = 0 /\ c.builder \in {"translation", "media"})
    /\ c.editable => \A file \in Range(c.files) \cup c.others : file.bytes # <<"x">>

VARIABLES
  call,      \* the builder's input, with the tools that are installed
  disk,      \* name (a number; 0 is no file) -> [kind, type, bytes, mtime]
  edits,     \* how often other programs have changed a file
  stage,     \* how far the call, then the job, has come
  work,      \* the locals of the builder, then of the job
  built,     \* history: the manifest the builder returned
  manifest,  \* the manifest as it is handed to plan and start
  planned,   \* the last plan: its verdict and the edits before it
  results    \* the shards processed: whether each was committed, and its input

vars == <<call, disk, edits, stage, work, built, manifest, planned, results>>

NoManifest == [sources |-> <<>>, shards |-> <<>>]

Init ==
  /\ call \in Calls
  /\ disk = call.files
  /\ edits = 0 /\ stage = "called" /\ work = <<>>
  /\ built = NoManifest /\ manifest = NoManifest
  /\ planned = [verdict |-> "none", edits |-> 0]
  /\ results = <<>>

\* hasKnownValue: an absent field is not in the record's domain.
Has(record, field) == field \in DOMAIN record

\* The fields of both: @@ of TLC, which has no meaning to the proof system.
Joined(record, more) ==
  [field \in DOMAIN record \cup DOMAIN more |-> IF field \in DOMAIN record THEN record[field] ELSE more[field]]

\* The numbers of a finite set, the least first.
InOrder(numbers) ==
  CHOOSE s \in [1 .. Cardinality(numbers) -> numbers] : \A i, j \in DOMAIN s : i < j => s[i] < s[j]

-----------------------------------------------------------------------------
(* The file system                                                         *)

\* inspectExistingPath: a link on the way, which may lead outside the input root.
Linked(name) == disk[name].kind = "symlink"

\* assertSafeSourcePath: a protected place or a sensitive name.
Barred(name) == disk[name].kind = "barred"

\* assertSafeCorpusSourcePath: neither of these, and no second name; an absent file passes.
Safe(name) == ~Linked(name) /\ ~Barred(name) /\ disk[name].kind # "hardlink"

\* statSync(...).isFile() and opening: links are followed.
IsFile(name) == disk[name].kind \in {"file", "symlink", "hardlink", "barred"}

Size(name) == Len(disk[name].bytes)

\* Another program rewrites or replaces a file, leaving bytes it never held before.
\* A file replaced while it is scanned is still read to its end: that is a replacement
\* after the scan, and only a rewrite in place is a step during it.
EditFile ==
  /\ edits < MaxEdits
  /\ stage \notin {"called", "refused", "turned_away", "done"}
  /\ \E name \in DOMAIN disk, file \in call.others :
       /\ stage = "scanning" => file.kind = disk[name].kind
       /\ <<file.kind, file.bytes>> # <<disk[name].kind, disk[name].bytes>>
       /\ disk' = [disk EXCEPT ![name] = [file EXCEPT !.mtime = disk[name].mtime + 1]]
  /\ edits' = edits + 1
  /\ UNCHANGED <<call, stage, work, built, manifest, planned, results>>

-----------------------------------------------------------------------------
(* Steps of a builder                                                      *)

\* The builder goes on with other locals, or throws.
BuilderStep(next, locals) ==
  /\ stage' = next /\ work' = locals
  /\ UNCHANGED <<call, disk, edits, built, manifest, planned, results>>

Refuse == BuilderStep("refused", <<>>)

Return(result) ==
  /\ stage' = "built" /\ work' = <<>>
  /\ built' = result /\ manifest' = result
  /\ UNCHANGED <<call, disk, edits, planned, results>>

=============================================================================
