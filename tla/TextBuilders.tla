----------------------------- MODULE TextBuilders -----------------------------
(***************************************************************************)
(* The builders that cut a text: buildTextCorpusManifest                   *)
(* (src/corpus_ingest.ts), buildBookCorpusManifest and                     *)
(* buildLongformCorpusManifest (src/corpus_authoring.ts),                  *)
(* buildTranslationCorpusManifest (src/corpus_translation.ts).             *)
(*                                                                         *)
(* Each checks its options and stats the file, then reads it, then cuts it *)
(* in memory; one iteration of the cutting loop is one step.               *)
(***************************************************************************)
EXTENDS CorpusSource

CONSTANT MaxChunk  \* MAX_TEXT_CHUNK_CHARS and its like
ASSUME MaxChunkAssumption == MaxChunk \in Nat \ {0}

Cutters == {"text", "book", "translation"}

-----------------------------------------------------------------------------
(* Options                                                                 *)

\* validateChunkOptions; integerOption of the book's.
ChunkOptionsValid == call.chunk \in 1 .. MaxChunk /\ call.overlap \in 0 .. call.chunk - 1

\* choosePrompt, validatePromptTemplate: a prompt without {{text}} gets one; two are refused.
PromptValid == call.prompt <= 1

\* buildProcessor's options have their ranges; the number of requests at once stands for them.
ProcessorValid == call.concurrency \in 1 .. 100

\* requiredText of the project; the text builder leaves the project to the schema.
\* The translation builder names the project itself when it is blank.
ProjectValid == call.project # "blank" \/ call.builder \in {"text", "translation"}

\* parseGlossaryValue, glossaryTermFromValue, validateGlossaryTerm: every term has a source and a target.
GlossaryValid == \A term \in call.glossary : term.source # "" /\ term.target # ""

\* buildTranslationProcessor writes the glossary into the prompt, which must then hold {{text}} once.
GlossaryFitsPrompt == \A term \in call.glossary : "{{text}}" \notin {term.source, term.target}

\* normaliseLanguage, ratioBound: languages are codes and the ratio's bounds are in order.
LanguagesValid == "" \notin Range(call.languages) /\ call.ratio[1] <= call.ratio[2]

OptionsValid ==
  /\ ProjectValid
  /\ call.builder \in Cutters => ChunkOptionsValid
  /\ call.builder \in {"book", "longform"} => PromptValid
  /\ call.builder \in {"book", "longform", "translation"} => ProcessorValid
  /\ call.builder = "translation" => GlossaryValid /\ GlossaryFitsPrompt /\ LanguagesValid

-----------------------------------------------------------------------------
(* The text                                                                *)

Decodes(bytes) == "x" \notin Range(bytes)

\* A translation may be given its text in the call.
FromFile == call.path # 0

\* The TextDecoder of a file strips the byte-order mark.
Decoded(bytes) == IF FromFile /\ bytes # <<>> /\ Head(bytes) = "B" THEN Tail(bytes) ELSE bytes
Blank(text) == Range(text) \subseteq {"s"}

\* The text builder refuses the empty text, the others a blank one.
Empty(text) == IF call.builder = "text" THEN text = <<>> ELSE Blank(text)

\* The text and translation builders digest the decoded text, the others the bytes.
DigestOf(bytes) == IF call.builder \in {"text", "translation"} THEN Decoded(bytes) ELSE bytes

Headings(text) == {p \in 0 .. Len(text) - 1 : text[p + 1] = "h"}

Chapters(text) ==
  LET starts == InOrder(Headings(text))
      end(i) == IF i = Len(starts) THEN Len(text) ELSE starts[i + 1]
  IN  [i \in DOMAIN starts |-> [from |-> starts[i], to |-> end(i), chapter |-> i]]

\* Mutant: what comes before the first heading is left out.
Segments_NoFrontMatter(text) ==
  IF call.builder # "book" \/ Headings(text) = {}
  THEN <<[from |-> 0, to |-> Len(text), chapter |-> 1]>>
  ELSE Chapters(text)

\* detectBookSegments; the other builders cut the whole text.
Segments(text) ==
  IF call.builder # "book" \/ Headings(text) = {}
  THEN <<[from |-> 0, to |-> Len(text), chapter |-> 1]>>
  ELSE LET front == [from |-> 0, to |-> Chapters(text)[1].from, chapter |-> 0]
       IN  (IF Blank(SubSeq(text, 1, front.to)) THEN <<>> ELSE <<front>>) \o Chapters(text)

-----------------------------------------------------------------------------
(* The bound on the plan, in closed form                                   *)

Step == call.chunk - call.overlap

ShardCount(chars) ==
  IF chars <= call.chunk THEN 1 ELSE 1 + (chars - call.chunk + Step - 1) \div Step

\* Every shard is full but the last.
Materialised(chars) ==
  IF chars <= call.chunk THEN chars
  ELSE (ShardCount(chars) - 1) * call.chunk + chars - (ShardCount(chars) - 1) * Step

Sum(numbers) == FoldLeft(LAMBDA sum, n : sum + n, 0, numbers)

SumOver(Of(_), segments) == Sum([i \in DOMAIN segments |-> Of(segments[i].to - segments[i].from)])

\* assertTextShardPlanBounded, assertTranslationShardPlanBounded, assertBookShardPlanBounded.
PlanBounded(segments) ==
  /\ SumOver(ShardCount, segments) <= MaxShards
  /\ SumOver(Materialised, segments) <= MaxChars

-----------------------------------------------------------------------------
(* The manifests                                                           *)

TextSource(digest) ==
  Joined([type |-> "text", sha256 |-> digest], IF FromFile THEN [path |-> call.path] ELSE <<>>)

ManifestOf(workload, processor, digest, shards) ==
  [workload |-> workload, processor |-> [type |-> processor], acceptance |-> call.builder,
   sources |-> <<TextSource(digest)>>, shards |-> shards]

\* The text of a shard, where it is and the digests of both.
CutShard(from, to) ==
  LET slice == SubSeq(work.text, from + 1, to)
  IN  [source |-> 1, text |-> slice,
       bounds |-> [start_char |-> from, end_char |-> to,
                   source_sha256 |-> work.digest, shard_sha256 |-> slice]]

With(shard, bounds) == [shard EXCEPT !.bounds = Joined(bounds, @)]

TextShard(from, to) == CutShard(from, to)
BookShardOf(segment, from, to) == With(CutShard(from, to), [chapter |-> segment.chapter])
TranslationShardOf(from, to) ==
  With(CutShard(from, to), [source_lang |-> call.languages[1], target_lang |-> call.languages[2]])

TextManifest(shards) == ManifestOf(call.workload, "copy_text", work.digest, shards)
BookManifest(shards) == ManifestOf("book_reading", "deepseek_batch", work.digest, shards)
TranslationManifest(shards) == ManifestOf("translation", "deepseek_batch", work.digest, shards)
LongformManifest(digest, shards) == ManifestOf("longform_generation", "deepseek_batch", digest, shards)

-----------------------------------------------------------------------------
(* Steps                                                                   *)

\* The options, and the path and the stat of the file.
OpenText ==
  /\ stage = "called" /\ call.builder \in Cutters \cup {"longform"}
  /\ IF /\ OptionsValid
        /\ FromFile => Safe(call.path) /\ IsFile(call.path) /\ Size(call.path) <= MaxSource
        /\ ~FromFile => Len(call.text) <= MaxSource
     THEN BuilderStep("opened", work)
     ELSE Refuse

\* The read of the file, and what is checked of its text before it is cut.
Readable(bytes) ==
  /\ FromFile => IsFile(call.path)
  /\ Decodes(bytes) /\ ~Empty(Decoded(bytes))
  /\ call.builder \in {"book", "longform"} => call.expected \subseteq {bytes}  \* validateExpectedHash

Source == IF FromFile THEN disk[call.path].bytes ELSE call.text

ReadText ==
  /\ stage = "opened" /\ call.builder \in Cutters
  /\ IF Readable(Source) /\ PlanBounded(Segments(Decoded(Source)))
     THEN BuilderStep(IF call.builder = "translation" /\ FromFile THEN "read" ELSE "cutting",
                      [text |-> Decoded(Source), digest |-> DigestOf(Source), at |-> 0,
                       segments |-> Segments(Decoded(Source)), shards |-> <<>>])
     ELSE Refuse

\* sourcePathFromInput: the translation builder checks the path once more.
RecheckPath ==
  /\ stage = "read"
  /\ IF Safe(call.path) THEN BuilderStep("cutting", work) ELSE Refuse

ShardOf(segment, from, to) ==
  CASE call.builder = "text" -> TextShard(from, to)
    [] call.builder = "book" -> BookShardOf(segment, from, to)
    [] call.builder = "translation" -> TranslationShardOf(from, to)

CutManifest(shards) ==
  CASE call.builder = "text" -> TextManifest(shards)
    [] call.builder = "book" -> BookManifest(shards)
    [] call.builder = "translation" -> TranslationManifest(shards)

\* One iteration of chunkText, appendBookSegmentShards or chunkTranslationText.
Cut ==
  /\ stage = "cutting" /\ call.builder \in Cutters
  /\ LET segment == Head(work.segments)
         from    == segment.from + work.at
         to      == IF from + call.chunk < segment.to THEN from + call.chunk ELSE segment.to
         shards  == Append(work.shards, ShardOf(segment, from, to))
     IN  \/ /\ to < segment.to
            /\ BuilderStep("cutting", [work EXCEPT !.shards = shards, !.at = @ + Step])
         \/ /\ to = segment.to /\ Tail(work.segments) # <<>>
            /\ BuilderStep("cutting", [work EXCEPT !.shards = shards, !.at = 0, !.segments = Tail(@)])
         \/ /\ to = segment.to /\ Tail(work.segments) = <<>>
            /\ Return(CutManifest(shards))

-----------------------------------------------------------------------------
(* The outline: "{" and the titles of its sections                         *)

LowerCase(title) == IF title = "A" THEN "a" ELSE title
Sections(text) == Tail(text)

\* parseOutline.
OutlineValid(text) ==
  /\ Head(text) = "{"
  /\ Len(Sections(text)) \in 1 .. MaxShards
  /\ "" \notin Range(Sections(text))
  /\ \A i, j \in DOMAIN Sections(text) :
       LowerCase(Sections(text)[i]) = LowerCase(Sections(text)[j]) => i = j

\* formatOutlineSection: the outline, the section's place and its brief.
SectionText(text, i) == <<"{", ToString(i), ToString(Len(Sections(text))), Sections(text)[i]>>

SectionShards(text, digest) ==
  [i \in DOMAIN Sections(text) |->
     [source |-> 1, text |-> SectionText(text, i),
      bounds |-> [section_index |-> i, section_count |-> Len(Sections(text)),
                  source_sha256 |-> digest, shard_sha256 |-> SectionText(text, i)]]]

ReadOutline ==
  /\ stage = "opened" /\ call.builder = "longform"
  /\ IF /\ Readable(Source) /\ OutlineValid(Decoded(Source))
        /\ 4 * Len(Sections(Decoded(Source))) <= MaxChars
     THEN Return(LongformManifest(Source, SectionShards(Decoded(Source), Source)))
     ELSE Refuse

TextNext == OpenText \/ ReadText \/ RecheckPath \/ Cut \/ ReadOutline

=============================================================================
