--------------------------- MODULE MCCorpusManifests ---------------------------
EXTENDS CorpusManifests

File0(kind, type, bytes) == [kind |-> kind, type |-> type, bytes |-> bytes, mtime |-> 0]
Txt(bytes) == File0("file", "text", bytes)

\* What a call is unless it says otherwise; TLC needs every field.
Plain ==
  [builder |-> "text", path |-> 1, project |-> "named", files |-> <<Txt(<<"w", "w", "s", "w">>)>>, others |-> {},
   tools |-> {}, editable |-> FALSE, workload |-> "mixed", chunk |-> 2, overlap |-> 1, prompt |-> 1,
   expected |-> {}, glossary |-> {}, languages |-> <<"en", "fr">>, concurrency |-> 5, ratio |-> <<1, 4>>, text |-> <<>>,
   records |-> 2, pages |-> 0, engine |-> "auto", maxFiles |-> 3, recursive |-> FALSE, nested |-> {}]

Vary(changes) == {change @@ Plain : change \in changes}
Upto(n, alphabet) == UNION {[1 .. k -> alphabet] : k \in 0 .. n}

\* What an edit leaves: other bytes, a link, a directory, nothing.
Gone == {File0("missing", "text", <<>>), File0("directory", "text", <<>>)}
Rewritten == {Txt(<<"w", "h">>), File0("symlink", "text", <<"s", "w", "w">>)} \cup Gone

CutCalls ==
  Vary({[builder |-> b, chunk |-> c, overlap |-> o, files |-> <<Txt(t)>>] :
         b \in Cutters, c \in 0 .. MaxChunk + 1, o \in 0 .. 2,
         t \in {<<>>, <<"s", "s">>, <<"w">>, <<"w", "w", "h", "w", "s">>, <<"s", "h", "w", "w", "h", "w">>}})
  \cup Vary({[builder |-> "book", chunk |-> c, overlap |-> o, files |-> <<Txt(t)>>] :
         c \in {2, 3}, o \in {0, 1}, t \in Upto(5, {"w", "s", "h"})})
TextCalls ==
  Vary({[builder |-> b, files |-> <<f>>, others |-> o, editable |-> o = {}] :
         b \in Cutters \cup {"longform"}, o \in {Rewritten, {}},
         f \in {Txt(<<"w", "h", "w">>), Txt(<<"B", "w", "w">>), Txt(<<"w", "x">>), Txt(<<"{", "a", "b">>),
                Txt([i \in 1 .. MaxSource + 1 |-> "w"]), File0("barred", "text", <<"w">>)} \cup Gone})
  \cup Vary({[builder |-> b, project |-> p] : b \in Cutters \cup {"longform"}, p \in {"blank", "long"}})
  \cup Vary({[workload |-> w] : w \in {"translation", "media_catalogue", "book_reading", "dataset_transform", "ocr"}})
  \cup Vary({[builder |-> "book", prompt |-> 2], [builder |-> "book", expected |-> {<<"w", "s", "w">>}],
             [builder |-> "translation", glossary |-> {[source |-> "", target |-> "t"]}],
             [builder |-> "translation", glossary |-> {[source |-> "s", target |-> "{{text}}"]}],
             [builder |-> "translation", concurrency |-> 0], [builder |-> "book", concurrency |-> 101],
             [builder |-> "translation", languages |-> <<"en", "">>], [builder |-> "translation", ratio |-> <<4, 1>>],
             [builder |-> "translation", path |-> 0, text |-> <<"B", "s", "w">>, editable |-> TRUE],
             [builder |-> "translation", path |-> 0, text |-> [i \in 1 .. MaxSource + 1 |-> "w"]]})
OutlineCalls ==
  Vary({[builder |-> "longform", files |-> <<Txt(<<"{">> \o titles)>>] : titles \in Upto(3, {"a", "A", "b", ""})})
JsonlCalls ==
  Vary({[builder |-> "jsonl", records |-> r, files |-> <<Txt(t)>>] : r \in 0 .. 2, t \in Upto(6, {"j", "l"})})
  \cup Vary({[builder |-> "jsonl", files |-> <<Txt(t)>>] : t \in Upto(4, {"j", "l", "s", "x"})})
  \cup Vary({[builder |-> "jsonl", records |-> 1, editable |-> e, files |-> <<Txt(<<"j", "l", "j", "l", "j">>)>>,
              others |-> {Txt(<<"j", "l", "j", "j", "l", "j", "l">>), Txt(<<"j">>), Txt(<<"j", "j", "j", "l">>)} \cup Gone] :
             e \in BOOLEAN})
Pdf(pages) == File0("file", "pdf", pages)
OcrCalls ==
  Vary({[builder |-> "ocr", pages |-> p, engine |-> e, tools |-> t, editable |-> ed, files |-> <<Pdf(<<"p", "q">>)>>,
         others |-> {Pdf(<<"p", "q">>), Pdf(<<"p", "r">>), Pdf(<<"q", "p", "r">>), Pdf(<<>>), File0("missing", "pdf", <<>>)}] :
         p \in {0, 2, 3}, e \in {"auto", "tesseract"}, ed \in BOOLEAN,
         t \in {{}, {"pdfinfo", "tesseract"}, {"pdfinfo", "tesseract", "pdftoppm"}, {"pdfinfo", "focr"},
                {"swiftc"}, {"focr"}}})
  \cup Vary({[builder |-> "ocr", tools |-> {"tesseract"}, files |-> <<f>>, others |-> {File0("file", "image", <<"r">>)}] :
              f \in {File0("file", "image", <<"p">>), Txt(<<"w">>), Pdf(<<"p", "p", "p", "p", "p">>)}})
Video(bytes) == File0("file", "video", bytes)
MediaCalls ==
  Vary({[builder |-> "media", path |-> p, recursive |-> r, nested |-> {2}, maxFiles |-> m, tools |-> {"ffprobe"},
         editable |-> m = 2, others |-> o, files |-> <<Video(<<"p", "q">>), f, Txt(<<"w">>)>>] :
         p \in {0, 1}, r \in BOOLEAN, m \in 1 .. 3, o \in {{}, {Video(<<"p">>), File0("hardlink", "video", <<"p">>), Txt(<<"w">>)} \cup Gone},
         f \in {File0("file", "audio", <<"r">>), File0("symlink", "audio", <<"r">>), File0("barred", "audio", <<"r">>)}})
  \cup Vary({[builder |-> "media"]})

MCCalls == CutCalls \cup TextCalls \cup OutlineCalls \cup JsonlCalls \cup OcrCalls \cup MediaCalls
=============================================================================
