--------------------------- MODULE MCCorpusLedger ---------------------------
(* Two texts for CorpusLedger, the first a truncation of the second. *)
EXTENDS CorpusLedger

CONSTANTS short, long

TwoTexts == {short, long}
Unrelated == {}
ShortTruncatesLong == {<<short, long>>}
=============================================================================
