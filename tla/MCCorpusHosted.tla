--------------------------- MODULE MCCorpusHosted ---------------------------
(* A batch whose first shard an owner has translated, the second has two        *)
(* attempts, and the same with a first text that is not normalised and one      *)
(* attempt; one that is cut by bytes, with a memory row nobody reviewed; one    *)
(* with an oversized shard and an empty memory.                                 *)
EXTENDS CorpusHosted, TLC

CONSTANTS a, b

TwoTexts == {a, b}

Knows(r) == [s \in Shards |-> IF s = 1 THEN [text |-> a, reviewed |-> r] ELSE None]

FourSettings ==
  {[size |-> 1 :> 1 @@ 2 :> 1, raw |-> {}, memory |-> Knows(TRUE), retries |-> 2],
   [size |-> 1 :> 1 @@ 2 :> 1, raw |-> {1}, memory |-> Knows(TRUE), retries |-> 1],
   [size |-> 1 :> 2 @@ 2 :> 1, raw |-> {2}, memory |-> Knows(FALSE), retries |-> 1],
   [size |-> 1 :> 3 @@ 2 :> 1, raw |-> {}, memory |-> [s \in Shards |-> None], retries |-> 1]}
=============================================================================
