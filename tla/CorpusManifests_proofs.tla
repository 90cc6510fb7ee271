------------------------ MODULE CorpusManifests_proofs ------------------------
(***************************************************************************)
(* Theorems about CorpusManifests, for every set of calls, files and       *)
(* limits: a plan is honoured; the manifest of every builder declares the  *)
(* whole of the source it digested; it is refused only if a file has       *)
(* changed; and what is processed is what it declared.  The second follows *)
(* from what the builders' loops keep: the scan of a file of records       *)
(* (ScanningInv), the count of pages (CountingInv), the catalogue of media *)
(* (CataloguingInv) and the cutting of a text (CutInv).  The last two rest *)
(* on the shape of what was returned (BuiltInv) and on what one edit by    *)
(* hand leaves of it (HandInv), the pass over it (PassInv) and other       *)
(* programs of its pages (PagesInv).                                       *)
(***************************************************************************)
EXTENDS CorpusManifests, TLAPS, NaturalsInduction, FiniteSetTheorems, FunctionTheorems, SequenceTheorems

-----------------------------------------------------------------------------
(* A plan that said ok is honoured                                         *)

\* A builder is at work, and nothing has been planned.
BuilderStages ==
  {"called", "opened", "read", "cutting", "scanning", "counting", "counted", "hashing", "probing", "rehashing",
   "sizing"}

\* What start checks, in its two steps.
Admissible == Parses /\ ContractHolds(manifest) /\ InputsSafe /\ SourcesDeclared /\ SourcesIntact /\ InlineIntact

\* Why a plan is honoured: as long as no file changes after a plan that said ok, the
\* manifest in hand is one that start's checks pass.
PlanInv ==
  /\ edits \in Nat
  /\ planned \in [edits : Nat, verdict : {"none", "ok", "blocked", "throws"}] /\ planned.edits <= edits
  /\ stage \in BuilderStages => planned.verdict = "none"
  /\ planned.verdict = "ok" /\ planned.edits = edits => Admissible /\ stage # "turned_away"

\* A step of a builder reads the files and returns a manifest; no plan exists yet.
LEMMA BuilderSteps ==
  ASSUME TextNext \/ JsonlNext \/ ScanNext
  PROVE  stage \in BuilderStages /\ UNCHANGED <<edits, planned>>
<1> USE DEF BuilderStep, Refuse, Return, BuilderStages
<1>1. CASE TextNext
  BY <1>1 DEF TextNext, OpenText, ReadText, RecheckPath, Cut, ReadOutline
<1>2. CASE JsonlNext
  BY <1>2 DEF JsonlNext, OpenJsonl, ScanBlock, EndOfFile
<1>3. CASE ScanNext
  BY <1>3 DEF ScanNext, OpenOcr, CountPages, HashPages, OpenMedia, HashBefore, Probe, HashAfter, AddMedia, Proceed
<1> QED
  BY <1>1, <1>2, <1>3

\* The checks read the call, the files and the manifest, and nothing else.
LEMMA ChecksRead ==
  ASSUME UNCHANGED <<call, disk, manifest>>, Admissible
  PROVE  Admissible'
<1>1. Parses' /\ ContractHolds(manifest)'
  BY DEF Admissible, Parses
<1>2. InputsSafe'
  BY DEF Admissible, InputsSafe, SourceSafe, ShardInputSafe, Safe, Forbidden, Barred, Linked, IsFile
<1>3. SourcesDeclared'
  BY DEF Admissible, SourcesDeclared, Declared
<1>4. SourcesIntact'
  BY DEF Admissible, SourcesIntact, Verified, IsFile
<1>5. InlineIntact'
  BY DEF Admissible, InlineIntact, InputIntact, Declared, DeclaredSource, Verified, IsFile
<1> QED
  BY <1>1, <1>2, <1>3, <1>4, <1>5 DEF Admissible

\* A job step that changes no file, no manifest and no plan keeps the invariant, unless it
\* turns a manifest away that passes the checks.
LEMMA JobKeeps ==
  ASSUME PlanInv, NEW next, NEW locals, NEW processed, JobStep(next, locals, processed),
         next \notin BuilderStages, next = "turned_away" => ~Admissible
  PROVE  PlanInv'
<1>1. UNCHANGED <<call, disk, edits, manifest, planned>> /\ stage' = next
  BY DEF JobStep
<1>2. Admissible => Admissible'
  BY <1>1, ChecksRead
<1> QED
  BY <1>1, <1>2 DEF PlanInv

LEMMA StepPlan ==
  ASSUME PlanInv, [Next]_vars
  PROVE  PlanInv'
<1>1. CASE TextNext \/ JsonlNext \/ ScanNext
  <2>1. planned.verdict = "none" /\ UNCHANGED <<edits, planned>>
    BY <1>1, BuilderSteps DEF PlanInv
  <2> QED
    BY <2>1 DEF PlanInv
<1>2. CASE EditFile
  <2>1. edits' = edits + 1 /\ UNCHANGED <<stage, planned>>
    BY <1>2 DEF EditFile
  <2> QED
    BY <2>1 DEF PlanInv
<1>3. CASE HandEdit
  <2>1. planned' = [planned EXCEPT !.verdict = "none"] /\ UNCHANGED <<edits, stage>>
    BY <1>3 DEF HandEdit
  <2>2. planned' \in [edits : Nat, verdict : {"none", "ok", "blocked", "throws"}]
        /\ planned'.verdict = "none" /\ planned'.edits = planned.edits
    BY <2>1 DEF PlanInv
  <2> QED
    BY <2>1, <2>2 DEF PlanInv
<1>4. CASE Plan
  <2>1. /\ UNCHANGED <<call, disk, manifest, edits, stage>> /\ stage = "built" /\ planned'.edits = edits
        /\ planned'.verdict \in {"ok", "blocked", "throws"} /\ DOMAIN planned' = {"edits", "verdict"}
        /\ planned' = [edits |-> planned'.edits, verdict |-> planned'.verdict]
    BY <1>4 DEF Plan
  <2>2. planned'.verdict = "ok" => Admissible
    BY <1>4 DEF Plan, PlanOk, Admissible
  <2>3. planned' \in [edits : Nat, verdict : {"none", "ok", "blocked", "throws"}] /\ edits \in Nat
    BY <2>1 DEF PlanInv
  <2>4. Admissible => Admissible'
    BY <2>1, ChecksRead
  <2> QED
    BY <2>1, <2>2, <2>3, <2>4 DEF PlanInv, BuilderStages
<1>5. CASE StartChecks
  <2>1. \/ JobStep("checked", work, results)
        \/ JobStep("turned_away", work, results) /\ ~Admissible
    BY <1>5 DEF StartChecks, ContractEnforced, Admissible
  <2> QED
    BY <2>1, JobKeeps DEF BuilderStages
<1>6. CASE StartVerifies
  <2>1. \/ JobStep("admitted", work, results)
        \/ JobStep("turned_away", work, results) /\ ~Admissible
    BY <1>6 DEF StartVerifies, Admissible
  <2> QED
    BY <2>1, JobKeeps DEF BuilderStages
<1>7. CASE BeginPass \/ ProcessShard \/ Extract \/ Rehash
  <2>1. \E next \in {"working", "extracted", "done"} : \E locals, processed : JobStep(next, locals, processed)
    BY <1>7 DEF BeginPass, ProcessShard, Extract, Rehash, Settle
  <2> QED
    BY <2>1, JobKeeps DEF BuilderStages
<1>8. CASE UNCHANGED vars
  <2>1. UNCHANGED <<call, disk, manifest, edits, stage, planned>>
    BY <1>8 DEF vars
  <2>2. Admissible => Admissible'
    BY <2>1, ChecksRead
  <2> QED
    BY <2>1, <2>2 DEF PlanInv
<1> QED
  BY <1>1, <1>2, <1>3, <1>4, <1>5, <1>6, <1>7, <1>8 DEF Next

\* A plan that said ok is honoured by start until a file changes, for every manifest that a
\* builder returns or the caller has edited (corpusPlan, corpusStartSync).
THEOREM PlansAreHonoured == Spec => []PlanIsHonoured
<1>1. Init => PlanInv
  BY DEF Init, PlanInv, BuilderStages
<1>2. PlanInv /\ [Next]_vars => PlanInv'
  BY StepPlan
<1>3. PlanInv => PlanIsHonoured
  BY DEF PlanInv, PlanIsHonoured
<1> QED
  BY <1>1, <1>2, <1>3, PTL DEF Spec

\* A nonempty set of naturals has a least member.
LEMMA LeastNatural ==
  ASSUME NEW B, B \subseteq Nat, B # {}
  PROVE  \E n \in B : \A m \in B : n <= m
<1>1. PICK n \in B : \A m \in B : <<m, n>> \notin OpToRel(<, Nat)
  BY NatLessThanWellFounded, WFMin, Zenon
<1>2. \A j, m \in Nat : j < m => <<j, m>> \in OpToRel(<, Nat)
  <2> TAKE j, m \in Nat
  <2> HAVE j < m
  <2>1. <<j, m>> \in Nat \X Nat /\ <<j, m>>[1] < <<j, m>>[2]
    OBVIOUS
  <2> QED
    BY <2>1, Zenon DEF OpToRel
<1>3. \A m \in B : ~(m < n)
  BY <1>1, <1>2, Zenon
<1> QED
  BY <1>3

\* The greatest element of a set of naturals up to n + 1 that has n + 1.
LEMMA MaxOfInterval ==
  ASSUME NEW n \in Nat, NEW s \in SUBSET (1 .. n + 1), n + 1 \in s
  PROVE  Max(s) = n + 1
<1>1. \A x \in s : x \in Int /\ n + 1 >= x
  OBVIOUS
<1>2. \A x \in s : (\A y \in s : x >= y) => x = n + 1
  BY <1>1
<1> QED
  BY <1>1, <1>2, Zenon DEF Max

\* A set of naturals that has elements has a greatest one.
LEMMA MaxOfNaturals ==
  ASSUME NEW n \in Nat, NEW s \in SUBSET (1 .. n), s # {}
  PROVE  Max(s) \in s /\ \A y \in s : y <= Max(s)
<1> DEFINE B == {k \in Nat : \A y \in s : y <= k}
<1>1. PICK k \in B : \A m \in B : k <= m
  <2>1. n \in B /\ B \subseteq Nat
    OBVIOUS
  <2> HIDE DEF B
  <2> QED
    BY <2>1, LeastNatural
<1>2. k \in s
  <2>1. SUFFICES ASSUME k \notin s PROVE FALSE
    OBVIOUS
  <2>2. k # 0
    <3>1. PICK x \in s : TRUE
      OBVIOUS
    <3>2. x <= k /\ x \in 1 .. n
      BY <1>1
    <3> QED
      BY <3>2
  <2>3. k - 1 \in B
    BY <2>1, <2>2
  <2> QED
    BY <2>3, <1>1
<1>3. k \in s /\ \A y \in s : k >= y
  BY <1>2
<1>4. Max(s) \in s /\ \A y \in s : Max(s) >= y
  BY <1>3, Zenon DEF Max
<1> QED
  BY <1>4

\* What holds of 0, and of k + 1 when of k.
LEMMA Induction ==
  ASSUME NEW B, 0 \in B, \A k \in Nat : k \in B => k + 1 \in B
  PROVE  \A n \in Nat : n \in B
<1> DEFINE C == Nat \ B
<1>1. ASSUME C # {} PROVE FALSE
  <2>1. PICK k \in C : \A m \in C : k <= m
    <3>1. C \subseteq Nat
      OBVIOUS
    <3> HIDE DEF C
    <3> QED
      BY <1>1, <3>1, LeastNatural
  <2>2. k - 1 \in Nat /\ k - 1 \notin C
    BY <2>1
  <2> QED
    BY <2>2
<1> QED
  BY <1>1

\* Two folds that agree on the empty set and, step by step, on more, are the same.
IsFold(f, n) == f = [t \in SUBSET (1 .. n) |-> f[t]]

\* Two functions on the sets of naturals, each set's value given by that of the set without its greatest
\* element, are one.
LEMMA FoldUnique ==
  ASSUME NEW n \in Nat, NEW f, NEW g, IsFold(f, n), IsFold(g, n),
         f[{}] = g[{}],
         \A t \in SUBSET (1 .. n) : t # {} /\ f[t \ {Max(t)}] = g[t \ {Max(t)}] => f[t] = g[t]
  PROVE  f = g
<1> DEFINE B == {k \in Nat : \A t \in SUBSET (1 .. n) : t \subseteq 1 .. k => f[t] = g[t]}
<1>1. 0 \in B
  <2>1. \A t : t \subseteq 1 .. 0 => t = {}
    OBVIOUS
  <2> QED
    BY <2>1
<1>2. ASSUME NEW k \in Nat, k \in B PROVE k + 1 \in B
  <2>1. ASSUME NEW t \in SUBSET (1 .. n), t \subseteq 1 .. k + 1, t # {} PROVE f[t] = g[t]
    <3> DEFINE u == t \ {Max(t)}
    <3>1. Max(t) \in t /\ \A y \in t : y <= Max(t)
      BY <2>1, MaxOfNaturals
    <3>2. \A y \in t : y \in 1 .. k + 1
      BY <2>1
    <3>3. ASSUME NEW y \in u PROVE y \in 1 .. k
      <4>1. y \in 1 .. k + 1 /\ Max(t) \in 1 .. k + 1 /\ y <= Max(t) /\ y # Max(t)
        BY <3>1, <3>2
      <4> QED
        BY <4>1
    <3>4. u \in SUBSET (1 .. n) /\ u \subseteq 1 .. k
      BY <3>3
    <3> HIDE DEF u
    <3>5. f[u] = g[u]
      BY <1>2, <3>4
    <3> QED
      BY <2>1, <3>5 DEF u
  <2>2. \A t \in SUBSET (1 .. n) : t \subseteq 1 .. k + 1 => f[t] = g[t]
    BY <2>1
  <2> QED
    BY <2>2
<1>3. n \in B
  <2> HIDE DEF B
  <2> QED
    BY <1>1, <1>2, Induction
<1>4. \A t \in SUBSET (1 .. n) : f[t] = g[t]
  BY <1>3
<1> QED
  BY <1>4 DEF IsFold

-----------------------------------------------------------------------------
(* Sums over sequences of numbers.  A recursive function is its value once *)
(* it is known to exist and to be unique; both by a least counterexample.  *)

IsSum(f, s) ==
  f = [t \in SUBSET DOMAIN s |-> IF t = {} THEN 0 ELSE f[t \ {Max(t)}] + s[Max(t)]]

\* What the fold of the community modules makes of Sum.
LEMMA SumIsFold == ASSUME NEW s PROVE Sum(s) = (CHOOSE f : IsSum(f, s))[DOMAIN s]
  BY DEF Sum, FoldLeft, MapThenFoldSet, IsSum

\* At most one function is the fold that Sum chooses.
LEMMA SumUnique ==
  ASSUME NEW s, NEW n \in Nat, DOMAIN s = 1 .. n, NEW f, NEW g, IsSum(f, s), IsSum(g, s)
  PROVE  f = g
<1>1. IsFold(f, n) /\ IsFold(g, n)
  BY Zenon DEF IsSum, IsFold
<1>2. f[{}] = g[{}]
  BY DEF IsSum
<1>3. \A t \in SUBSET (1 .. n) : t # {} /\ f[t \ {Max(t)}] = g[t \ {Max(t)}] => f[t] = g[t]
  BY DEF IsSum
<1> QED
  BY <1>1, <1>2, <1>3, FoldUnique

\* One more number.
Extended(f, s, n) ==
  [t \in SUBSET (1 .. n + 1) |-> IF n + 1 \in t THEN f[t \ {n + 1}] + s[n + 1] ELSE f[t]]

\* The fold of a sequence is had from that of the sequence without its last element.
LEMMA SumExtends ==
  ASSUME NEW n \in Nat, NEW s, DOMAIN s = 1 .. n + 1, NEW r, DOMAIN r = 1 .. n,
         \A i \in 1 .. n : r[i] = s[i], NEW f, IsSum(f, r)
  PROVE  IsSum(Extended(f, s, n), s)
<1> DEFINE g == Extended(f, s, n)
<1> USE DEF Extended
<1>1. ASSUME NEW t \in SUBSET (1 .. n + 1)
      PROVE  g[t] = IF t = {} THEN 0 ELSE g[t \ {Max(t)}] + s[Max(t)]
  <2>1. CASE n + 1 \in t
    <3>1. Max(t) = n + 1
      BY <2>1, MaxOfInterval
    <3>2. t \ {n + 1} \in SUBSET (1 .. n + 1) /\ n + 1 \notin t \ {n + 1}
      OBVIOUS
    <3>3. g[t \ {n + 1}] = f[t \ {n + 1}]
      BY <3>2
    <3> QED
      BY <2>1, <3>1, <3>3
  <2>2. CASE n + 1 \notin t
    <3>1. t \in SUBSET (1 .. n)
      BY <2>2
    <3>2. g[t] = f[t]
      BY <2>2
    <3>3. f[t] = IF t = {} THEN 0 ELSE f[t \ {Max(t)}] + r[Max(t)]
      BY <3>1 DEF IsSum
    <3>4. CASE t # {}
      <4>1. Max(t) \in t
        BY <3>1, <3>4, MaxOfNaturals
      <4>2. r[Max(t)] = s[Max(t)]
        BY <4>1, <3>1
      <4>3. t \ {Max(t)} \in SUBSET (1 .. n + 1) /\ n + 1 \notin t \ {Max(t)}
        BY <2>2
      <4>4. g[t \ {Max(t)}] = f[t \ {Max(t)}]
        BY <4>3
      <4> QED
        BY <3>2, <3>3, <3>4, <4>2, <4>4
    <3> QED
      BY <3>2, <3>3, <3>4
  <2> QED
    BY <2>1, <2>2
<1>2. DOMAIN g = SUBSET DOMAIN s /\ g = [t \in DOMAIN g |-> g[t]]
  OBVIOUS
<1> HIDE DEF g
<1>3. g = [t \in SUBSET DOMAIN s |-> IF t = {} THEN 0 ELSE g[t \ {Max(t)}] + s[Max(t)]]
  BY <1>1, <1>2
<1> QED
  BY <1>3 DEF IsSum, g

\* For a sequence of any length the fold that Sum chooses exists.
LEMMA SumExists ==
  ASSUME NEW n \in Nat, NEW s, DOMAIN s = 1 .. n
  PROVE  \E f : IsSum(f, s)
<1> DEFINE Upto(k) == [i \in 1 .. k |-> s[i]]
           B == {k \in Nat : \E f : IsSum(f, Upto(k))}
<1>1. 0 \in B
  <2>1. IsSum([t \in SUBSET {} |-> 0], Upto(0))
    BY DEF IsSum
  <2> QED
    BY <2>1
<1>2. ASSUME NEW k \in Nat, k \in B PROVE k + 1 \in B
  <2>1. PICK f : IsSum(f, Upto(k))
    BY <1>2
  <2>2. /\ DOMAIN Upto(k) = 1 .. k /\ DOMAIN Upto(k + 1) = 1 .. k + 1
        /\ \A i \in 1 .. k : Upto(k)[i] = Upto(k + 1)[i]
    OBVIOUS
  <2>3. IsSum(Extended(f, Upto(k + 1), k), Upto(k + 1))
    <3> HIDE DEF Upto
    <3> QED
      BY <2>1, <2>2, SumExtends
  <2> QED
    BY <2>3
<1>3. n \in B
  <2> HIDE DEF B
  <2> QED
    BY <1>1, <1>2, Induction
<1>4. PICK f : IsSum(f, Upto(n))
  BY <1>3
<1>5. ASSUME NEW t \in SUBSET (1 .. n)
      PROVE  f[t] = IF t = {} THEN 0 ELSE f[t \ {Max(t)}] + s[Max(t)]
  <2>1. f[t] = IF t = {} THEN 0 ELSE f[t \ {Max(t)}] + Upto(n)[Max(t)]
    BY <1>4 DEF IsSum
  <2>2. t # {} => Max(t) \in 1 .. n
    BY MaxOfNaturals
  <2> QED
    BY <2>1, <2>2
<1>6. f = [t \in SUBSET (1 .. n) |-> f[t]]
  BY <1>4, Zenon DEF IsSum
<1> QED
  BY <1>5, <1>6 DEF IsSum

\* The sum is the sum of all but the last number, and the last.
LEMMA SumUnfolds ==
  ASSUME NEW n \in Nat, NEW s, DOMAIN s = 1 .. n + 1, NEW r, DOMAIN r = 1 .. n,
         \A i \in 1 .. n : r[i] = s[i]
  PROVE  Sum(s) = Sum(r) + s[n + 1]
<1> DEFINE f == CHOOSE f : IsSum(f, r)
           h == CHOOSE h : IsSum(h, s)
           g == Extended(f, s, n)
<1>1. IsSum(f, r)
  BY SumExists
<1>2. IsSum(g, s)
  <2> HIDE DEF f
  <2> QED
    BY <1>1, SumExtends
<1>3. IsSum(h, s)
  BY <1>2
<1>4. g = h
  <2> HIDE DEF g, h
  <2> QED
    BY <1>2, <1>3, SumUnique, n + 1 \in Nat
<1>5. g[1 .. n + 1] = f[(1 .. n + 1) \ {n + 1}] + s[n + 1]
  <2> HIDE DEF f
  <2> QED
    BY DEF Extended
<1>6. (1 .. n + 1) \ {n + 1} = 1 .. n
  OBVIOUS
<1> HIDE DEF f, g, h
<1>7. h[1 .. n + 1] = f[1 .. n] + s[n + 1]
  BY <1>4, <1>5, <1>6
<1> QED
  BY <1>7, SumIsFold DEF f, h

\* The sum of no numbers.
LEMMA SumOfNone == Sum(<<>>) = 0
<1>1. DOMAIN <<>> = 1 .. 0
  OBVIOUS
<1>2. PICK f : IsSum(f, <<>>)
  BY <1>1, SumExists, 0 \in Nat
<1>3. (CHOOSE f2 : IsSum(f2, <<>>))[{}] = 0
  <2> DEFINE h == CHOOSE h : IsSum(h, <<>>)
  <2>1. IsSum(h, <<>>)
    BY <1>2
  <2> HIDE DEF h
  <2>2. h[{}] = 0
    BY <2>1 DEF IsSum
  <2> QED
    BY <2>2 DEF h
<1> QED
  BY <1>3, SumIsFold

-----------------------------------------------------------------------------
(* The scan of a block of records, which is a fold too.                    *)

IsScan(f, b, s) ==
  f = [t \in SUBSET DOMAIN s |-> IF t = {} THEN b ELSE TakeByte(f[t \ {Max(t)}], s[Max(t)])]

TakeBytes(b, s) == FoldLeft(TakeByte, b, s)

\* What the fold of the community modules makes of the scan of a block (ScanBlock).
LEMMA ScanIsFold == ASSUME NEW b, NEW s PROVE TakeBytes(b, s) = (CHOOSE f : IsScan(f, b, s))[DOMAIN s]
  BY DEF TakeBytes, FoldLeft, MapThenFoldSet, IsScan

\* At most one function is the fold that the scan of a block chooses.
LEMMA ScanUnique ==
  ASSUME NEW b, NEW s, NEW n \in Nat, DOMAIN s = 1 .. n, NEW f, NEW g, IsScan(f, b, s), IsScan(g, b, s)
  PROVE  f = g
<1>1. IsFold(f, n) /\ IsFold(g, n)
  BY Zenon DEF IsScan, IsFold
<1>2. f[{}] = g[{}]
  BY DEF IsScan
<1>3. \A t \in SUBSET (1 .. n) : t # {} /\ f[t \ {Max(t)}] = g[t \ {Max(t)}] => f[t] = g[t]
  BY DEF IsScan
<1> QED
  BY <1>1, <1>2, <1>3, FoldUnique

\* One more byte.
ScanExtended(f, s, n) ==
  [t \in SUBSET (1 .. n + 1) |-> IF n + 1 \in t THEN TakeByte(f[t \ {n + 1}], s[n + 1]) ELSE f[t]]

\* The fold of a block is had from that of the block without its last byte.
LEMMA ScanExtends ==
  ASSUME NEW b, NEW n \in Nat, NEW s, DOMAIN s = 1 .. n + 1, NEW r, DOMAIN r = 1 .. n,
         \A i \in 1 .. n : r[i] = s[i], NEW f, IsScan(f, b, r)
  PROVE  IsScan(ScanExtended(f, s, n), b, s)
<1> DEFINE g == ScanExtended(f, s, n)
<1> USE DEF ScanExtended
<1>1. ASSUME NEW t \in SUBSET (1 .. n + 1)
      PROVE  g[t] = IF t = {} THEN b ELSE TakeByte(g[t \ {Max(t)}], s[Max(t)])
  <2>1. CASE n + 1 \in t
    <3>1. Max(t) = n + 1
      BY <2>1, MaxOfInterval
    <3>2. t \ {n + 1} \in SUBSET (1 .. n + 1) /\ n + 1 \notin t \ {n + 1}
      OBVIOUS
    <3>3. g[t \ {n + 1}] = f[t \ {n + 1}]
      BY <3>2
    <3> QED
      BY <2>1, <3>1, <3>3
  <2>2. CASE n + 1 \notin t
    <3>1. t \in SUBSET (1 .. n)
      BY <2>2
    <3>2. g[t] = f[t]
      BY <2>2
    <3>3. f[t] = IF t = {} THEN b ELSE TakeByte(f[t \ {Max(t)}], r[Max(t)])
      BY <3>1 DEF IsScan
    <3>4. CASE t # {}
      <4>1. Max(t) \in t
        BY <3>1, <3>4, MaxOfNaturals
      <4>2. r[Max(t)] = s[Max(t)]
        BY <4>1, <3>1
      <4>3. t \ {Max(t)} \in SUBSET (1 .. n + 1) /\ n + 1 \notin t \ {Max(t)}
        BY <2>2
      <4>4. g[t \ {Max(t)}] = f[t \ {Max(t)}]
        BY <4>3
      <4> QED
        BY <3>2, <3>3, <3>4, <4>2, <4>4
    <3> QED
      BY <3>2, <3>3, <3>4
  <2> QED
    BY <2>1, <2>2
<1>2. DOMAIN g = SUBSET DOMAIN s /\ g = [t \in DOMAIN g |-> g[t]]
  OBVIOUS
<1> HIDE DEF g
<1>3. g = [t \in SUBSET DOMAIN s |-> IF t = {} THEN b ELSE TakeByte(g[t \ {Max(t)}], s[Max(t)])]
  BY <1>1, <1>2
<1> QED
  BY <1>3 DEF IsScan, g

\* For a block of any length the fold of the scan exists.
LEMMA ScanExists ==
  ASSUME NEW b, NEW n \in Nat, NEW s, DOMAIN s = 1 .. n
  PROVE  \E f : IsScan(f, b, s)
<1> DEFINE Upto(k) == [i \in 1 .. k |-> s[i]]
           B == {k \in Nat : \E f : IsScan(f, b, Upto(k))}
<1>1. 0 \in B
  <2>1. IsScan([t \in SUBSET {} |-> b], b, Upto(0))
    BY DEF IsScan
  <2> QED
    BY <2>1
<1>2. ASSUME NEW k \in Nat, k \in B PROVE k + 1 \in B
  <2>1. PICK f : IsScan(f, b, Upto(k))
    BY <1>2
  <2>2. /\ DOMAIN Upto(k) = 1 .. k /\ DOMAIN Upto(k + 1) = 1 .. k + 1
        /\ \A i \in 1 .. k : Upto(k)[i] = Upto(k + 1)[i]
    OBVIOUS
  <2>3. IsScan(ScanExtended(f, Upto(k + 1), k), b, Upto(k + 1))
    <3> HIDE DEF Upto
    <3> QED
      BY <2>1, <2>2, ScanExtends
  <2> QED
    BY <2>3
<1>3. n \in B
  <2> HIDE DEF B
  <2> QED
    BY <1>1, <1>2, Induction
<1>4. PICK f : IsScan(f, b, Upto(n))
  BY <1>3
<1>5. ASSUME NEW t \in SUBSET (1 .. n)
      PROVE  f[t] = IF t = {} THEN b ELSE TakeByte(f[t \ {Max(t)}], s[Max(t)])
  <2>1. f[t] = IF t = {} THEN b ELSE TakeByte(f[t \ {Max(t)}], Upto(n)[Max(t)])
    BY <1>4 DEF IsScan
  <2>2. t # {} => Max(t) \in 1 .. n
    BY MaxOfNaturals
  <2> QED
    BY <2>1, <2>2
<1>6. f = [t \in SUBSET (1 .. n) |-> f[t]]
  BY <1>4, Zenon DEF IsScan
<1> QED
  BY <1>5, <1>6 DEF IsScan

\* The scan of a block is that of all but its last byte, and the last byte's.
LEMMA ScanUnfolds ==
  ASSUME NEW b, NEW n \in Nat, NEW s, DOMAIN s = 1 .. n + 1, NEW r, DOMAIN r = 1 .. n,
         \A i \in 1 .. n : r[i] = s[i]
  PROVE  TakeBytes(b, s) = TakeByte(TakeBytes(b, r), s[n + 1])
<1> DEFINE f == CHOOSE f : IsScan(f, b, r)
           h == CHOOSE h : IsScan(h, b, s)
           g == ScanExtended(f, s, n)
<1>1. IsScan(f, b, r)
  BY ScanExists
<1>2. IsScan(g, b, s)
  <2> HIDE DEF f
  <2> QED
    BY <1>1, ScanExtends
<1>3. IsScan(h, b, s)
  BY <1>2
<1>4. g = h
  <2> HIDE DEF g, h
  <2> QED
    BY <1>2, <1>3, ScanUnique, n + 1 \in Nat
<1>5. g[1 .. n + 1] = TakeByte(f[(1 .. n + 1) \ {n + 1}], s[n + 1])
  <2> HIDE DEF f
  <2> QED
    BY DEF ScanExtended
<1>6. (1 .. n + 1) \ {n + 1} = 1 .. n
  OBVIOUS
<1> HIDE DEF f, g, h
<1>7. h[1 .. n + 1] = TakeByte(f[1 .. n], s[n + 1])
  BY <1>4, <1>5, <1>6
<1> QED
  BY <1>7, ScanIsFold DEF f, h

\* The scan of no bytes leaves the scan as it was.
LEMMA ScanOfNone == ASSUME NEW b PROVE TakeBytes(b, <<>>) = b
<1>1. DOMAIN <<>> = 1 .. 0
  OBVIOUS
<1>2. PICK f : IsScan(f, b, <<>>)
  BY <1>1, ScanExists, 0 \in Nat
<1>3. (CHOOSE f2 : IsScan(f2, b, <<>>))[{}] = b
  <2> DEFINE h == CHOOSE h : IsScan(h, b, <<>>)
  <2>1. IsScan(h, b, <<>>)
    BY <1>2
  <2> HIDE DEF h
  <2>2. h[{}] = b
    BY <2>1 DEF IsScan
  <2> QED
    BY <2>2 DEF h
<1> QED
  BY <1>3, ScanIsFold

-----------------------------------------------------------------------------
(* The scan of a file of records                                           *)

RowBounds ==
  [byte_start : Nat, byte_end : Nat, row_start : Nat, row_end : Nat, row_count : Nat,
   shard_sha256 : Seq(Token)]

Scans ==
  [bytes : Seq(Token), record : Seq(Token), shard : Seq(Token), rows : Nat, shardRows : Nat,
   shards : Seq(RowBounds), invalid : BOOLEAN]

LineFeeds(bytes) == {p \in DOMAIN bytes : bytes[p] = "l"}
RowsOf(bytes) == Cardinality({p \in DOMAIN bytes : bytes[p] = "l" \/ p = Len(bytes)})

\* Where the last closed shard ends.
EndByte(shards) == IF shards = <<>> THEN 0 ELSE shards[Len(shards)].byte_end
EndRow(shards)  == IF shards = <<>> THEN 0 ELSE shards[Len(shards)].row_end

\* A closed shard is its part of the bytes and counts its rows.
Closed(bounds, bytes) ==
  /\ bounds.byte_start < bounds.byte_end /\ bounds.byte_end <= Len(bytes)
  /\ bounds.shard_sha256 = SubSeq(bytes, bounds.byte_start + 1, bounds.byte_end)
  /\ bounds.row_count = RowsOf(bounds.shard_sha256) /\ bounds.row_count <= call.records
  /\ bounds.row_end + 1 = bounds.row_start + bounds.row_count

\* The closed shards follow one another from the first byte and row, all but the last full.
Tiled(shards, bytes) ==
  /\ \A i \in 1 .. Len(shards) : Closed(shards[i], bytes)
  /\ shards # <<>> => shards[1].byte_start = 0 /\ shards[1].row_start = 1
  /\ \A i \in 1 .. Len(shards) - 1 :
       /\ shards[i + 1].byte_start = shards[i].byte_end /\ shards[i + 1].row_start = shards[i].row_end + 1
       /\ shards[i].row_count = call.records

\* What is not closed is the rest of the bytes.
Rest(scan) ==
  /\ scan \in Scans /\ Tiled(scan.shards, scan.bytes)
  /\ \A i \in 1 .. Len(scan.shards) : scan.shards[i].row_count = call.records
  /\ EndByte(scan.shards) <= Len(scan.bytes)
  /\ scan.shard = SubSeq(scan.bytes, EndByte(scan.shards) + 1, Len(scan.bytes))
  /\ scan.rows = EndRow(scan.shards) + scan.shardRows

\* The loop invariant of the scan: a shard not closed has fewer rows than asked, and a record
\* is under way unless the last byte ended one.
ScanInv(scan) ==
  /\ Rest(scan)
  /\ scan.shardRows = Cardinality(LineFeeds(scan.shard)) /\ scan.shardRows < call.records
  /\ scan.record = <<>> <=> scan.shard = <<>> \/ scan.shard[Len(scan.shard)] = "l"
  /\ ~scan.invalid => Len(scan.shards) <= MaxShards

\* A part of a sequence depends on nothing beyond it.
LEMMA PartsAgree ==
  ASSUME NEW S, NEW s \in Seq(S), NEW t \in Seq(S), NEW m \in Nat \ {0}, NEW n \in Nat,
         n <= Len(s), n <= Len(t), \A i \in m .. n : s[i] = t[i]
  PROVE  SubSeq(s, m, n) = SubSeq(t, m, n)
<1>1. /\ \A i \in m .. n : s[i] \in S /\ t[i] \in S
      /\ m \in Int /\ n \in Int
  OBVIOUS
<1> DEFINE a == SubSeq(s, m, n)
           b == SubSeq(t, m, n)
<1>2. /\ a \in Seq(S) /\ Len(a) = IF m <= n THEN n - m + 1 ELSE 0
      /\ \A i \in 1 .. n - m + 1 : a[i] = s[m + i - 1]
  BY <1>1, SubSeqProperties
<1>3. /\ b \in Seq(S) /\ Len(b) = IF m <= n THEN n - m + 1 ELSE 0
      /\ \A i \in 1 .. n - m + 1 : b[i] = t[m + i - 1]
  BY <1>1, SubSeqProperties
<1> HIDE DEF a, b
<1>4. ASSUME NEW i \in 1 .. Len(a) PROVE a[i] = b[i]
  <2>1. i \in 1 .. n - m + 1 /\ m + i - 1 \in m .. n
    BY <1>2
  <2> QED
    BY <2>1, <1>2, <1>3
<1>5. a = b
  BY <1>2, <1>3, <1>4, SeqEqual
<1> QED
  BY <1>5 DEF a, b

\* The end of a sequence grows with it.
LEMMA EndsGrow ==
  ASSUME NEW S, NEW s \in Seq(S), NEW x \in S, NEW m \in 1 .. Len(s) + 1
  PROVE  SubSeq(Append(s, x), m, Len(s) + 1) = Append(SubSeq(s, m, Len(s)), x)
<1> DEFINE c == Append(s, x)
           a == SubSeq(c, m, Len(s) + 1)
           b == SubSeq(s, m, Len(s))
<1>0. /\ c \in Seq(S) /\ Len(c) = Len(s) + 1 /\ Len(s) \in Nat /\ c[Len(s) + 1] = x
      /\ \A i \in 1 .. Len(s) : c[i] = s[i]
      /\ \A i \in 1 .. Len(s) + 1 : c[i] \in S
      /\ \A i \in 1 .. Len(s) : s[i] \in S
  OBVIOUS
<1> HIDE DEF c
<1>1. m \in Int /\ m >= 1 /\ m <= Len(s) + 1
  BY <1>0
<1>2. /\ a \in Seq(S) /\ Len(a) = Len(s) + 1 - m + 1
      /\ \A i \in 1 .. Len(s) + 1 - m + 1 : a[i] = c[m + i - 1]
  <2>1. \A i \in m .. Len(s) + 1 : c[i] \in S
    BY <1>0, <1>1
  <2> QED
    BY <1>0, <1>1, <2>1, SubSeqProperties
<1>3. /\ b \in Seq(S) /\ Len(b) = Len(s) - m + 1
      /\ \A i \in 1 .. Len(s) - m + 1 : b[i] = s[m + i - 1]
  <2>1. \A i \in m .. Len(s) : s[i] \in S
    BY <1>0, <1>1
  <2> QED
    BY <1>0, <1>1, <2>1, SubSeqProperties
<1> HIDE DEF a, b
<1>4. /\ Append(b, x) \in Seq(S) /\ Len(Append(b, x)) = Len(b) + 1
      /\ \A i \in 1 .. Len(b) : Append(b, x)[i] = b[i]
      /\ Append(b, x)[Len(b) + 1] = x
  BY <1>3, AppendProperties
<1>5. ASSUME NEW i \in 1 .. Len(a) PROVE a[i] = Append(b, x)[i]
  <2>0. /\ m \in Int /\ m >= 1 /\ m <= Len(s) + 1 /\ Len(s) \in Nat /\ i \in 1 .. Len(a)
        /\ Len(a) = Len(s) + 1 - m + 1 /\ Len(b) = Len(s) - m + 1
    BY <1>0, <1>1, <1>2, <1>3
  <2>1. CASE i = Len(b) + 1
    <3>1. i \in 1 .. Len(s) + 1 - m + 1 /\ m + i - 1 = Len(s) + 1
      BY ONLY <2>0, <2>1
    <3> QED
      BY <3>1, <2>1, <1>0, <1>2, <1>4
  <2>2. CASE i # Len(b) + 1
    <3>1. /\ i \in 1 .. Len(s) + 1 - m + 1 /\ i \in 1 .. Len(s) - m + 1 /\ i \in 1 .. Len(b)
          /\ m + i - 1 \in 1 .. Len(s)
      BY ONLY <2>0, <2>2
    <3> QED
      BY <3>1, <1>0, <1>2, <1>3, <1>4
  <2> QED
    BY <2>1, <2>2
<1>6. Len(a) = Len(Append(b, x))
  BY <1>0, <1>1, <1>2, <1>3, <1>4
<1>7. a = Append(b, x)
  BY <1>2, <1>4, <1>5, <1>6, SeqEqual
<1> QED
  BY <1>7 DEF a, b, c

\* What one more byte does to the line feeds and the rows of some bytes.
LEMMA RowsOfAppended ==
  ASSUME NEW b \in Seq(Token), NEW x \in Token
  PROVE  /\ IsFiniteSet(LineFeeds(b)) /\ Cardinality(LineFeeds(b)) \in Nat
         /\ LineFeeds(Append(b, x)) = IF x = "l" THEN LineFeeds(b) \cup {Len(b) + 1} ELSE LineFeeds(b)
         /\ RowsOf(Append(b, x)) = Cardinality(LineFeeds(b)) + 1
         /\ Cardinality(LineFeeds(Append(b, x))) =
              Cardinality(LineFeeds(b)) + IF x = "l" THEN 1 ELSE 0
<1> DEFINE c == Append(b, x)
<1>1. /\ c \in Seq(Token) /\ Len(c) = Len(b) + 1 /\ Len(b) \in Nat
      /\ DOMAIN b = 1 .. Len(b) /\ DOMAIN c = 1 .. Len(b) + 1
      /\ \A i \in 1 .. Len(b) : c[i] = b[i]
      /\ c[Len(b) + 1] = x
  BY AppendProperties, LenProperties
<1>2. IsFiniteSet(LineFeeds(b)) /\ Cardinality(LineFeeds(b)) \in Nat
  <2>1. LineFeeds(b) \in SUBSET (1 .. Len(b)) /\ IsFiniteSet(1 .. Len(b))
    BY <1>1, FS_Interval DEF LineFeeds
  <2> QED
    BY <2>1, FS_Subset, FS_CardinalityType
<1>3. Len(b) + 1 \notin LineFeeds(b)
  BY <1>1 DEF LineFeeds
<1> HIDE DEF c
<1>4. LineFeeds(c) = IF x = "l" THEN LineFeeds(b) \cup {Len(b) + 1} ELSE LineFeeds(b)
  BY <1>1 DEF LineFeeds
<1>5. {p \in DOMAIN c : c[p] = "l" \/ p = Len(c)} = LineFeeds(b) \cup {Len(b) + 1}
  BY <1>1 DEF LineFeeds
<1>6. Cardinality(LineFeeds(b) \cup {Len(b) + 1}) = Cardinality(LineFeeds(b)) + 1
  BY <1>2, <1>3, FS_AddElement
<1>7. RowsOf(c) = Cardinality(LineFeeds(b)) + 1
  BY <1>5, <1>6 DEF RowsOf
<1>8. Cardinality(LineFeeds(c)) = Cardinality(LineFeeds(b)) + IF x = "l" THEN 1 ELSE 0
  BY <1>2, <1>4, <1>6
<1> QED
  BY <1>2, <1>4, <1>7, <1>8 DEF c

\* More bytes do not touch what is closed.
LEMMA ClosedGrows ==
  ASSUME NEW b \in RowBounds, NEW bytes \in Seq(Token), NEW x \in Token, Closed(b, bytes)
  PROVE  Closed(b, Append(bytes, x))
<1> DEFINE more == Append(bytes, x)
<1>1. /\ more \in Seq(Token) /\ Len(more) = Len(bytes) + 1 /\ Len(bytes) \in Nat
      /\ \A i \in 1 .. Len(bytes) : more[i] = bytes[i]
  BY AppendProperties, LenProperties
<1>2. b.byte_start \in Nat /\ b.byte_end \in Nat
  BY DEF RowBounds
<1>3. b.byte_end <= Len(bytes)
  BY DEF Closed
<1> HIDE DEF more
<1>4. SubSeq(more, b.byte_start + 1, b.byte_end) = SubSeq(bytes, b.byte_start + 1, b.byte_end)
  <2>1. /\ b.byte_start + 1 \in Nat \ {0} /\ b.byte_end <= Len(more)
        /\ \A j \in b.byte_start + 1 .. b.byte_end : more[j] = bytes[j]
    BY <1>1, <1>2, <1>3
  <2> QED
    BY <1>1, <1>2, <1>3, <2>1, PartsAgree
<1>5. b.byte_end <= Len(more)
  BY <1>1, <1>2, <1>3
<1>6. Closed(b, more)
  BY <1>4, <1>5 DEF Closed
<1> QED
  BY <1>6 DEF more

\* Shards that tile the first bytes of a file tile them still when more is read.
LEMMA TiledGrows ==
  ASSUME NEW shards \in Seq(RowBounds), NEW bytes \in Seq(Token), NEW x \in Token, Tiled(shards, bytes)
  PROVE  Tiled(shards, Append(bytes, x))
<1>1. ASSUME NEW i \in 1 .. Len(shards) PROVE Closed(shards[i], Append(bytes, x))
  <2>1. Closed(shards[i], bytes) /\ shards[i] \in RowBounds
    BY DEF Tiled
  <2> QED
    BY <2>1, ClosedGrows
<1> QED
  BY <1>1 DEF Tiled

\* finishShard: what is not closed becomes the last shard.
LEMMA EndShardTiles ==
  ASSUME NEW scan, Rest(scan), call.records \in Nat,
         scan.shard # <<>>, scan.shardRows = RowsOf(scan.shard), scan.shardRows <= call.records
  PROVE  LET closed == EndShard(scan)
         IN  /\ closed \in Scans /\ Tiled(closed.shards, closed.bytes)
             /\ closed.bytes = scan.bytes /\ closed.record = scan.record /\ closed.rows = scan.rows
             /\ closed.shard = <<>> /\ closed.shardRows = 0
             /\ ~closed.invalid => ~scan.invalid /\ Len(scan.shards) < MaxShards
             /\ Len(closed.shards) = Len(scan.shards) + 1
             /\ EndByte(closed.shards) = Len(scan.bytes) /\ EndRow(closed.shards) = scan.rows
             /\ \A i \in 1 .. Len(scan.shards) : closed.shards[i] = scan.shards[i]
             /\ closed.shards[Len(scan.shards) + 1].row_count = scan.shardRows
<1> DEFINE shards == scan.shards
           n == Len(shards)
           end == Len(scan.bytes)
           bounds == [byte_start |-> end - Len(scan.shard), byte_end |-> end,
                      row_start |-> scan.rows - scan.shardRows + 1, row_end |-> scan.rows,
                      row_count |-> scan.shardRows, shard_sha256 |-> scan.shard]
           closed == EndShard(scan)
<1>1. /\ scan.bytes \in Seq(Token) /\ scan.record \in Seq(Token) /\ scan.shard \in Seq(Token)
      /\ scan.rows \in Nat /\ scan.shardRows \in Nat /\ shards \in Seq(RowBounds) /\ scan.invalid \in BOOLEAN
  BY DEF Rest, Scans
<1>2. /\ n \in Nat /\ end \in Nat /\ Len(scan.shard) \in Nat
      /\ DOMAIN shards = 1 .. n
  BY <1>1, LenProperties
<1>3. /\ EndByte(shards) \in Nat /\ EndRow(shards) \in Nat
      /\ n # 0 => shards[n] \in RowBounds
  <2>1. n # 0 => shards[n] \in RowBounds
    BY <1>1, <1>2, ElementOfSeq
  <2>2. shards # <<>> => n # 0
    BY <1>1, EmptySeq
  <2> QED
    BY <2>1, <2>2 DEF EndByte, EndRow, RowBounds
<1>4. Len(scan.shard) = end - EndByte(shards) /\ EndByte(shards) < end
  <2>1. EndByte(shards) <= end /\ scan.shard = SubSeq(scan.bytes, EndByte(shards) + 1, end)
    BY DEF Rest
  <2>2. \A i \in EndByte(shards) + 1 .. end : scan.bytes[i] \in Token
    BY <1>1, <1>2, <1>3, ElementOfSeq
  <2>3. Len(scan.shard) = IF EndByte(shards) + 1 <= end THEN end - (EndByte(shards) + 1) + 1 ELSE 0
    BY <1>2, <1>3, <2>1, <2>2, SubSeqProperties
  <2>4. Len(scan.shard) # 0
    BY <1>1, EmptySeq
  <2> QED
    BY <1>2, <1>3, <2>1, <2>3, <2>4
<1>5. scan.rows - scan.shardRows = EndRow(shards)
  BY <1>1, <1>3 DEF Rest
<1>6. /\ bounds.byte_start = EndByte(shards) /\ bounds.row_start = EndRow(shards) + 1
      /\ bounds \in RowBounds
  <2>1. bounds.byte_start = EndByte(shards)
    BY <1>2, <1>3, <1>4
  <2>2. bounds.row_start = EndRow(shards) + 1
    BY <1>5
  <2>3. /\ bounds.byte_end \in Nat /\ bounds.row_end \in Nat /\ bounds.row_count \in Nat
        /\ bounds.shard_sha256 \in Seq(Token) /\ EndByte(shards) \in Nat /\ EndRow(shards) + 1 \in Nat
    BY <1>1, <1>2, <1>3
  <2>4. bounds = [byte_start |-> bounds.byte_start, byte_end |-> bounds.byte_end, row_start |-> bounds.row_start,
                  row_end |-> bounds.row_end, row_count |-> bounds.row_count,
                  shard_sha256 |-> bounds.shard_sha256]
    OBVIOUS
  <2> HIDE DEF bounds
  <2> QED
    BY <2>1, <2>2, <2>3, <2>4 DEF RowBounds
<1>7. Closed(bounds, scan.bytes)
  <2>1. scan.shard = SubSeq(scan.bytes, EndByte(shards) + 1, end)
    BY DEF Rest
  <2>2. bounds.row_end + 1 = bounds.row_start + bounds.row_count
    BY <1>1, <1>3, <1>5, <1>6
  <2>3. /\ bounds.byte_start < bounds.byte_end /\ bounds.byte_end <= end
    BY <1>2, <1>3, <1>4, <1>6
  <2> QED
    BY <2>1, <2>2, <2>3, <1>6 DEF Closed
<1>8. /\ closed.shards = Append(shards, bounds) /\ closed.bytes = scan.bytes /\ closed.record = scan.record
      /\ closed.rows = scan.rows /\ closed.shard = <<>> /\ closed.shardRows = 0
      /\ closed.invalid = (scan.invalid \/ n >= MaxShards)
      /\ closed = [bytes |-> closed.bytes, record |-> closed.record, shard |-> closed.shard, rows |-> closed.rows,
                   shardRows |-> closed.shardRows, shards |-> closed.shards, invalid |-> closed.invalid]
  <2>1. scan = [bytes |-> scan.bytes, record |-> scan.record, shard |-> scan.shard, rows |-> scan.rows,
                shardRows |-> scan.shardRows, shards |-> scan.shards, invalid |-> scan.invalid]
    BY DEF Rest, Scans
  <2>2. closed = [bytes |-> scan.bytes, record |-> scan.record, shard |-> <<>>, rows |-> scan.rows,
                  shardRows |-> 0, shards |-> Append(shards, bounds),
                  invalid |-> (scan.invalid \/ n >= MaxShards)]
    <3> DEFINE more == Append(shards, bounds)
               invalid == scan.invalid \/ n >= MaxShards
    <3>1. closed = [scan EXCEPT !.invalid = invalid, !.shards = more, !.shard = <<>>, !.shardRows = 0]
      BY DEF EndShard
    <3> HIDE DEF more, invalid, closed
    <3>2. closed = [bytes |-> scan.bytes, record |-> scan.record, shard |-> <<>>, rows |-> scan.rows,
                    shardRows |-> 0, shards |-> more, invalid |-> invalid]
      BY <2>1, <3>1
    <3> QED
      BY <3>2 DEF more, invalid
  <2> HIDE DEF closed, bounds
  <2> QED
    BY <2>2
<1> HIDE DEF bounds, closed
<1>9. /\ closed.shards \in Seq(RowBounds) /\ Len(closed.shards) = n + 1 /\ closed.shards # <<>>
      /\ \A i \in 1 .. n : closed.shards[i] = shards[i]
      /\ closed.shards[n + 1] = bounds
  <2>1. closed.shards = Append(shards, bounds) /\ shards \in Seq(RowBounds) /\ bounds \in RowBounds
    BY <1>1, <1>6, <1>8
  <2> QED
    BY <2>1, AppendProperties
<1>10. closed \in Scans
  <2>1. closed.invalid \in BOOLEAN /\ closed.shard \in Seq(Token) /\ closed.shardRows \in Nat
    BY <1>8, EmptySeq
  <2> QED
    BY <1>1, <1>8, <1>9, <2>1 DEF Scans
<1>11. Tiled(closed.shards, closed.bytes)
  <2>1. \A i \in 1 .. n + 1 : Closed(closed.shards[i], closed.bytes)
    BY <1>2, <1>7, <1>8, <1>9 DEF Rest, Tiled
  <2>2. closed.shards[1].byte_start = 0 /\ closed.shards[1].row_start = 1
    <3>1. CASE n = 0
      <4>1. shards = <<>>
        BY <3>1, <1>1, EmptySeq
      <4> QED
        BY <3>1, <4>1, <1>6, <1>9 DEF EndByte, EndRow
    <3>2. CASE n # 0
      <4>1. shards # <<>> /\ 1 \in 1 .. n
        BY <3>2, <1>2, EmptySeq
      <4> QED
        BY <4>1, <1>9 DEF Rest, Tiled
    <3> QED
      BY <3>1, <3>2
  <2>3. ASSUME NEW i \in 1 .. n
        PROVE  /\ closed.shards[i + 1].byte_start = closed.shards[i].byte_end
               /\ closed.shards[i + 1].row_start = closed.shards[i].row_end + 1
               /\ closed.shards[i].row_count = call.records
    <3>1. closed.shards[i] = shards[i] /\ shards[i].row_count = call.records
      BY <1>9 DEF Rest
    <3>2. CASE i = n
      <4>1. shards # <<>>
        BY <3>2, <1>2, EmptySeq
      <4> QED
        BY <3>1, <3>2, <4>1, <1>6, <1>9 DEF EndByte, EndRow
    <3>3. CASE i # n
      <4>1. i \in 1 .. n - 1 /\ i + 1 \in 1 .. n
        BY <3>3, <1>2
      <4>2. closed.shards[i + 1] = shards[i + 1]
        BY <4>1, <1>9
      <4> QED
        BY <3>1, <4>1, <4>2 DEF Rest, Tiled
    <3> QED
      BY <3>2, <3>3
  <2>4. \A i \in 1 .. (n + 1) - 1 : i \in 1 .. n
    BY <1>2
  <2> QED
    BY <1>9, <2>1, <2>2, <2>3, <2>4 DEF Tiled
<1>12. EndByte(closed.shards) = end /\ EndRow(closed.shards) = scan.rows
  BY <1>9 DEF EndByte, EndRow, bounds
<1>13. closed.shards[n + 1].row_count = scan.shardRows
  BY <1>9 DEF bounds
<1>14. ~closed.invalid => ~scan.invalid /\ n < MaxShards
  <2>1. ~closed.invalid => ~scan.invalid /\ ~(n >= MaxShards)
    BY <1>8, Zenon
  <2> QED
    BY <2>1, <1>2, LimitsAssumption
<1> QED
  BY <1>8, <1>9, <1>10, <1>11, <1>12, <1>13, <1>14 DEF closed

\* A byte goes to the shard that is open: the rest of what was read, behind the closed shards.
LEMMA RestGrows ==
  ASSUME NEW scan, Rest(scan), NEW byte \in Token, NEW t \in Scans,
         t.bytes = Append(scan.bytes, byte), t.shard = Append(scan.shard, byte), t.shards = scan.shards,
         t.rows = EndRow(t.shards) + t.shardRows
  PROVE  Rest(t)
<1>1. scan.bytes \in Seq(Token) /\ scan.shards \in Seq(RowBounds) /\ scan.shard \in Seq(Token)
  BY DEF Rest, Scans
<1>2. EndByte(scan.shards) \in Nat
  <2>1. scan.shards # <<>> => Len(scan.shards) \in 1 .. Len(scan.shards)
    BY <1>1, EmptySeq
  <2>2. scan.shards # <<>> => scan.shards[Len(scan.shards)] \in RowBounds
    BY <1>1, <2>1, ElementOfSeq
  <2> QED
    BY <2>2 DEF EndByte, RowBounds
<1>3. Len(scan.bytes) \in Nat /\ Len(t.bytes) = Len(scan.bytes) + 1
  BY <1>1, LenProperties, AppendProperties
<1>4. EndByte(scan.shards) + 1 \in 1 .. Len(scan.bytes) + 1
  BY <1>2, <1>3 DEF Rest
<1>5. SubSeq(t.bytes, EndByte(scan.shards) + 1, Len(scan.bytes) + 1)
        = Append(SubSeq(scan.bytes, EndByte(scan.shards) + 1, Len(scan.bytes)), byte)
  BY <1>1, <1>4, EndsGrow
<1>6. t.shard = SubSeq(t.bytes, EndByte(t.shards) + 1, Len(t.bytes))
  BY <1>3, <1>5 DEF Rest
<1>7. Tiled(t.shards, t.bytes)
  BY <1>1, TiledGrows DEF Rest
<1>8. EndByte(t.shards) <= Len(t.bytes)
  BY <1>2, <1>3 DEF Rest
<1> QED
  BY <1>6, <1>7, <1>8 DEF Rest

\* A shard that was closed full leaves nothing unclosed.
LEMMA FullLeavesNothing ==
  ASSUME NEW scan, Rest(scan), call.records \in Nat \ {0}, scan.record = <<>>,
         scan.shard # <<>>, scan.shardRows = RowsOf(scan.shard), scan.shardRows = call.records
  PROVE  /\ ScanInv(EndShard(scan)) /\ EndShard(scan).bytes = scan.bytes
         /\ EndShard(scan).shardRows = 0
<1> DEFINE closed == EndShard(scan)
           n == Len(scan.shards)
<1>0. scan.shardRows <= call.records /\ call.records \in Nat
  OBVIOUS
<1>1. /\ closed \in Scans /\ Tiled(closed.shards, closed.bytes)
      /\ closed.bytes = scan.bytes /\ closed.record = scan.record /\ closed.rows = scan.rows
      /\ closed.shard = <<>> /\ closed.shardRows = 0
      /\ (~closed.invalid => ~scan.invalid /\ n < MaxShards)
      /\ Len(closed.shards) = n + 1
      /\ EndByte(closed.shards) = Len(scan.bytes) /\ EndRow(closed.shards) = scan.rows
      /\ \A i \in 1 .. n : closed.shards[i] = scan.shards[i]
      /\ closed.shards[n + 1].row_count = scan.shardRows
  BY <1>0, EndShardTiles
<1>2. n \in Nat /\ Len(scan.bytes) \in Nat /\ scan.rows \in Nat
  BY LenProperties DEF Rest, Scans
<1> HIDE DEF closed
<1>3. \A i \in 1 .. Len(closed.shards) : closed.shards[i].row_count = call.records
  <2> TAKE i \in 1 .. Len(closed.shards)
  <2>1. i \in 1 .. n \/ i = n + 1
    BY <1>1, <1>2
  <2> QED
    BY <1>1, <2>1 DEF Rest
<1>4. closed.shard = SubSeq(closed.bytes, EndByte(closed.shards) + 1, Len(closed.bytes))
  <2> DEFINE m == Len(scan.bytes)
  <2>1. m \in Int /\ m + 1 \in Int /\ m < m + 1
    BY <1>2
  <2>2. SubSeq(closed.bytes, m + 1, m) = <<>>
    <3> HIDE DEF m
    <3> QED
      BY <2>1, SubSeqEmpty
  <2> QED
    BY <1>1, <2>2
<1>5. Rest(closed)
  <2>1. closed.rows = EndRow(closed.shards) + closed.shardRows
    BY <1>1, <1>2
  <2>2. EndByte(closed.shards) <= Len(closed.bytes)
    BY <1>1, <1>2
  <2> QED
    BY <1>1, <1>3, <1>4, <2>1, <2>2 DEF Rest
<1>6. closed.shardRows = Cardinality(LineFeeds(closed.shard))
  <2>1. LineFeeds(<<>>) = {}
    BY DEF LineFeeds
  <2> QED
    BY <1>1, <2>1, FS_EmptySet
<1>7. ~closed.invalid => Len(closed.shards) <= MaxShards
  BY <1>1, <1>2, LimitsAssumption
<1>8. ScanInv(closed)
  BY <1>1, <1>5, <1>6, <1>7 DEF ScanInv
<1> QED
  BY <1>1, <1>8 DEF closed

\* One byte, whatever it is, keeps what the scan keeps.
LEMMA TakeByteKeeps ==
  ASSUME NEW scan, ScanInv(scan), NEW byte \in Token, call.records \in Nat \ {0}
  PROVE  /\ ScanInv(TakeByte(scan, byte))
         /\ TakeByte(scan, byte).bytes = Append(scan.bytes, byte)
<1> DEFINE taken == [scan EXCEPT !.bytes = Append(@, byte), !.shard = Append(@, byte)]
<1>1. /\ scan.bytes \in Seq(Token) /\ scan.record \in Seq(Token) /\ scan.shard \in Seq(Token)
      /\ scan.rows \in Nat /\ scan.shardRows \in Nat /\ scan.shards \in Seq(RowBounds) /\ scan.invalid \in BOOLEAN
      /\ scan \in Scans /\ Rest(scan)
  BY DEF ScanInv, Rest, Scans
<1>2. /\ Append(scan.bytes, byte) \in Seq(Token) /\ Append(scan.shard, byte) \in Seq(Token)
      /\ Append(scan.shard, byte) # <<>> /\ Append(scan.record, byte) # <<>>
      /\ Append(scan.record, byte) \in Seq(Token)
      /\ Len(Append(scan.shard, byte)) = Len(scan.shard) + 1
      /\ Append(scan.shard, byte)[Len(scan.shard) + 1] = byte
  BY <1>1, AppendProperties
<1>3. /\ RowsOf(Append(scan.shard, byte)) = scan.shardRows + 1
      /\ Cardinality(LineFeeds(Append(scan.shard, byte))) = scan.shardRows + IF byte = "l" THEN 1 ELSE 0
  BY <1>1, RowsOfAppended DEF ScanInv
<1>4. /\ taken \in Scans
      /\ taken.bytes = Append(scan.bytes, byte) /\ taken.shard = Append(scan.shard, byte)
      /\ taken.shards = scan.shards /\ taken.rows = scan.rows /\ taken.shardRows = scan.shardRows
      /\ taken.record = scan.record /\ taken.invalid = scan.invalid
  BY <1>1, <1>2 DEF Scans
<1> HIDE DEF taken
<1>5. CASE byte = "l"
  <2> DEFINE ended == EndRecord(taken)
  <2>1. /\ ended \in Scans
        /\ ended.bytes = Append(scan.bytes, byte) /\ ended.shard = Append(scan.shard, byte)
        /\ ended.shards = scan.shards /\ ended.rows = scan.rows + 1 /\ ended.shardRows = scan.shardRows + 1
        /\ ended.record = <<>> /\ (~ended.invalid => ~scan.invalid)
    <3> DEFINE bad == taken.invalid \/ ~ValidRecord(taken.record)
    <3>1. ended = [taken EXCEPT !.invalid = bad, !.record = <<>>, !.rows = @ + 1, !.shardRows = @ + 1]
      BY DEF EndRecord
    <3>2. bad \in BOOLEAN /\ <<>> \in Seq(Token) /\ taken.rows + 1 \in Nat /\ taken.shardRows + 1 \in Nat
      BY <1>1, <1>4, EmptySeq
    <3>3. ~bad => ~scan.invalid
      BY <1>4
    <3> HIDE DEF bad, ended
    <3>4. ended \in Scans
      BY <1>4, <3>1, <3>2 DEF Scans
    <3>5. /\ ended.bytes = taken.bytes /\ ended.shard = taken.shard /\ ended.shards = taken.shards
          /\ ended.rows = taken.rows + 1 /\ ended.shardRows = taken.shardRows + 1 /\ ended.record = <<>>
          /\ ended.invalid = bad
      BY <1>4, <3>1 DEF Scans
    <3> QED
      BY <1>4, <3>3, <3>4, <3>5
  <2>2. TakeByte(scan, byte) = FullShard(ended)
    BY <1>5 DEF TakeByte, taken
  <2> HIDE DEF ended
  <2>3. ended.rows = EndRow(ended.shards) + ended.shardRows
    <3>1. EndRow(scan.shards) \in Nat
      <4>1. scan.shards # <<>> => Len(scan.shards) \in 1 .. Len(scan.shards)
        BY <1>1, EmptySeq
      <4>2. scan.shards # <<>> => scan.shards[Len(scan.shards)] \in RowBounds
        BY <1>1, <4>1, ElementOfSeq
      <4> QED
        BY <4>2 DEF EndRow, RowBounds
    <3>2. scan.rows = EndRow(scan.shards) + scan.shardRows
      BY <1>1 DEF Rest
    <3> QED
      BY <1>1, <2>1, <3>1, <3>2
  <2>4. Rest(ended)
    BY <1>1, <2>1, <2>3, RestGrows
  <2>5. ended.shardRows = RowsOf(ended.shard) /\ ended.shard # <<>>
    BY <1>2, <1>3, <2>1
  <2>6. CASE ended.shardRows = call.records
    <3>1. FullShard(ended) = EndShard(ended)
      BY <2>6 DEF FullShard
    <3>2. ScanInv(EndShard(ended)) /\ EndShard(ended).bytes = ended.bytes
      BY <2>1, <2>4, <2>5, <2>6, FullLeavesNothing
    <3> QED
      BY <2>1, <2>2, <3>1, <3>2
  <2>7. CASE ended.shardRows # call.records
    <3>1. FullShard(ended) = ended
      BY <2>7 DEF FullShard
    <3>2. ended.shardRows < call.records
      BY <1>1, <2>1, <2>7 DEF ScanInv
    <3>3. ended.shardRows = Cardinality(LineFeeds(ended.shard))
      BY <1>3, <1>5, <2>1
    <3>4. ended.shard[Len(ended.shard)] = "l"
      BY <1>2, <1>5, <2>1
    <3>5. ~ended.invalid => Len(ended.shards) <= MaxShards
      BY <2>1 DEF ScanInv
    <3>6. ScanInv(ended)
      BY <2>1, <2>4, <3>2, <3>3, <3>4, <3>5 DEF ScanInv
    <3> QED
      BY <2>1, <2>2, <3>1, <3>6
  <2> QED
    BY <2>6, <2>7
<1>6. CASE byte # "l"
  <2> DEFINE grown == TakeByte(scan, byte)
             bad == taken.invalid \/ Len(scan.record) >= MaxRecord
  <2>1. /\ grown \in Scans
        /\ grown.bytes = Append(scan.bytes, byte) /\ grown.shard = Append(scan.shard, byte)
        /\ grown.shards = scan.shards /\ grown.rows = scan.rows /\ grown.shardRows = scan.shardRows
        /\ grown.record = Append(scan.record, byte) /\ (~grown.invalid => ~scan.invalid)
    <3>1. grown = [taken EXCEPT !.record = Append(@, byte), !.invalid = bad]
      BY <1>6 DEF TakeByte, taken
    <3>2. bad \in BOOLEAN /\ (~bad => ~scan.invalid)
      BY <1>4
    <3> HIDE DEF bad, grown
    <3>3. grown \in Scans
      BY <1>2, <1>4, <3>1, <3>2 DEF Scans
    <3>4. /\ grown.bytes = taken.bytes /\ grown.shard = taken.shard /\ grown.shards = taken.shards
          /\ grown.rows = taken.rows /\ grown.shardRows = taken.shardRows
          /\ grown.record = Append(taken.record, byte) /\ grown.invalid = bad
      BY <1>4, <3>1 DEF Scans
    <3> QED
      BY <1>4, <3>2, <3>3, <3>4
  <2> HIDE DEF grown
  <2>2. grown.rows = EndRow(grown.shards) + grown.shardRows
    BY <1>1, <2>1 DEF Rest
  <2>3. Rest(grown)
    BY <1>1, <2>1, <2>2, RestGrows
  <2>4. grown.shardRows = Cardinality(LineFeeds(grown.shard)) /\ grown.shardRows < call.records
    BY <1>1, <1>3, <1>6, <2>1 DEF ScanInv
  <2>5. grown.record # <<>> /\ grown.shard # <<>> /\ grown.shard[Len(grown.shard)] # "l"
    BY <1>2, <1>6, <2>1
  <2>6. ~grown.invalid => Len(grown.shards) <= MaxShards
    BY <2>1 DEF ScanInv
  <2>7. ScanInv(grown)
    BY <2>3, <2>4, <2>5, <2>6 DEF ScanInv
  <2> QED
    BY <2>1, <2>7 DEF grown
<1> QED
  BY <1>5, <1>6

\* After k bytes of a block the scan has read what it had, and those.
Follows(bytes, before, block, k) ==
  /\ bytes \in Seq(Token) /\ Len(bytes) = Len(before) + k
  /\ \A i \in 1 .. Len(before) : bytes[i] = before[i]
  /\ \A i \in 1 .. k : bytes[Len(before) + i] = block[i]

\* One more byte of the block has been scanned.
LEMMA FollowsMore ==
  ASSUME NEW b, NEW before \in Seq(Token), NEW block, NEW k \in Nat, Follows(b, before, block, k),
         block[k + 1] \in Token
  PROVE  Follows(Append(b, block[k + 1]), before, block, k + 1)
<1> DEFINE x == block[k + 1]
           c == Append(b, x)
           m == Len(before)
<1>1. b \in Seq(Token) /\ Len(b) = m + k /\ m \in Nat
  BY LenProperties DEF Follows
<1>2. /\ \A i \in 1 .. m : b[i] = before[i]
      /\ \A i \in 1 .. k : b[m + i] = block[i]
  BY DEF Follows
<1>3. x \in Token
  OBVIOUS
<1> HIDE DEF m, x
<1>4. /\ c \in Seq(Token) /\ Len(c) = Len(b) + 1 /\ c[Len(b) + 1] = x
      /\ \A i \in 1 .. Len(b) : c[i] = b[i]
  BY <1>1, <1>3, AppendProperties
<1> HIDE DEF c
<1>5. Len(c) = m + (k + 1)
  BY <1>1, <1>4
<1>6. ASSUME NEW i \in 1 .. m PROVE c[i] = before[i]
  <2>1. i \in 1 .. Len(b)
    BY <1>1
  <2> QED
    BY <2>1, <1>2, <1>4
<1>7. ASSUME NEW i \in 1 .. k + 1 PROVE c[m + i] = block[i]
  <2>1. CASE i = k + 1
    <3>1. m + i = Len(b) + 1
      BY <1>1, <2>1
    <3> QED
      BY <3>1, <2>1, <1>4 DEF x
  <2>2. CASE i # k + 1
    <3>1. i \in 1 .. k /\ m + i \in 1 .. Len(b)
      BY <1>1, <2>2
    <3> QED
      BY <3>1, <1>2, <1>4
  <2> QED
    BY <2>1, <2>2
<1> QED
  BY <1>4, <1>5, <1>6, <1>7 DEF Follows, c, m, x

\* The scan of a block keeps the invariant and takes all of the block.
LEMMA ScanOfBlock ==
  ASSUME NEW scan, ScanInv(scan), NEW block \in Seq(Token), call.records \in Nat \ {0}
  PROVE  /\ ScanInv(TakeBytes(scan, block))
         /\ Follows(TakeBytes(scan, block).bytes, scan.bytes, block, Len(block))
<1> DEFINE n == Len(block)
           Part1(k) == SubSeq(block, 1, k)
           After(k) == TakeBytes(scan, Part1(k))
           Good(k) == ScanInv(After(k)) /\ Follows(After(k).bytes, scan.bytes, block, k)
           B == {k \in Nat : k <= n => Good(k)}
<1>0. n \in Nat /\ scan.bytes \in Seq(Token) /\ Len(scan.bytes) \in Nat
  BY LenProperties DEF ScanInv, Rest, Scans
<1>1. ASSUME NEW k \in Nat, k <= n
      PROVE  /\ Part1(k) \in Seq(Token) /\ Len(Part1(k)) = k /\ DOMAIN Part1(k) = 1 .. k
             /\ \A i \in 1 .. k : Part1(k)[i] = block[i]
  <2>1. /\ \A i \in 1 .. k : block[i] \in Token
        /\ 1 \in Int /\ k \in Int
    BY <1>0, <1>1, ElementOfSeq
  <2>2. /\ Part1(k) \in Seq(Token) /\ Len(Part1(k)) = IF 1 <= k THEN k - 1 + 1 ELSE 0
        /\ \A i \in 1 .. k - 1 + 1 : Part1(k)[i] = block[1 + i - 1]
    BY <2>1, SubSeqProperties
  <2> HIDE DEF Part1
  <2>3. Len(Part1(k)) = k /\ \A i \in 1 .. k : Part1(k)[i] = block[i]
    BY <2>2
  <2> QED
    BY <2>2, <2>3, LenProperties
<1> HIDE DEF Part1, After
<1>2. 0 \in B
  <2>1. Part1(0) = <<>>
    BY SubSeqEmpty DEF Part1
  <2>2. After(0) = scan
    BY <2>1, ScanOfNone DEF After
  <2>3. Follows(scan.bytes, scan.bytes, block, 0)
    BY <1>0 DEF Follows
  <2> QED
    BY <2>2, <2>3
<1>3. ASSUME NEW k \in Nat, k \in B PROVE k + 1 \in B
  <2>0. SUFFICES ASSUME k + 1 <= n PROVE Good(k + 1)
    <3> HIDE DEF Good
    <3> QED
      OBVIOUS
  <2>1. ScanInv(After(k)) /\ Follows(After(k).bytes, scan.bytes, block, k)
    <3>1. Good(k)
      <4> HIDE DEF Good
      <4> QED
        BY <1>0, <1>3, <2>0
    <3> QED
      BY <3>1
  <2>2. /\ Part1(k) \in Seq(Token) /\ Part1(k + 1) \in Seq(Token)
        /\ DOMAIN Part1(k) = 1 .. k /\ DOMAIN Part1(k + 1) = 1 .. k + 1
        /\ \A i \in 1 .. k : Part1(k)[i] = Part1(k + 1)[i]
        /\ Part1(k + 1)[k + 1] = block[k + 1]
    <3>1. k <= n /\ k + 1 \in Nat
      BY <1>0, <2>0
    <3> QED
      BY <1>1, <2>0, <3>1
  <2>3. block[k + 1] \in Token /\ k + 1 \in 1 .. n
    BY <1>0, <2>0, ElementOfSeq
  <2>4. After(k + 1) = TakeByte(After(k), block[k + 1])
    <3>1. TakeBytes(scan, Part1(k + 1))
            = TakeByte(TakeBytes(scan, Part1(k)), Part1(k + 1)[k + 1])
      BY <2>2, ScanUnfolds
    <3> QED
      BY <2>2, <3>1 DEF After
  <2>6. ScanInv(After(k + 1)) /\ After(k + 1).bytes = Append(After(k).bytes, block[k + 1])
    BY <2>1, <2>3, <2>4, TakeByteKeeps
  <2> DEFINE b == After(k).bytes
             c == After(k + 1).bytes
  <2>8. Follows(c, scan.bytes, block, k + 1)
    <3>1. Follows(b, scan.bytes, block, k)
      BY <2>1
    <3>2. c = Append(b, block[k + 1])
      BY <2>6
    <3> HIDE DEF b, c
    <3> QED
      BY <1>0, <2>3, <3>1, <3>2, FollowsMore
  <2> QED
    BY <2>6, <2>8
<1>4. n \in B
  <2> HIDE DEF B, Good
  <2> QED
    BY <1>0, <1>2, <1>3, Induction
<1>5. Part1(n) = block
  BY SubSeqFull DEF Part1
<1>6. ScanInv(After(n)) /\ Follows(After(n).bytes, scan.bytes, block, n)
  <2>1. Good(n)
    <3> HIDE DEF n, Good
    <3> QED
      BY <1>0, <1>4
  <2> QED
    BY <2>1
<1> QED
  BY <1>5, <1>6 DEF After

\* The rows of bytes that end, or do not end, with a line feed.
LEMMA RowsAtTheEnd ==
  ASSUME NEW b \in Seq(Token), b # <<>>
  PROVE  /\ Cardinality(LineFeeds(b)) \in Nat
         /\ b[Len(b)] = "l" => RowsOf(b) = Cardinality(LineFeeds(b)) /\ RowsOf(b) > 0
         /\ b[Len(b)] # "l" => RowsOf(b) = Cardinality(LineFeeds(b)) + 1
<1>1. PICK c \in Seq(Token), x \in Token : b = Append(c, x)
  BY SequenceEmptyOrAppend
<1>2. b[Len(b)] = x
  BY <1>1, AppendProperties
<1>3. /\ Cardinality(LineFeeds(c)) \in Nat
      /\ RowsOf(b) = Cardinality(LineFeeds(c)) + 1
      /\ Cardinality(LineFeeds(b)) = Cardinality(LineFeeds(c)) + IF x = "l" THEN 1 ELSE 0
  BY <1>1, RowsOfAppended
<1> QED
  BY <1>2, <1>3

\* What the scan of a whole file returns: closed shards up to the last byte.
ScanEnded(scan) ==
  /\ scan \in Scans /\ Tiled(scan.shards, scan.bytes)
  /\ scan.shards # <<>> /\ EndByte(scan.shards) = Len(scan.bytes)
  /\ Len(scan.shards) <= MaxShards

\* The shard that is closed last ends the scan.
LEMMA EndShardEnds ==
  ASSUME NEW scan, Rest(scan), call.records \in Nat, scan.shard # <<>>,
         scan.shardRows = RowsOf(scan.shard), scan.shardRows <= call.records, ~EndShard(scan).invalid
  PROVE  ScanEnded(EndShard(scan)) /\ EndShard(scan).bytes = scan.bytes
<1> DEFINE closed == EndShard(scan)
<1>1. /\ closed \in Scans /\ Tiled(closed.shards, closed.bytes) /\ closed.bytes = scan.bytes
      /\ Len(closed.shards) = Len(scan.shards) + 1 /\ Len(scan.shards) < MaxShards
      /\ EndByte(closed.shards) = Len(scan.bytes)
  BY EndShardTiles
<1>2. Len(scan.shards) \in Nat
  BY LenProperties DEF Rest, Scans
<1> HIDE DEF closed
<1>3. closed.shards # <<>> /\ Len(closed.shards) <= MaxShards
  BY <1>1, <1>2, LimitsAssumption, EmptySeq
<1>4. ScanEnded(closed)
  BY <1>1, <1>3 DEF ScanEnded
<1> QED
  BY <1>1, <1>4 DEF closed

\* The end of the file ends the scan: every byte is in a shard (endScan of scanJsonlFile).
LEMMA EndScanEnds ==
  ASSUME NEW scan, ScanInv(scan), call.records \in Nat \ {0}, ~EndScan(scan).invalid
  PROVE  ScanEnded(EndScan(scan)) /\ EndScan(scan).bytes = scan.bytes
<1>1. /\ scan.bytes \in Seq(Token) /\ scan.record \in Seq(Token) /\ scan.shard \in Seq(Token)
      /\ scan.rows \in Nat /\ scan.shardRows \in Nat /\ scan.shards \in Seq(RowBounds) /\ scan.invalid \in BOOLEAN
      /\ scan \in Scans /\ Rest(scan) /\ Len(scan.bytes) \in Nat
  BY LenProperties DEF ScanInv, Rest, Scans
<1>2. EndRow(scan.shards) \in Nat /\ EndByte(scan.shards) \in Nat
  <2>1. scan.shards # <<>> => Len(scan.shards) \in 1 .. Len(scan.shards)
    BY <1>1, EmptySeq
  <2>2. scan.shards # <<>> => scan.shards[Len(scan.shards)] \in RowBounds
    BY <1>1, <2>1, ElementOfSeq
  <2> QED
    BY <2>2 DEF EndRow, EndByte, RowBounds
<1>5. scan.shardRows = Cardinality(LineFeeds(scan.shard)) /\ scan.shardRows < call.records
  BY DEF ScanInv
<1>3. CASE scan.record = <<>>
  <2>1. scan.rows # 0
    <3>1. SUFFICES ASSUME scan.rows = 0 PROVE EndScan(scan).invalid
      OBVIOUS
    <3>2. EndScan(scan) = [scan EXCEPT !.invalid = TRUE]
      BY <1>3, <3>1 DEF EndScan
    <3> QED
      BY <1>1, <3>2 DEF Scans
  <2>2. CASE scan.shardRows > 0
    <3>1. EndScan(scan) = EndShard(scan)
      BY <1>3, <2>1, <2>2 DEF EndScan
    <3>2. scan.shard # <<>>
      <4>1. LineFeeds(<<>>) = {}
        BY DEF LineFeeds
      <4>2. SUFFICES ASSUME scan.shard = <<>> PROVE FALSE
        OBVIOUS
      <4>3. scan.shardRows = 0
        BY <1>5, <4>1, <4>2, FS_EmptySet
      <4> QED
        BY <2>2, <4>3
    <3>3. scan.shardRows = RowsOf(scan.shard) /\ scan.shardRows <= call.records
      BY <1>1, <1>3, <1>5, <3>2, RowsAtTheEnd DEF ScanInv
    <3> QED
      BY <1>1, <3>1, <3>2, <3>3, EndShardEnds
  <2>3. CASE scan.shardRows = 0
    <3>1. EndScan(scan) = scan
      BY <1>3, <2>1, <2>3 DEF EndScan
    <3>2. scan.shard = <<>>
      <4>1. SUFFICES ASSUME scan.shard # <<>> PROVE FALSE
        OBVIOUS
      <4>2. scan.shard[Len(scan.shard)] = "l"
        BY <1>3, <4>1 DEF ScanInv
      <4>3. RowsOf(scan.shard) = Cardinality(LineFeeds(scan.shard)) /\ RowsOf(scan.shard) > 0
        BY <1>1, <4>1, <4>2, RowsAtTheEnd
      <4>4. RowsOf(scan.shard) = 0
        BY <1>5, <2>3, <4>3
      <4> QED
        BY <4>3, <4>4
    <3>3. scan.shards # <<>>
      BY <1>1, <2>1, <2>3 DEF Rest, EndRow
    <3>4. EndByte(scan.shards) = Len(scan.bytes)
      <4>1. EndByte(scan.shards) <= Len(scan.bytes)
        BY <1>1 DEF Rest
      <4>2. \A i \in EndByte(scan.shards) + 1 .. Len(scan.bytes) : scan.bytes[i] \in Token
        BY <1>1, <1>2, ElementOfSeq
      <4>3. EndByte(scan.shards) + 1 \in Int /\ Len(scan.bytes) \in Int
        BY <1>1, <1>2
      <4>4. Len(scan.shard) =
                        IF EndByte(scan.shards) + 1 <= Len(scan.bytes)
                        THEN Len(scan.bytes) - (EndByte(scan.shards) + 1) + 1 ELSE 0
        BY <1>1, <4>2, <4>3, SubSeqProperties DEF Rest
      <4>5. Len(scan.shard) = 0
        BY <3>2
      <4> QED
        BY <1>1, <1>2, <4>1, <4>4, <4>5
    <3>5. ~scan.invalid
      BY <3>1
    <3> QED
      BY <1>1, <3>1, <3>3, <3>4, <3>5 DEF ScanInv, Rest, ScanEnded
  <2> QED
    BY <1>1, <2>2, <2>3
<1>4. CASE scan.record # <<>>
  <2> DEFINE ended == EndRecord(scan)
  <2>1. /\ ended \in Scans
        /\ ended.bytes = scan.bytes /\ ended.shard = scan.shard /\ ended.shards = scan.shards
        /\ ended.rows = scan.rows + 1 /\ ended.shardRows = scan.shardRows + 1 /\ ended.record = <<>>
    <3> DEFINE bad == scan.invalid \/ ~ValidRecord(scan.record)
    <3>1. ended = [scan EXCEPT !.invalid = bad, !.record = <<>>, !.rows = @ + 1, !.shardRows = @ + 1]
      BY DEF EndRecord
    <3>2. bad \in BOOLEAN /\ <<>> \in Seq(Token) /\ scan.rows + 1 \in Nat /\ scan.shardRows + 1 \in Nat
      BY <1>1, EmptySeq
    <3> HIDE DEF bad, ended
    <3> QED
      BY <1>1, <3>1, <3>2 DEF Scans
  <2> HIDE DEF ended
  <2>2. scan.shard # <<>> /\ scan.shard[Len(scan.shard)] # "l"
    BY <1>4 DEF ScanInv
  <2>3. ended.shardRows = RowsOf(ended.shard)
    BY <1>1, <2>1, <2>2, RowsAtTheEnd DEF ScanInv
  <2>4. ended.shardRows <= call.records /\ ended.shardRows > 0 /\ ended.rows # 0
    BY <1>1, <2>1 DEF ScanInv
  <2>5. Rest(ended)
    <3>1. ended.rows = EndRow(ended.shards) + ended.shardRows
      BY <1>1, <1>2, <2>1 DEF Rest
    <3> QED
      BY <1>1, <2>1, <3>1 DEF Rest
  <2>6. CASE ended.shardRows = call.records
    <3> DEFINE closed == EndShard(ended)
    <3>1. /\ closed \in Scans /\ Tiled(closed.shards, closed.bytes) /\ closed.bytes = ended.bytes
          /\ closed.shardRows = 0 /\ closed.rows = ended.rows
      BY <2>1, <2>2, <2>3, <2>4, <2>5, EndShardTiles
    <3>2. FullShard(ended) = closed
      BY <2>6 DEF FullShard
    <3>3. EndScan(scan) = closed
      <4> HIDE DEF closed
      <4>1. closed.rows # 0 /\ ~(closed.shardRows > 0)
        BY <2>4, <3>1
      <4> QED
        BY <1>4, <3>2, <4>1 DEF EndScan, ended
    <3> QED
      BY <2>1, <2>2, <2>3, <2>4, <2>5, <3>3, EndShardEnds
  <2>7. CASE ended.shardRows # call.records
    <3>1. FullShard(ended) = ended
      BY <2>7 DEF FullShard
    <3>2. EndScan(scan) = EndShard(ended)
      BY <1>4, <2>4, <3>1 DEF EndScan, ended
    <3> QED
      BY <2>1, <2>2, <2>3, <2>4, <2>5, <3>2, EndShardEnds
  <2> QED
    BY <2>6, <2>7
<1> QED
  BY <1>3, <1>4

\* The union of two records that share no field.
LEMMA JoinedFields ==
  ASSUME NEW f, NEW g
  PROVE  /\ DOMAIN (Joined(f, g)) = DOMAIN f \cup DOMAIN g
         /\ \A x \in DOMAIN f : (Joined(f, g))[x] = f[x]
         /\ \A x \in DOMAIN g \ DOMAIN f : (Joined(f, g))[x] = g[x]
  BY DEF Joined

\* The fields of the bounds of a shard of records.
LEMMA RowFields ==
  ASSUME NEW b \in RowBounds, NEW digest
  PROVE  LET j == Joined([source_sha256 |-> digest], b)
         IN  /\ DOMAIN j = {"source_sha256", "byte_start", "byte_end", "row_start", "row_end", "row_count", "shard_sha256"}
             /\ j.source_sha256 = digest
             /\ j.byte_start = b.byte_start /\ j.byte_end = b.byte_end
             /\ j.row_start = b.row_start /\ j.row_end = b.row_end /\ j.row_count = b.row_count
             /\ j.shard_sha256 = b.shard_sha256
<1> DEFINE f == [source_sha256 |-> digest]
           j == Joined(f, b)
<1>1. DOMAIN f = {"source_sha256"} /\ f["source_sha256"] = digest
  OBVIOUS
<1>2. DOMAIN b = {"byte_start", "byte_end", "row_start", "row_end", "row_count", "shard_sha256"}
  BY DEF RowBounds
<1> HIDE DEF f
<1>3. /\ DOMAIN j = DOMAIN f \cup DOMAIN b
      /\ \A x \in DOMAIN f : j[x] = f[x]
      /\ \A x \in DOMAIN b \ DOMAIN f : j[x] = b[x]
  BY JoinedFields
<1> HIDE DEF j
<1>4. \A x \in DOMAIN b : j[x] = b[x]
  BY <1>1, <1>2, <1>3
<1>5. DOMAIN j = {"source_sha256", "byte_start", "byte_end", "row_start", "row_end", "row_count", "shard_sha256"}
  BY <1>1, <1>2, <1>3
<1>6. j["source_sha256"] = digest
  BY <1>1, <1>3
<1>7. /\ j["byte_start"] = b["byte_start"] /\ j["byte_end"] = b["byte_end"]
      /\ j["row_start"] = b["row_start"] /\ j["row_end"] = b["row_end"] /\ j["row_count"] = b["row_count"]
      /\ j["shard_sha256"] = b["shard_sha256"]
  BY <1>2, <1>4
<1> QED
  BY <1>5, <1>6, <1>7 DEF j, f

\* The manifest of a scan that ended covers what was scanned.
LEMMA JsonlIsWhole ==
  ASSUME NEW scan, ScanEnded(scan), built' = JsonlManifest(scan), call' = call
  PROVE  /\ RowsAreCovered'
         /\ built'.sources = <<[type |-> "dataset", path |-> call.path, sha256 |-> scan.bytes]>>
         /\ DOMAIN built'.shards = 1 .. Len(scan.shards) /\ Len(built'.shards) = Len(scan.shards)
<1> DEFINE n == Len(scan.shards)
           s == built'.shards
           sha == scan.bytes
<1>1. /\ scan.shards \in Seq(RowBounds) /\ scan.bytes \in Seq(Token) /\ n \in Nat /\ n # 0
      /\ DOMAIN scan.shards = 1 .. n
  <2>1. scan.shards \in Seq(RowBounds) /\ scan.bytes \in Seq(Token) /\ scan.shards # <<>>
    BY DEF ScanEnded, Scans
  <2> QED
    BY <2>1, LenProperties, EmptySeq
<1>2. built'.sources = <<[type |-> "dataset", path |-> call.path, sha256 |-> sha]>>
  BY DEF JsonlManifest
<1>3. s = [i \in 1 .. n |-> [source |-> 1, path |-> call.path,
                             bounds |-> Joined([source_sha256 |-> sha], scan.shards[i])]]
  BY <1>1 DEF JsonlManifest
<1> HIDE DEF s
<1>4. DOMAIN s = 1 .. n /\ Len(s) = n
  <2>1. DOMAIN s = 1 .. n
    BY <1>3
  <2> QED
    BY <1>1, <2>1
<1>5. ASSUME NEW i \in 1 .. n
      PROVE  /\ s[i].bounds = Joined([source_sha256 |-> sha], scan.shards[i])
             /\ DOMAIN s[i].bounds = {"source_sha256", "byte_start", "byte_end", "row_start", "row_end", "row_count", "shard_sha256"}
             /\ s[i].bounds.byte_start = scan.shards[i].byte_start
             /\ s[i].bounds.byte_end = scan.shards[i].byte_end
             /\ s[i].bounds.row_start = scan.shards[i].row_start
             /\ s[i].bounds.row_end = scan.shards[i].row_end
             /\ s[i].bounds.row_count = scan.shards[i].row_count
             /\ s[i].bounds.shard_sha256 = scan.shards[i].shard_sha256
             /\ s[i].bounds.row_count \in Nat
  <2>1. s[i].bounds = Joined([source_sha256 |-> sha], scan.shards[i])
    BY <1>3
  <2>2. scan.shards[i] \in RowBounds
    BY <1>1, ElementOfSeq
  <2>3. scan.shards[i].row_count \in Nat
    BY <2>2 DEF RowBounds
  <2> QED
    BY <2>1, <2>2, <2>3, RowFields
<1>6. Tiled(scan.shards, sha) /\ EndByte(scan.shards) = Len(sha)
  BY DEF ScanEnded
<1>7. SourceAsRead' = sha
  BY <1>2 DEF SourceAsRead
<1>8. 1 \in 1 .. n /\ n \in 1 .. n
  BY <1>1
<1>9. s[1].bounds.byte_start = 0 /\ s[1].bounds.row_start = 1
  BY <1>5, <1>6, <1>8 DEF Tiled, ScanEnded
<1>10. s[n].bounds.byte_end = Len(sha) /\ s[n].bounds.row_count <= call.records
  <2>1. s[n].bounds.byte_end = Len(sha)
    BY <1>5, <1>6, <1>8 DEF EndByte, ScanEnded
  <2>2. s[n].bounds.row_count <= call.records
    BY <1>5, <1>6, <1>8 DEF Tiled, Closed
  <2> QED
    BY <2>1, <2>2
<1>11. ASSUME NEW i \in 1 .. n - 1
       PROVE  /\ s[i + 1].bounds.byte_start = s[i].bounds.byte_end
              /\ s[i + 1].bounds.row_start = s[i].bounds.row_end + 1
              /\ s[i].bounds.row_count = call.records
  <2>1. i \in 1 .. n /\ i + 1 \in 1 .. n
    BY <1>1
  <2> QED
    BY <1>5, <1>6, <2>1 DEF Tiled
<1>12. ASSUME NEW i \in 1 .. n
       PROVE  /\ s[i].bounds.shard_sha256 = Slice(sha, s[i].bounds)
              /\ s[i].bounds.row_count = RowsOf(Slice(sha, s[i].bounds))
              /\ RowsAgree(s[i])
  <2>1. Closed(scan.shards[i], sha)
    BY <1>6 DEF Tiled
  <2>2. Slice(sha, s[i].bounds) = SubSeq(sha, scan.shards[i].byte_start + 1, scan.shards[i].byte_end)
    BY <1>5 DEF Slice
  <2>3. s[i].bounds.row_end + 1 = s[i].bounds.row_start + s[i].bounds.row_count
    BY <1>5, <2>1 DEF Closed
  <2> QED
    BY <1>5, <2>1, <2>2, <2>3 DEF Closed, RowsAgree
<1>13. RowsAreCovered'
  <2>1. RowsAreCovered' <=>
          /\ s[1].bounds.byte_start = 0 /\ s[1].bounds.row_start = 1
          /\ s[Len(s)].bounds.byte_end = Len(sha) /\ s[Len(s)].bounds.row_count <= call.records
          /\ \A i \in 1 .. Len(s) - 1 :
               /\ s[i + 1].bounds.byte_start = s[i].bounds.byte_end
               /\ s[i + 1].bounds.row_start = s[i].bounds.row_end + 1
               /\ s[i].bounds.row_count = call.records
          /\ \A i \in 1 .. Len(s) : /\ s[i].bounds.shard_sha256 = Slice(sha, s[i].bounds)
                                    /\ s[i].bounds.row_count = RowsOf(Slice(sha, s[i].bounds))
                                    /\ RowsAgree(s[i])
    BY <1>7 DEF RowsAreCovered, Consecutive, Slice, RowsOf, s, RowsAgree, SourceAsRead
  <2> QED
    BY <2>1, <1>4, <1>9, <1>10, <1>11, <1>12
<1> QED
  BY <1>2, <1>4, <1>13 DEF s

\* What the builders rely on of the call and the files.
BaseInv ==
  /\ call \in Calls /\ edits \in Nat
  /\ DOMAIN disk = DOMAIN call.files
  /\ \A name \in DOMAIN disk :
       /\ disk[name] \in FileRecord
       /\ \E file \in Range(call.files) \cup call.others : file.bytes = disk[name].bytes
  /\ edits = 0 => disk = call.files

\* It holds at the start.
LEMMA BaseInit == Init => BaseInv
<1> SUFFICES ASSUME Init PROVE BaseInv
  OBVIOUS
<1>1. call \in Calls /\ disk = call.files /\ edits = 0
  BY DEF Init
<1>2. call.files \in Seq(FileRecord)
  BY <1>1, CallsAssumption DEF CallRecord
<1>3. ASSUME NEW name \in DOMAIN disk
      PROVE  disk[name] \in FileRecord /\ disk[name] \in Range(call.files)
  <2>1. disk \in Seq(FileRecord)
    BY <1>1, <1>2
  <2>2. disk[name] \in FileRecord
    BY <2>1, ElementOfSeq, LenProperties
  <2> QED
    BY <1>1, <2>2, Zenon DEF Range
<1> QED
  BY <1>1, <1>3 DEF BaseInv

\* Every step keeps it: an edit leaves a file that the call allows, every other step leaves the files.
LEMMA BaseStep == ASSUME BaseInv, [Next]_vars PROVE BaseInv'
<1>1. CASE EditFile
  <2>1. PICK name \in DOMAIN disk, file \in call.others :
          disk' = [disk EXCEPT ![name] = [file EXCEPT !.mtime = disk[name].mtime + 1]]
    BY <1>1, Zenon DEF EditFile
  <2>2. edits' = edits + 1 /\ call' = call
    BY <1>1 DEF EditFile
  <2>3. file \in FileRecord
    BY CallsAssumption DEF BaseInv, CallRecord
  <2>4. disk[name].mtime + 1 \in Nat
    BY DEF BaseInv, FileRecord
  <2> DEFINE new == [file EXCEPT !.mtime = disk[name].mtime + 1]
  <2>5. new \in FileRecord /\ new.bytes = file.bytes
    <3> DEFINE t == disk[name].mtime + 1
    <3> HIDE DEF t
    <3>1. t \in Nat
      BY <2>4 DEF t
    <3>2. [file EXCEPT !.mtime = t] = [kind |-> file.kind, type |-> file.type, bytes |-> file.bytes, mtime |-> t]
      BY <2>3 DEF FileRecord
    <3>3. file.kind \in STRING /\ file.type \in STRING /\ file.bytes \in Seq(Token)
      BY <2>3 DEF FileRecord
    <3> QED
      BY <3>1, <3>2, <3>3, Zenon DEF FileRecord, t
  <2> HIDE DEF new
  <2>6. disk' = [disk EXCEPT ![name] = new]
    BY <2>1 DEF new
  <2>7. DOMAIN disk' = DOMAIN disk /\ \A m \in DOMAIN disk : disk'[m] = IF m = name THEN new ELSE disk[m]
    BY <2>6
  <2>8. \A m \in DOMAIN disk' : \E f \in Range(call.files) \cup call.others : f.bytes = disk'[m].bytes
    BY <2>5, <2>7 DEF BaseInv
  <2>9. \A m \in DOMAIN disk' : disk'[m] \in FileRecord
    BY <2>5, <2>7 DEF BaseInv
  <2>10. Range(call.files)' = Range(call.files)
    BY <2>2
  <2>11. edits' \in Nat /\ edits' # 0
    BY <2>2 DEF BaseInv
  <2> QED
    BY <2>2, <2>7, <2>8, <2>9, <2>10, <2>11 DEF BaseInv
<1>2. CASE ~EditFile
  <2>1. UNCHANGED <<call, disk, edits>>
    <3> USE DEF BuilderStep, Refuse, Return, JobStep
    <3>1. CASE TextNext
      BY <3>1 DEF TextNext, OpenText, ReadText, RecheckPath, Cut, ReadOutline
    <3>2. CASE JsonlNext
      BY <3>2 DEF JsonlNext, OpenJsonl, ScanBlock, EndOfFile
    <3>3. CASE ScanNext
      BY <3>3 DEF ScanNext, OpenOcr, CountPages, HashPages, OpenMedia, HashBefore, Probe, HashAfter, AddMedia, Proceed
    <3>4. CASE HandEdit \/ Plan
      BY <3>4 DEF HandEdit, Plan
    <3>5. CASE StartChecks \/ StartVerifies \/ BeginPass \/ ProcessShard \/ Extract \/ Rehash
      BY <3>5 DEF StartChecks, StartVerifies, BeginPass, ProcessShard, Extract, Rehash, Settle
    <3>6. CASE UNCHANGED vars
      BY <3>6 DEF vars
    <3> QED
      BY <1>2, <3>1, <3>2, <3>3, <3>4, <3>5, <3>6 DEF Next
  <2>2. Range(call.files)' = Range(call.files)
    BY <2>1
  <2> QED
    BY <2>1, <2>2 DEF BaseInv
<1> QED
  BY <1>1, <1>2

-----------------------------------------------------------------------------
(* The record builder                                                      *)

\* The least of two naturals.
LEMMA LeastOfTwo == ASSUME NEW m \in Nat, NEW n \in Nat PROVE Min({m, n}) = IF m <= n THEN m ELSE n
<1>1. CASE m <= n
  <2>1. \A x \in {m, n} : (\A y \in {m, n} : x <= y) <=> x = m
    BY <1>1
  <2> QED
    BY <1>1, <2>1 DEF Min
<1>2. CASE ~(m <= n)
  <2>1. \A x \in {m, n} : (\A y \in {m, n} : x <= y) <=> x = n
    BY <1>2
  <2> QED
    BY <1>2, <2>1 DEF Min
<1> QED
  BY <1>1, <1>2

Prefix(s, t) == Len(s) <= Len(t) /\ \A i \in 1 .. Len(s) : s[i] = t[i]

\* A block is what the file holds from where the scan is, and is empty at the end alone.
LEMMA BlockIsNext ==
  ASSUME BaseInv, call.path \in DOMAIN disk, work.bytes \in Seq(Token)
  PROVE  LET bytes == disk[call.path].bytes
         IN  /\ Block \in Seq(Token) /\ bytes \in Seq(Token)
             /\ Len(work.bytes) <= Len(bytes) =>
                  /\ Len(work.bytes) + Len(Block) <= Len(bytes)
                  /\ \A i \in 1 .. Len(Block) : Block[i] = bytes[Len(work.bytes) + i]
             /\ Block = <<>> => Len(bytes) <= Len(work.bytes)
<1> DEFINE bytes == disk[call.path].bytes
           m == Len(work.bytes)
           n == Len(bytes)
           rest == SubSeq(bytes, m + 1, n)
           k == Min({ReadBytes, Len(rest)})
<1>1. bytes \in Seq(Token)
  BY DEF BaseInv, FileRecord
<1>2. m \in Nat /\ n \in Nat
  BY <1>1, LenProperties
<1> HIDE DEF bytes, m, n
<1>3. /\ rest \in Seq(Token) /\ Len(rest) = IF m + 1 <= n THEN n - (m + 1) + 1 ELSE 0
      /\ \A i \in 1 .. n - (m + 1) + 1 : rest[i] = bytes[(m + 1) + i - 1]
  <2>1. \A i \in m + 1 .. n : bytes[i] \in Token
    BY <1>1, <1>2, ElementOfSeq DEF n
  <2> QED
    BY <1>2, <2>1, SubSeqProperties
<1> HIDE DEF rest
<1>4. Len(rest) \in Nat /\ ReadBytes \in Nat \ {0}
  BY <1>3, LenProperties, BlocksAssumption
<1>5. k \in Nat /\ k <= Len(rest) /\ (k = 0 => Len(rest) = 0)
  BY <1>4, LeastOfTwo
<1>6. Block = SubSeq(rest, 1, k)
  BY DEF Block, rest, m, n, bytes, Size
<1> HIDE DEF k
<1>7. /\ Block \in Seq(Token) /\ Len(Block) = IF 1 <= k THEN k - 1 + 1 ELSE 0
      /\ \A i \in 1 .. k - 1 + 1 : Block[i] = rest[1 + i - 1]
  <2>1. \A i \in 1 .. k : rest[i] \in Token
    BY <1>3, <1>4, <1>5, ElementOfSeq
  <2>2. k \in Int
    BY <1>5
  <2> QED
    BY <1>6, <2>1, <2>2, SubSeqProperties
<1> HIDE DEF Block
<1>8. Len(Block) = k /\ \A i \in 1 .. k : Block[i] = rest[i]
  BY <1>5, <1>7
<1>9. ASSUME m <= n
      PROVE  m + Len(Block) <= n /\ \A i \in 1 .. Len(Block) : Block[i] = bytes[m + i]
  <2>1. Len(rest) = n - m
    BY <1>2, <1>3, <1>9
  <2>2. ASSUME NEW i \in 1 .. k PROVE Block[i] = bytes[m + i]
    <3>1. i \in 1 .. n - (m + 1) + 1 /\ (m + 1) + i - 1 = m + i
      BY <1>2, <1>4, <1>5, <2>1
    <3> QED
      BY <1>3, <1>8, <3>1
  <2> QED
    BY <1>2, <1>4, <1>5, <1>8, <2>1, <2>2
<1>10. ASSUME Block = <<>> PROVE n <= m
  <2>1. Len(rest) = 0
    BY <1>5, <1>8, <1>10
  <2> QED
    BY <1>2, <1>3, <2>1
<1> QED
  BY <1>1, <1>7, <1>9, <1>10 DEF bytes, m, n

\* While it scans, the builder has read what the file held, and the loop invariant holds.
ScanningInv ==
  stage = "scanning" =>
    /\ call.builder = "jsonl" /\ call.records \in Nat \ {0}
    /\ ScanInv(work) /\ ~work.invalid
    /\ edits = 0 => Safe(call.path) /\ IsFile(call.path) /\ Prefix(work.bytes, disk[call.path].bytes)

\* A builder that takes one file has it.
LEMMA PathInDisk ==
  ASSUME BaseInv, call.builder \notin {"translation", "media"}
  PROVE  call.path \in DOMAIN disk
  BY CallsAssumption DEF BaseInv

\* Which actions lead to which stage, and which return a manifest.
LEMMA StageAfter ==
  ASSUME Next
  PROVE  /\ stage' = "opened" => OpenText \/ EditFile
         /\ stage' = "read" => ReadText \/ EditFile
         /\ stage' = "cutting" => ReadText \/ RecheckPath \/ Cut \/ EditFile
         /\ stage' = "scanning" => OpenJsonl \/ ScanBlock \/ EditFile
         /\ stage' = "counting" => OpenOcr \/ EditFile
         /\ stage' = "counted" => CountPages \/ EditFile
         /\ stage' = "hashing" => OpenMedia \/ Probe \/ AddMedia \/ EditFile
         /\ stage' = "probing" => HashBefore \/ EditFile
         /\ stage' = "rehashing" => Probe \/ EditFile
         /\ stage' = "sizing" => HashAfter \/ EditFile
         /\ stage' = "called" => EditFile
<1> USE DEF BuilderStep, Refuse, Return, JobStep
<1>1. CASE TextNext
  <2>1. OpenText => stage' \in {"opened", "refused"}
    BY DEF OpenText
  <2>2. ReadText => stage' \in {"read", "cutting", "refused"}
    BY DEF ReadText
  <2>3. RecheckPath => stage' \in {"cutting", "refused"}
    BY DEF RecheckPath
  <2>4. Cut => stage' \in {"cutting", "built"}
    BY DEF Cut
  <2>5. ReadOutline => stage' \in {"built", "refused"}
    BY DEF ReadOutline
  <2> QED
    BY <1>1, <2>1, <2>2, <2>3, <2>4, <2>5 DEF TextNext
<1>2. CASE JsonlNext
  <2>1. OpenJsonl => stage' \in {"scanning", "refused"}
    BY DEF OpenJsonl
  <2>2. ScanBlock => stage' \in {"scanning", "refused"}
    BY DEF ScanBlock
  <2>3. EndOfFile => stage' \in {"built", "refused"}
    BY DEF EndOfFile
  <2> QED
    BY <1>2, <2>1, <2>2, <2>3 DEF JsonlNext
<1>3. CASE ScanNext
  <2>1. OpenOcr => stage' \in {"counting", "refused"}
    BY DEF OpenOcr
  <2>2. CountPages => stage' \in {"counted", "refused"}
    BY DEF CountPages
  <2>3. HashPages => stage' \in {"built", "refused"}
    BY DEF HashPages
  <2>4. OpenMedia => stage' \in {"hashing", "refused"}
    BY DEF OpenMedia
  <2>5. HashBefore => stage' \in {"probing", "refused"}
    BY DEF HashBefore
  <2>6. Probe => stage' \in {"rehashing", "hashing", "built", "refused"}
    BY DEF Probe, Proceed
  <2>7. HashAfter => stage' \in {"sizing", "refused"}
    BY DEF HashAfter
  <2>8. AddMedia => stage' \in {"hashing", "built", "refused"}
    BY DEF AddMedia, Proceed
  <2> QED
    BY <1>3, <2>1, <2>2, <2>3, <2>4, <2>5, <2>6, <2>7, <2>8 DEF ScanNext
<1>4. CASE HandEdit \/ Plan
  BY <1>4 DEF HandEdit, Plan
<1>5. CASE StartChecks \/ StartVerifies \/ BeginPass \/ ProcessShard \/ Extract \/ Rehash
  <2>1. stage' \in {"checked", "turned_away", "admitted", "working", "extracted", "done"}
    BY <1>5 DEF StartChecks, StartVerifies, BeginPass, ProcessShard, Extract, Rehash, Settle
  <2> QED
    BY <2>1
<1> QED
  BY <1>1, <1>2, <1>3, <1>4, <1>5 DEF Next

\* A manifest is returned by these alone, and once.
LEMMA BuiltBy ==
  ASSUME Next
  PROVE  Cut \/ ReadOutline \/ EndOfFile \/ HashPages \/ Probe \/ AddMedia \/ UNCHANGED built
<1> USE DEF BuilderStep, Refuse, JobStep
<1>1. CASE TextNext
  BY <1>1 DEF TextNext, OpenText, ReadText, RecheckPath
<1>2. CASE JsonlNext
  BY <1>2 DEF JsonlNext, OpenJsonl, ScanBlock
<1>3. CASE ScanNext
  BY <1>3 DEF ScanNext, OpenOcr, CountPages, OpenMedia, HashBefore, HashAfter
<1>4. CASE EditFile \/ HandEdit \/ Plan
  BY <1>4 DEF EditFile, HandEdit, Plan
<1>5. CASE StartChecks \/ StartVerifies \/ BeginPass \/ ProcessShard \/ Extract \/ Rehash
  BY <1>5 DEF StartChecks, StartVerifies, BeginPass, ProcessShard, Extract, Rehash, Settle
<1> QED
  BY <1>1, <1>2, <1>3, <1>4, <1>5 DEF Next

\* Other programs edit files and nothing else.
LEMMA EditsAreCounted ==
  ASSUME BaseInv, [Next]_vars
  PROVE  /\ call' = call
         /\ ~EditFile => disk' = disk /\ edits' = edits
         /\ EditFile => edits' = edits + 1 /\ edits' # 0 /\ UNCHANGED <<stage, work, built, manifest, results>>
<1>0. SUFFICES ASSUME ~EditFile PROVE UNCHANGED <<call, disk, edits>>
  <2>1. EditFile => UNCHANGED <<call, stage, work, built, manifest, results>> /\ edits' = edits + 1 /\ edits \in Nat
    BY DEF EditFile, BaseInv
  <2> QED
    BY <2>1
<1> USE DEF BuilderStep, Refuse, Return, JobStep
<1>1. CASE TextNext
  BY <1>1 DEF TextNext, OpenText, ReadText, RecheckPath, Cut, ReadOutline
<1>2. CASE JsonlNext
  BY <1>2 DEF JsonlNext, OpenJsonl, ScanBlock, EndOfFile
<1>3. CASE ScanNext
  BY <1>3 DEF ScanNext, OpenOcr, CountPages, HashPages, OpenMedia, HashBefore, Probe, HashAfter, AddMedia, Proceed
<1>4. CASE HandEdit \/ Plan
  BY <1>4 DEF HandEdit, Plan
<1>5. CASE StartChecks \/ StartVerifies \/ BeginPass \/ ProcessShard \/ Extract \/ Rehash
  BY <1>5 DEF StartChecks, StartVerifies, BeginPass, ProcessShard, Extract, Rehash, Settle
<1>6. CASE UNCHANGED vars
  BY <1>6 DEF vars
<1> QED
  BY <1>0, <1>1, <1>2, <1>3, <1>4, <1>5, <1>6 DEF Next

\* What the scan keeps says nothing of the state beyond the call.
LEMMA ScanInvStays ==
  ASSUME NEW scan, ScanInv(scan), work' = scan, call' = call
  PROVE  ScanInv(work)'
  BY DEF ScanInv, Rest, Tiled, Closed

\* The scan begins with it.
LEMMA ScanBegins == ASSUME call.records \in Nat \ {0} PROVE ScanInv(Scan0) /\ ~Scan0.invalid /\ Scan0.bytes = <<>>
<1> DEFINE s == Scan0
<1>1. /\ s.bytes = <<>> /\ s.record = <<>> /\ s.shard = <<>> /\ s.rows = 0 /\ s.shardRows = 0
      /\ s.shards = <<>> /\ s.invalid = FALSE
  BY DEF Scan0
<1>2. /\ \A S : <<>> \in Seq(S)
      /\ Len(<<>>) = 0
  BY EmptySeq
<1>3. s \in Scans
  BY <1>2 DEF Scan0, Scans
<1> HIDE DEF s
<1>4. EndByte(s.shards) = 0 /\ EndRow(s.shards) = 0
  BY <1>1 DEF EndByte, EndRow
<1>5. Tiled(s.shards, s.bytes)
  <2>1. Tiled(<<>>, s.bytes)
    BY DEF Tiled
  <2> QED
    BY <1>1, <2>1
<1>6. SubSeq(s.bytes, EndByte(s.shards) + 1, Len(s.bytes)) = <<>>
  BY <1>1, <1>4
<1>7. LineFeeds(<<>>) = {}
  BY DEF LineFeeds
<1>8. Cardinality(LineFeeds(s.shard)) = 0
  BY <1>1, <1>7, FS_EmptySet
<1>9. Rest(s)
  BY <1>1, <1>2, <1>3, <1>4, <1>5, <1>6 DEF Rest
<1>10. ScanInv(s)
  BY <1>1, <1>2, <1>8, <1>9, LimitsAssumption DEF ScanInv
<1> QED
  BY <1>1, <1>10 DEF s

\* Every step keeps what the scan keeps: a block is scanned byte by byte.
LEMMA ScanningStep == ASSUME BaseInv, ScanningInv, [Next]_vars PROVE ScanningInv'
<1>0. SUFFICES ASSUME stage' = "scanning"
      PROVE  /\ call.builder = "jsonl" /\ call.records \in Nat \ {0}
             /\ ScanInv(work)' /\ ~work'.invalid
             /\ edits' = 0 => /\ Safe(call.path)' /\ IsFile(call.path)'
                              /\ Prefix(work'.bytes, disk'[call.path].bytes)
  BY EditsAreCounted DEF ScanningInv, Prefix
<1> USE DEF BuilderStep, Refuse
<1>1. CASE OpenJsonl
  <2>1. /\ call.builder = "jsonl" /\ call.records > 0 /\ Safe(call.path) /\ IsFile(call.path)
        /\ work' = Scan0 /\ UNCHANGED <<call, disk, edits>>
    BY <1>0, <1>1 DEF OpenJsonl
  <2>2. call.records \in Nat \ {0}
    BY <2>1, CallsAssumption DEF BaseInv, CallRecord
  <2>3. ScanInv(Scan0) /\ ~Scan0.invalid /\ Scan0.bytes = <<>>
    BY <2>2, ScanBegins
  <2>4. ScanInv(work)'
    BY <2>1, <2>3, ScanInvStays
  <2>5. Safe(call.path)' /\ IsFile(call.path)'
    BY <2>1 DEF Safe, Linked, Barred, IsFile
  <2>6. Prefix(<<>>, disk[call.path].bytes)
    <3>1. call.path \in DOMAIN disk
      BY <2>1, PathInDisk
    <3>2. disk[call.path].bytes \in Seq(Token)
      BY <3>1 DEF BaseInv, FileRecord
    <3> QED
      BY <3>2, LenProperties DEF Prefix
  <2> QED
    BY <2>1, <2>2, <2>3, <2>4, <2>5, <2>6
<1>2. CASE ScanBlock
  <2> DEFINE scan == TakeBytes(work, Block)
  <2>1. /\ stage = "scanning" /\ work' = scan /\ ~scan.invalid /\ UNCHANGED <<call, disk, edits>>
    BY <1>0, <1>2 DEF ScanBlock, TakeBytes
  <2>2. /\ call.builder = "jsonl" /\ call.records \in Nat \ {0} /\ ScanInv(work)
        /\ edits = 0 => Safe(call.path) /\ IsFile(call.path) /\ Prefix(work.bytes, disk[call.path].bytes)
    BY <2>1 DEF ScanningInv
  <2>3. work.bytes \in Seq(Token) /\ call.path \in DOMAIN disk
    BY <2>2, PathInDisk DEF ScanInv, Rest, Scans
  <2>4. /\ Block \in Seq(Token) /\ disk[call.path].bytes \in Seq(Token)
        /\ Len(work.bytes) <= Len(disk[call.path].bytes) =>
             /\ Len(work.bytes) + Len(Block) <= Len(disk[call.path].bytes)
             /\ \A i \in 1 .. Len(Block) : Block[i] = disk[call.path].bytes[Len(work.bytes) + i]
    BY <2>3, BlockIsNext
  <2>5. ScanInv(scan) /\ Follows(scan.bytes, work.bytes, Block, Len(Block))
    BY <2>2, <2>4, ScanOfBlock
  <2> HIDE DEF scan
  <2>6. ScanInv(work)'
    BY <2>1, <2>5, ScanInvStays
  <2>7. ASSUME edits = 0 PROVE Prefix(scan.bytes, disk[call.path].bytes)
    <3> DEFINE bytes == disk[call.path].bytes
               m == Len(work.bytes)
               k == Len(Block)
    <3>1. Prefix(work.bytes, bytes)
      BY <2>2, <2>7
    <3>2. m \in Nat /\ k \in Nat /\ Len(bytes) \in Nat
      BY <2>3, <2>4, LenProperties
    <3>3. Len(scan.bytes) = m + k /\ m + k <= Len(bytes)
      BY <2>4, <2>5, <3>1 DEF Follows, Prefix
    <3>4. ASSUME NEW i \in 1 .. m + k PROVE scan.bytes[i] = bytes[i]
      <4>1. CASE i \in 1 .. m
        BY <2>5, <3>1, <4>1 DEF Follows, Prefix
      <4>2. CASE i \notin 1 .. m
        <5>1. i - m \in 1 .. k /\ m + (i - m) = i
          BY <3>2, <4>2
        <5>2. scan.bytes[m + (i - m)] = Block[i - m] /\ Block[i - m] = bytes[m + (i - m)]
          BY <2>4, <2>5, <3>1, <5>1 DEF Follows, Prefix
        <5> QED
          BY <5>1, <5>2
      <4> QED
        BY <4>1, <4>2
    <3> QED
      BY <3>3, <3>4 DEF Prefix
  <2>8. edits = 0 => Safe(call.path)' /\ IsFile(call.path)'
    BY <2>1, <2>2 DEF Safe, Linked, Barred, IsFile
  <2> QED
    BY <2>1, <2>2, <2>6, <2>7, <2>8
<1>3. CASE EditFile \/ UNCHANGED vars
  <2>1. /\ UNCHANGED <<call, stage, work>>
        /\ edits' = 0 => UNCHANGED <<disk, edits>>
    <3>1. CASE EditFile
      BY <3>1, EditsAreCounted
    <3>2. CASE UNCHANGED vars
      BY <3>2 DEF vars
    <3> QED
      BY <1>3, <3>1, <3>2
  <2>2. /\ call.builder = "jsonl" /\ call.records \in Nat \ {0} /\ ScanInv(work) /\ ~work.invalid
        /\ edits = 0 => Safe(call.path) /\ IsFile(call.path) /\ Prefix(work.bytes, disk[call.path].bytes)
    BY <1>0, <2>1 DEF ScanningInv
  <2>3. ScanInv(work)'
    BY <2>1, <2>2, ScanInvStays
  <2>4. edits' = 0 => Safe(call.path)' /\ IsFile(call.path)'
    BY <2>1, <2>2 DEF Safe, Linked, Barred, IsFile
  <2> QED
    BY <2>1, <2>2, <2>3, <2>4
<1> QED
  BY <1>0, <1>1, <1>2, <1>3, StageAfter

Increasing(s) == \A i, j \in DOMAIN s : i < j => s[i] < s[j]

\* A finite set of naturals can be put in order.
LEMMA OrderExists ==
  ASSUME NEW n \in Nat, NEW numbers \in SUBSET (0 .. n)
  PROVE  /\ IsFiniteSet(numbers) /\ Cardinality(numbers) \in Nat
         /\ \E s \in [1 .. Cardinality(numbers) -> numbers] : Increasing(s)
<1> DEFINE Ordered(S) == \E s \in [1 .. Cardinality(S) -> S] : Increasing(s)
           B == {k \in Nat : \A S \in SUBSET (0 .. n) : (\A x \in S : x < k) => Ordered(S)}
<1>0. ASSUME NEW S \in SUBSET (0 .. n) PROVE IsFiniteSet(S) /\ Cardinality(S) \in Nat
  <2>1. IsFiniteSet(0 .. n)
    BY FS_Interval, 0 \in Int, n \in Int
  <2>2. IsFiniteSet(S)
    BY <2>1, FS_Subset
  <2> QED
    BY <2>2, FS_CardinalityType
<1>1. 0 \in B
  <2>1. ASSUME NEW S \in SUBSET (0 .. n), \A x \in S : x < 0 PROVE Ordered(S)
    <3>1. S = {}
      BY <2>1
    <3>2. Cardinality(S) = 0 /\ 1 .. 0 = {}
      BY <3>1, FS_EmptySet
    <3>3. [i \in 1 .. 0 |-> 0] \in [1 .. Cardinality(S) -> S]
      BY <3>1, <3>2
    <3>4. Increasing([i \in 1 .. 0 |-> 0])
      BY DEF Increasing
    <3> QED
      BY <3>3, <3>4
  <2> HIDE DEF Ordered
  <2> QED
    BY <2>1
<1>2. ASSUME NEW k \in Nat, k \in B PROVE k + 1 \in B
  <2>1. ASSUME NEW S \in SUBSET (0 .. n), \A x \in S : x < k + 1 PROVE Ordered(S)
    <3> DEFINE T == S \ {k}
    <3>1. T \in SUBSET (0 .. n) /\ \A x \in T : x < k
      BY <2>1
    <3>2. Ordered(T)
      <4> HIDE DEF Ordered, T
      <4> QED
        BY <1>2, <3>1
    <3>3. CASE k \notin S
      <4>1. T = S
        BY <3>3
      <4> QED
        BY <3>2, <4>1
    <3>4. CASE k \in S
      <4> DEFINE c == Cardinality(T)
      <4>1. PICK s \in [1 .. c -> T] : Increasing(s)
        BY <3>2
      <4>2. IsFiniteSet(T) /\ c \in Nat
        BY <1>0, <3>1
      <4>3. Cardinality(S) = c + 1
        <5>1. S = T \cup {k} /\ k \notin T
          BY <3>4
        <5> HIDE DEF T
        <5> QED
          BY <4>2, <5>1, FS_AddElement
      <4> HIDE DEF c
      <4> DEFINE more == [i \in 1 .. c + 1 |-> IF i = c + 1 THEN k ELSE s[i]]
      <4>4. more \in [1 .. Cardinality(S) -> S]
        <5>1. \A i \in 1 .. c + 1 : i # c + 1 => i \in 1 .. c
          BY <4>2
        <5>2. \A i \in 1 .. c : s[i] \in S
          BY <4>1
        <5> QED
          BY <3>4, <4>3, <5>1, <5>2
      <4>5. Increasing(more)
        <5>1. ASSUME NEW i \in 1 .. c + 1, NEW j \in 1 .. c + 1, i < j PROVE more[i] < more[j]
          <6>1. i \in 1 .. c /\ s[i] \in T
            BY <4>1, <4>2, <5>1
          <6>2. CASE j = c + 1
            <7>1. more[i] = s[i] /\ more[j] = k
              BY <4>2, <5>1, <6>1, <6>2
            <7>2. s[i] < k
              BY <3>1, <6>1
            <7> QED
              BY <7>1, <7>2
          <6>3. CASE j # c + 1
            <7>1. j \in 1 .. c
              BY <4>2, <6>3
            <7> QED
              <8>1. more[i] = s[i] /\ more[j] = s[j]
                BY <4>2, <6>1, <7>1
              <8>2. DOMAIN s = 1 .. c
                BY <4>1
              <8>3. s[i] < s[j]
                BY <4>1, <5>1, <6>1, <7>1, <8>2 DEF Increasing
              <8> QED
                BY <8>1, <8>3
          <6> QED
            BY <6>2, <6>3
        <5> QED
          BY <5>1 DEF Increasing
      <4> QED
        BY <4>4, <4>5
    <3> QED
      BY <3>3, <3>4
  <2> HIDE DEF Ordered
  <2> QED
    BY <2>1
<1>3. n + 1 \in B
  <2> HIDE DEF B
  <2> QED
    BY <1>1, <1>2, Induction, n + 1 \in Nat
<1>4. Ordered(numbers)
  <2>1. \A x \in numbers : x < n + 1
    OBVIOUS
  <2> HIDE DEF Ordered
  <2> QED
    BY <1>3, <2>1
<1> QED
  BY <1>0, <1>4

\* The numbers of a finite set, in order: each is there, the least first.
LEMMA InOrderIs ==
  ASSUME NEW n \in Nat, NEW numbers \in SUBSET (0 .. n)
  PROVE  LET s == InOrder(numbers)
         IN  /\ s \in Seq(numbers) /\ Len(s) = Cardinality(numbers) /\ DOMAIN s = 1 .. Len(s) /\ Len(s) \in Nat
             /\ \A i \in 1 .. Len(s) : s[i] \in numbers
             /\ \A i, j \in 1 .. Len(s) : i < j => s[i] < s[j]
             /\ \A x \in numbers : \E i \in 1 .. Len(s) : s[i] = x
<1> DEFINE c == Cardinality(numbers)
           s == InOrder(numbers)
<1>1. IsFiniteSet(numbers) /\ c \in Nat /\ \E t \in [1 .. c -> numbers] : Increasing(t)
  BY OrderExists
<1>2. s \in [1 .. c -> numbers] /\ Increasing(s)
  BY <1>1, Zenon DEF InOrder, Increasing
<1> HIDE DEF s, c
<1>3. s \in Seq(numbers) /\ Len(s) = c /\ DOMAIN s = 1 .. c
  BY <1>1, <1>2
<1>4. s \in Injection(1 .. c, numbers)
  <2>1. ASSUME NEW i \in 1 .. c, NEW j \in 1 .. c, s[i] = s[j] PROVE i = j
    <3>1. s[i] \in Int /\ s[j] \in Int
      <4>1. s[i] \in numbers /\ s[j] \in numbers
        BY <1>2
      <4>2. \A x \in numbers : x \in Int
        OBVIOUS
      <4> QED
        BY <4>1, <4>2, Zenon
    <3>2. ~(i < j) /\ ~(j < i)
      BY <1>2, <1>3, <2>1, <3>1 DEF Increasing
    <3> QED
      BY <1>1, <3>2
  <2> QED
    BY <1>2, <1>3, <2>1 DEF Injection, IsInjective
<1>5. s \in Surjection(1 .. c, numbers)
  <2>1. Cardinality(1 .. c) = c
    BY <1>1, FS_Interval
  <2> QED
    BY <1>1, <1>4, <2>1, FS_Injection DEF c
<1>6. \A x \in numbers : \E i \in 1 .. c : s[i] = x
  BY <1>5 DEF Surjection
<1>7. \A i \in 1 .. c : s[i] \in numbers
  BY <1>2
<1>8. \A i, j \in 1 .. c : i < j => s[i] < s[j]
  BY <1>2, <1>3 DEF Increasing
<1> QED
  BY <1>1, <1>3, <1>6, <1>7, <1>8 DEF c, s

-----------------------------------------------------------------------------
(* What the builders return                                                *)

\* m is a manifest of the records of one file.
JsonlShape(m, c) ==
  LET sha == m.sources[1].sha256
  IN  /\ m.workload = "dataset_transform" /\ m.processor = [type |-> "copy_text"]
      /\ m.sources = <<[type |-> "dataset", path |-> c.path, sha256 |-> sha]>>
      /\ DOMAIN m.shards = 1 .. Len(m.shards) /\ Len(m.shards) \in 1 .. MaxShards
      /\ \A i \in 1 .. Len(m.shards) :
           LET b == m.shards[i].bounds
           IN  /\ m.shards[i] = [source |-> 1, path |-> c.path, bounds |-> b]
               /\ DOMAIN b = {"source_sha256", "byte_start", "byte_end", "row_start", "row_end", "row_count", "shard_sha256"}
               /\ b.source_sha256 = sha /\ b.shard_sha256 = Slice(sha, b)

\* m is a manifest of the pages of one file.
OcrShape(m, c) ==
  /\ m.workload = "ocr" /\ m.processor = [type |-> "local_ocr", engine |-> c.engine]
  /\ m.sources = <<[type |-> m.sources[1].type, path |-> c.path, sha256 |-> m.sources[1].sha256]>>
  /\ DOMAIN m.shards = 1 .. Len(m.shards) /\ Len(m.shards) \in 1 .. MaxShards
  /\ \A i \in 1 .. Len(m.shards) :
       m.shards[i] = [source |-> 1, path |-> c.path,
                      bounds |-> [page_number |-> i, page_start |-> i, page_end |-> i, page_count |-> Len(m.shards)]]

\* The i-th source and shard are of one media file.
MediaShape(source, shard, i) ==
  /\ source.type \in {"audio", "video"}
  /\ source = [type |-> source.type, path |-> source.path, sha256 |-> source.sha256]
  /\ shard = [source |-> i, text |-> shard.text,
              bounds |-> [duration_seconds |-> Len(source.sha256), sha256 |-> source.sha256,
                          sidecar_sha256 |-> shard.text]]

\* Of an unchanged file the manifest has the digest.
OnDisk(m) ==
  \A i \in DOMAIN m.sources :
    Has(m.sources[i], "path") =>
      /\ m.sources[i].path \in DOMAIN disk
      /\ disk[m.sources[i].path].kind \in {"file"} \cup (IF call.builder = "media" THEN {"barred"} ELSE {})
      /\ m.sources[i].sha256 = DigestOf(disk[m.sources[i].path].bytes)

\* A path that passed the checks of a source, and the stat, is a regular file.
LEMMA OpenedFile ==
  ASSUME NEW name, Safe(name), IsFile(name)
  PROVE  disk[name].kind = "file"
  BY DEF Safe, Linked, Barred, IsFile

\* The digests that were those of the files are so of the manifest that is returned.
LEMMA OnDiskStays ==
  ASSUME NEW m, UNCHANGED <<call, disk>>, built' = m, OnDisk(m)
  PROVE  OnDisk(built)'
  BY DEF OnDisk, DigestOf, Decoded, FromFile, Has

\* The records: a manifest that covers the file, and of the file as it is if none changed.
LEMMA JsonlReturns ==
  ASSUME BaseInv, ScanningInv, EndOfFile, stage' = "built"
  PROVE  /\ call.builder = "jsonl" /\ RowsAreCovered' /\ JsonlShape(built', call) /\ manifest' = built'
         /\ edits = 0 => OnDisk(built)'
<1> DEFINE scan == EndScan(work)
<1>1. /\ stage = "scanning" /\ Block = <<>> /\ ~scan.invalid
      /\ built' = JsonlManifest(scan) /\ manifest' = built' /\ UNCHANGED <<call, disk, edits>>
  BY DEF EndOfFile, Refuse, BuilderStep, Return
<1>2. /\ call.builder = "jsonl" /\ call.records \in Nat \ {0} /\ ScanInv(work)
      /\ edits = 0 => Safe(call.path) /\ IsFile(call.path) /\ Prefix(work.bytes, disk[call.path].bytes)
  BY <1>1 DEF ScanningInv
<1>3. ScanEnded(scan) /\ scan.bytes = work.bytes
  BY <1>1, <1>2, EndScanEnds
<1> HIDE DEF scan
<1>4. /\ RowsAreCovered'
      /\ built'.sources = <<[type |-> "dataset", path |-> call.path, sha256 |-> scan.bytes]>>
      /\ DOMAIN built'.shards = 1 .. Len(scan.shards) /\ Len(built'.shards) = Len(scan.shards)
  BY <1>1, <1>3, JsonlIsWhole
<1>5. JsonlShape(built', call)
  <2>1. /\ built'.workload = "dataset_transform" /\ built'.processor = [type |-> "copy_text"]
        /\ built'.sources = <<[type |-> "dataset", path |-> call.path, sha256 |-> built'.sources[1].sha256]>>
        /\ built'.sources[1].sha256 = scan.bytes
    BY <1>1, <1>4 DEF JsonlManifest
  <2>2. /\ scan.shards \in Seq(RowBounds) /\ Len(scan.shards) \in Nat /\ scan.shards # <<>>
        /\ Len(scan.shards) <= MaxShards /\ Tiled(scan.shards, scan.bytes)
        /\ DOMAIN scan.shards = 1 .. Len(scan.shards)
    BY <1>3, LenProperties DEF ScanEnded, Scans
  <2>3. Len(scan.shards) \in 1 .. MaxShards
    BY <2>2, EmptySeq, LimitsAssumption
  <2>4. ASSUME NEW i \in 1 .. Len(scan.shards)
        PROVE  LET b == built'.shards[i].bounds
               IN  /\ built'.shards[i] = [source |-> 1, path |-> call.path, bounds |-> b]
                   /\ DOMAIN b = {"source_sha256", "byte_start", "byte_end", "row_start", "row_end", "row_count", "shard_sha256"}
                   /\ b.source_sha256 = scan.bytes /\ b.shard_sha256 = Slice(scan.bytes, b)
    <3> DEFINE b == Joined([source_sha256 |-> scan.bytes], scan.shards[i])
    <3>1. scan.shards[i] \in RowBounds /\ Closed(scan.shards[i], scan.bytes)
      BY <2>2, ElementOfSeq DEF Tiled
    <3>2. /\ DOMAIN b = {"source_sha256", "byte_start", "byte_end", "row_start", "row_end", "row_count", "shard_sha256"}
          /\ b.source_sha256 = scan.bytes
          /\ b.byte_start = scan.shards[i].byte_start /\ b.byte_end = scan.shards[i].byte_end
          /\ b.shard_sha256 = scan.shards[i].shard_sha256
      BY <3>1, RowFields
    <3>3. built'.shards[i] = [source |-> 1, path |-> call.path, bounds |-> b]
      BY <1>1, <2>2 DEF JsonlManifest
    <3> HIDE DEF b
    <3>4. b.shard_sha256 = Slice(scan.bytes, b)
      BY <3>1, <3>2 DEF Slice, Closed
    <3> QED
      BY <3>2, <3>3, <3>4
  <2> QED
    BY <1>4, <2>1, <2>3, <2>4 DEF JsonlShape
<1>6. ASSUME edits = 0 PROVE OnDisk(built)'
  <2>1. call.path \in DOMAIN disk
    BY <1>2, PathInDisk
  <2>2. disk[call.path].kind = "file"
    BY <1>2, <1>6, OpenedFile
  <2>3. work.bytes \in Seq(Token)
    BY <1>2 DEF ScanInv, Rest, Scans
  <2>4. disk[call.path].bytes \in Seq(Token) /\ Len(disk[call.path].bytes) <= Len(work.bytes)
    BY <1>1, <2>1, <2>3, BlockIsNext
  <2>5. work.bytes = disk[call.path].bytes
    <3>1. Prefix(work.bytes, disk[call.path].bytes)
      BY <1>2, <1>6
    <3>2. Len(work.bytes) = Len(disk[call.path].bytes)
      BY <2>3, <2>4, <3>1, LenProperties DEF Prefix
    <3> QED
      BY <2>3, <2>4, <3>1, <3>2, SeqEqual DEF Prefix
  <2>6. OnDisk(built')
    BY <1>2, <1>3, <1>4, <2>1, <2>2, <2>5 DEF OnDisk, DigestOf
  <2> QED
    BY <1>1, <2>6, OnDiskStays
<1> QED
  BY <1>1, <1>2, <1>4, <1>5, <1>6

-----------------------------------------------------------------------------
(* Pages                                                                   *)

\* Between the count of the pages and the digest.
CountingInv ==
  /\ stage \in {"counting", "counted"} => call.builder = "ocr" /\ (edits = 0 => OcrSource(call.path))
  /\ stage = "counted" =>
       /\ work.pages \in 1 .. MaxShards
       /\ edits = 0 /\ disk[call.path].type = "pdf" /\ CountsPages(call.pages) => work.pages = Size(call.path)

\* A source of pages stays one as long as no file changes.
LEMMA OcrSourceStays ==
  ASSUME NEW name, UNCHANGED disk, OcrSource(name)
  PROVE  OcrSource(name)'
  BY DEF OcrSource, Safe, IsFile, Linked, Barred, Size

\* Every step keeps what the OCR builder knows between the count and the digest.
LEMMA CountingStep == ASSUME BaseInv, CountingInv, [Next]_vars PROVE CountingInv'
<1> USE DEF BuilderStep, Refuse
<1>0. call' = call
  BY EditsAreCounted
<1>1. CASE OpenOcr
  <2>1. call.builder = "ocr" /\ UNCHANGED <<disk, edits>> /\ stage' \in {"counting", "refused"}
    BY <1>1 DEF OpenOcr
  <2>2. stage' = "counting" => OcrSource(call.path)
    BY <1>1 DEF OpenOcr
  <2>3. stage' = "counting" => OcrSource(call.path)'
    BY <1>0, <2>1, <2>2 DEF OcrSource, Safe, IsFile, Linked, Barred, Size
  <2> QED
    BY <1>0, <2>1, <2>3 DEF CountingInv
<1>2. CASE CountPages
  <2>1. /\ stage = "counting" /\ UNCHANGED <<disk, edits>> /\ stage' \in {"counted", "refused"}
        /\ call.builder = "ocr" /\ (edits = 0 => OcrSource(call.path))
    BY <1>2 DEF CountPages, CountingInv
  <2>2. edits = 0 => OcrSource(call.path)'
    BY <1>0, <2>1 DEF OcrSource, Safe, IsFile, Linked, Barred, Size
  <2>3. ASSUME stage' = "counted"
        PROVE  /\ work'.pages \in 1 .. MaxShards
               /\ edits = 0 /\ disk[call.path].type = "pdf" /\ CountsPages(call.pages) =>
                    work'.pages = Size(call.path)
    <3>1. CASE disk[call.path].type = "image"
      <4>1. work' = [pages |-> 1]
        BY <1>2, <3>1 DEF CountPages
      <4> QED
        BY <3>1, <4>1, LimitsAssumption
    <3>2. CASE disk[call.path].type # "image"
      <4> DEFINE detected == Detected(call.path, call.pages)
      <4>1. CountAgrees(call.path, call.pages) /\ work' = [pages |-> Counted(call.pages, detected)]
        BY <1>2, <2>3, <3>2 DEF CountPages
      <4>2. Counted(call.pages, detected) \in 1 .. MaxShards /\ (call.pages # 0 /\ detected # 0 => call.pages = detected)
        BY <4>1 DEF CountAgrees
      <4>3. ASSUME edits = 0, CountsPages(call.pages)
            PROVE  detected = Size(call.path) /\ detected # 0
        BY <2>1, <4>3 DEF OcrSource, Detected
      <4> HIDE DEF detected
      <4>4. edits = 0 /\ CountsPages(call.pages) => Counted(call.pages, detected) = Size(call.path)
        BY <4>2, <4>3 DEF Counted
      <4> QED
        BY <4>1, <4>2, <4>4
    <3> QED
      BY <3>1, <3>2
  <2>4. stage' = "counted" /\ edits' = 0 /\ disk'[call'.path].type = "pdf" /\ CountsPages(call.pages)' =>
          work'.pages = Size(call.path)'
    BY <1>0, <2>1, <2>3 DEF CountsPages, Installed, Size
  <2> QED
    BY <1>0, <2>1, <2>2, <2>3, <2>4 DEF CountingInv
<1>3. CASE EditFile
  <2>1. edits' # 0 /\ UNCHANGED <<call, stage, work>>
    BY <1>3, EditsAreCounted
  <2> QED
    BY <2>1 DEF CountingInv
<1>4. CASE UNCHANGED vars
  <2>1. UNCHANGED <<call, disk, edits, stage, work>>
    BY <1>4 DEF vars
  <2> QED
    BY <2>1 DEF CountingInv, OcrSource, Safe, IsFile, Linked, Barred, Size, CountsPages, Installed
<1>5. CASE Next /\ ~OpenOcr /\ ~CountPages /\ ~EditFile
  BY <1>5, StageAfter DEF CountingInv
<1> QED
  BY <1>1, <1>2, <1>3, <1>4, <1>5

\* The pages: a manifest of one shard a page, and of the file as it is if none changed.
LEMMA OcrReturns ==
  ASSUME BaseInv, CountingInv, HashPages, stage' = "built"
  PROVE  /\ call.builder = "ocr" /\ PagesAreCovered' /\ OcrShape(built', call) /\ manifest' = built'
         /\ built'.sources[1].type = disk[call.path].type /\ built'.sources[1].sha256 = disk[call.path].bytes
         /\ edits = 0 => OnDisk(built)'
<1> DEFINE sha == disk[call.path].bytes
<1>1. /\ stage = "counted" /\ built' = OcrManifest(work.pages, sha) /\ manifest' = built'
      /\ UNCHANGED <<call, disk, edits>>
  BY DEF HashPages, Refuse, BuilderStep, Return
<1>2. /\ call.builder = "ocr" /\ (edits = 0 => OcrSource(call.path)) /\ work.pages \in 1 .. MaxShards
      /\ edits = 0 /\ disk[call.path].type = "pdf" /\ CountsPages(call.pages) => work.pages = Size(call.path)
  BY <1>1 DEF CountingInv
<1> DEFINE n == work.pages
<1>3. n \in Nat /\ n \in 1 .. MaxShards
  BY <1>2
<1> HIDE DEF n
<1>4. /\ built'.workload = "ocr" /\ built'.processor = [type |-> "local_ocr", engine |-> call.engine]
      /\ built'.sources = <<[type |-> disk[call.path].type, path |-> call.path, sha256 |-> sha]>>
      /\ built'.shards = [page \in 1 .. n |->
                            [source |-> 1, path |-> call.path,
                             bounds |-> [page_number |-> page, page_start |-> page, page_end |-> page,
                                         page_count |-> n]]]
  BY <1>1 DEF OcrManifest, n
<1>5. DOMAIN built'.shards = 1 .. n /\ Len(built'.shards) = n
  <2>1. DOMAIN built'.shards = 1 .. n
    BY <1>4
  <2> QED
    BY <1>3, <2>1
<1>6. OcrShape(built', call)
  BY <1>3, <1>4, <1>5 DEF OcrShape
<1>7. built'.sources[1].type = disk[call.path].type /\ SourceAsRead' = sha
  BY <1>4 DEF SourceAsRead
<1>8. PagesAreCovered'
  <2>1. \A i \in DOMAIN built'.shards : built'.shards[i].bounds.page_number = i
    BY <1>4, <1>5
  <2>2. edits' = 0 /\ built'.sources[1].type = "pdf" /\ CountsPages(call.pages)' => n = Len(sha)
    BY <1>1, <1>2, <1>7 DEF CountsPages, Installed, Size, n
  <2> QED
    BY <1>5, <1>7, <2>1, <2>2 DEF PagesAreCovered
<1>9. ASSUME edits = 0 PROVE OnDisk(built)'
  <2>1. call.path \in DOMAIN disk
    BY <1>2, PathInDisk
  <2>2. disk[call.path].kind = "file"
    BY <1>2, <1>9, OpenedFile DEF OcrSource
  <2>3. OnDisk(built')
    BY <1>2, <1>4, <2>1, <2>2 DEF OnDisk, DigestOf
  <2> QED
    BY <1>1, <2>3, OnDiskStays
<1> QED
  BY <1>1, <1>2, <1>4, <1>6, <1>7, <1>8, <1>9

-----------------------------------------------------------------------------
(* Media                                                                   *)

\* A sequence, of whatever it holds.
Listed(s) == Len(s) \in Nat /\ DOMAIN s = 1 .. Len(s) /\ s = [i \in 1 .. Len(s) |-> s[i]]

\* What Append does to a sequence whatever its elements are.
LEMMA AppendListed ==
  ASSUME NEW s, Listed(s), NEW x
  PROVE  LET t == Append(s, x)
         IN  /\ Listed(t) /\ Len(t) = Len(s) + 1
             /\ \A i \in 1 .. Len(s) : t[i] = s[i]
             /\ t[Len(s) + 1] = x
<1> DEFINE S == {s[i] : i \in 1 .. Len(s)} \cup {x}
           n == Len(s)
<1>1. n \in Nat /\ s = [i \in 1 .. n |-> s[i]]
  BY DEF Listed
<1>2. \A i \in 1 .. n : s[i] \in S
  OBVIOUS
<1>3. x \in S
  OBVIOUS
<1> HIDE DEF S, n
<1>4. s \in [1 .. n -> S]
  BY <1>1, <1>2
<1>5. s \in Seq(S) /\ Len(s) = n
  BY <1>1, <1>4 DEF n
<1> DEFINE t == Append(s, x)
<1>6. /\ t \in Seq(S) /\ Len(t) = n + 1
      /\ \A i \in 1 .. n : t[i] = s[i]
      /\ t[n + 1] = x
  BY <1>3, <1>5, AppendProperties
<1> HIDE DEF t
<1>7. Listed(t)
  <2>1. t \in [1 .. Len(t) -> S] /\ Len(t) \in Nat
    BY <1>6, LenProperties
  <2> QED
    BY <2>1 DEF Listed
<1> QED
  BY <1>6, <1>7 DEF t, n

\* What has been catalogued, and the files that are left.
Catalogued(left, sources, shards) ==
  /\ left \in Seq(Nat) /\ (\A i, j \in 1 .. Len(left) : left[i] = left[j] => i = j)
  /\ Listed(sources) /\ Listed(shards) /\ Len(shards) = Len(sources)
  /\ Len(sources) + Len(left) <= MaxShards
  /\ \A i \in 1 .. Len(sources) :
       /\ MediaShape(sources[i], shards[i], i)
       /\ \A j \in 1 .. Len(left) : sources[i].path # left[j]
       /\ \A j \in 1 .. Len(sources) : sources[i].path = sources[j].path => i = j

\* These files are there, and hold what was digested if none changed.
FilesOnDisk(left, sources) ==
  /\ \A i \in 1 .. Len(left) : left[i] \in DOMAIN disk
  /\ \A i \in 1 .. Len(sources) :
       /\ sources[i].path \in DOMAIN disk
       /\ edits = 0 => /\ disk[sources[i].path].kind \in {"file", "barred"}
                       /\ disk[sources[i].path].bytes = sources[i].sha256

CataloguingInv ==
  /\ stage \in {"hashing", "probing", "rehashing", "sizing"} =>
       /\ call.builder = "media"
       /\ {"files", "sources", "shards"} \subseteq DOMAIN work
       /\ work.files # <<>> /\ Catalogued(work.files, work.sources, work.shards)
       /\ FilesOnDisk(work.files, work.sources)
  /\ stage = "hashing" => DOMAIN work = {"files", "sources", "shards"}
  /\ stage = "probing" => DOMAIN work = {"files", "sources", "shards", "before"}
  /\ stage \in {"probing", "rehashing", "sizing"} =>
       /\ "before" \in DOMAIN work
       /\ work.before \in FileRecord /\ work.before.mtime <= disk[File].mtime
       /\ work.before.kind \in {"file", "barred"}
       /\ edits = 0 => disk[File] = work.before
  /\ stage = "probing" /\ disk[File].mtime = work.before.mtime => disk[File].bytes = work.before.bytes
  /\ stage \in {"rehashing", "sizing"} => work.type \in {"audio", "video"}
  /\ stage = "rehashing" /\ disk[File].mtime = work.before.mtime => work.duration = Len(work.before.bytes)
  /\ stage = "sizing" => work.duration = Len(work.before.bytes)

\* The fields of a media source and its shard.
LEMMA MediaFields ==
  ASSUME NEW source, NEW shard, NEW i, MediaShape(source, shard, i)
  PROVE  /\ DOMAIN source = {"type", "path", "sha256"} /\ DOMAIN shard = {"source", "text", "bounds"}
         /\ shard.source = i
         /\ DOMAIN shard.bounds = {"duration_seconds", "sha256", "sidecar_sha256"}
         /\ shard.bounds.duration_seconds = Len(source.sha256)
         /\ shard.bounds.sha256 = source.sha256 /\ shard.bounds.sidecar_sha256 = shard.text
<1> DEFINE t == shard.text
           d == source.sha256
<1>1. shard = [source |-> i, text |-> t,
               bounds |-> [duration_seconds |-> Len(d), sha256 |-> d, sidecar_sha256 |-> t]]
  BY DEF MediaShape
<1>2. DOMAIN source = {"type", "path", "sha256"}
  <2>1. source = [type |-> source.type, path |-> source.path, sha256 |-> source.sha256]
    BY DEF MediaShape
  <2> DEFINE a == source.type
             b == source.path
  <2>2. source = [type |-> a, path |-> b, sha256 |-> d]
    BY <2>1
  <2> HIDE DEF a, b, d
  <2> QED
    BY <2>2
<1> HIDE DEF t, d
<1>3. /\ DOMAIN shard = {"source", "text", "bounds"} /\ shard.source = i
      /\ DOMAIN shard.bounds = {"duration_seconds", "sha256", "sidecar_sha256"}
      /\ shard.bounds.duration_seconds = Len(d)
      /\ shard.bounds.sha256 = d /\ shard.bounds.sidecar_sha256 = t
  BY <1>1
<1> QED
  BY <1>2, <1>3 DEF t, d

\* What Tail does to a sequence that has elements.
LEMMA TailOf ==
  ASSUME NEW S, NEW s \in Seq(S), s # <<>>
  PROVE  /\ Tail(s) \in Seq(S) /\ Len(Tail(s)) = Len(s) - 1 /\ Len(s) \in Nat \ {0}
         /\ \A i \in 1 .. Len(s) - 1 : Tail(s)[i] = s[i + 1]
         /\ Head(s) = s[1] /\ s[1] \in S
<1>1. Len(s) \in Nat /\ Len(s) # 0
  BY LenProperties, EmptySeq
<1>2. /\ Tail(s) \in Seq(S) /\ Len(Tail(s)) = Len(s) - 1 /\ Head(s) \in S /\ Head(s) = s[1]
      /\ \A i \in 1 .. Len(Tail(s)) : Tail(s)[i] = s[i + 1]
  BY HeadTailProperties
<1> QED
  BY <1>1, <1>2

\* A file that is skipped is not left any more.
LEMMA CataloguedLess ==
  ASSUME NEW left, left # <<>>, NEW sources, NEW shards, Catalogued(left, sources, shards),
         FilesOnDisk(left, sources)
  PROVE  Catalogued(Tail(left), sources, shards) /\ FilesOnDisk(Tail(left), sources)
<1> DEFINE t == Tail(left)
<1>1. left \in Seq(Nat) /\ Len(sources) \in Nat
  BY DEF Catalogued, Listed
<1>2. /\ t \in Seq(Nat) /\ Len(t) = Len(left) - 1 /\ Len(left) \in Nat \ {0}
      /\ \A i \in 1 .. Len(left) - 1 : t[i] = left[i + 1]
  BY <1>1, TailOf
<1> HIDE DEF t
<1>3. ASSUME NEW i \in 1 .. Len(t) PROVE i + 1 \in 1 .. Len(left) /\ t[i] = left[i + 1]
  BY <1>2
<1>4. ASSUME NEW i \in 1 .. Len(t), NEW j \in 1 .. Len(t), t[i] = t[j] PROVE i = j
  <2>1. i + 1 = j + 1
    BY <1>3, <1>4 DEF Catalogued
  <2> QED
    BY <2>1
<1>5. Len(sources) + Len(t) <= MaxShards
  BY <1>1, <1>2, LimitsAssumption DEF Catalogued
<1>6. \A i \in 1 .. Len(sources), j \in 1 .. Len(t) : sources[i].path # t[j]
  BY <1>3 DEF Catalogued
<1>7. \A i \in 1 .. Len(t) : t[i] \in DOMAIN disk
  BY <1>3 DEF FilesOnDisk
<1>8. Catalogued(t, sources, shards)
  BY <1>2, <1>4, <1>5, <1>6 DEF Catalogued
<1>9. FilesOnDisk(t, sources)
  BY <1>7 DEF FilesOnDisk
<1> QED
  BY <1>8, <1>9 DEF t

\* The files that are left, and those catalogued, are there as long as no file changes.
LEMMA FilesStay ==
  ASSUME NEW left, NEW sources, UNCHANGED <<disk, edits>>, FilesOnDisk(left, sources),
         work'.files = left, work'.sources = sources
  PROVE  FilesOnDisk(work.files, work.sources)'
  BY DEF FilesOnDisk

\* A manifest of media: a source and a shard for every file that is one.
MediaManifestShape(m) ==
  /\ m.workload = "media_catalogue" /\ m.processor = [type |-> "copy_text"]
  /\ DOMAIN m.sources = 1 .. Len(m.sources) /\ DOMAIN m.shards = 1 .. Len(m.shards)
  /\ Len(m.sources) = Len(m.shards) /\ Len(m.shards) \in 1 .. MaxShards
  /\ \A i \in 1 .. Len(m.shards) : MediaShape(m.sources[i], m.shards[i], i)

\* The next file is begun with one fewer left, or the manifest returned.
LEMMA ProceedKeeps ==
  ASSUME NEW files, files \in Seq(Nat), files # <<>>, NEW sources, NEW shards,
         Catalogued(Tail(files), sources, shards), FilesOnDisk(Tail(files), sources),
         Proceed([files |-> files, sources |-> sources, shards |-> shards]), call.builder = "media"
  PROVE  /\ UNCHANGED <<call, disk, edits>>
         /\ stage' \in {"hashing", "built", "refused"}
         /\ stage' = "hashing" =>
              /\ DOMAIN work' = {"files", "sources", "shards"} /\ work'.files # <<>>
              /\ Catalogued(work.files, work.sources, work.shards)'
              /\ FilesOnDisk(work.files, work.sources)'
         /\ stage' = "built" =>
              /\ MediaIsCatalogued' /\ MediaManifestShape(built') /\ manifest' = built'
              /\ edits = 0 => OnDisk(built)'
<1> DEFINE cat == [files |-> files, sources |-> sources, shards |-> shards]
<1>0. Listed(sources) /\ Listed(shards) /\ Len(shards) = Len(sources) /\ Len(sources) \in Nat
  BY DEF Catalogued, Listed
<1>1. /\ Tail(files) \in Seq(Nat) /\ Len(Tail(files)) = Len(files) - 1 /\ Len(files) \in Nat \ {0}
  BY TailOf
<1>2. UNCHANGED <<call, disk, edits>> /\ stage' \in {"hashing", "built", "refused"}
  BY DEF Proceed, BuilderStep, Refuse, Return
<1>3. ASSUME stage' = "hashing"
      PROVE  /\ DOMAIN work' = {"files", "sources", "shards"} /\ work'.files # <<>>
             /\ Catalogued(work.files, work.sources, work.shards)'
             /\ FilesOnDisk(work.files, work.sources)'
  <2>1. Len(files) > 1 /\ work' = [files |-> Tail(files), sources |-> sources, shards |-> shards]
    BY <1>3 DEF Proceed, BuilderStep, Refuse, Return
  <2>2. work'.files = Tail(files) /\ work'.sources = sources /\ work'.shards = shards
        /\ DOMAIN work' = {"files", "sources", "shards"}
    BY <2>1
  <2>3. Tail(files) # <<>>
    <3> DEFINE t == Tail(files)
    <3>1. Len(t) = Len(files) - 1 /\ Len(files) \in Nat /\ Len(files) > 1 /\ t \in Seq(Nat)
      BY <1>1, <2>1
    <3> HIDE DEF t
    <3>2. Len(t) >= 1
      BY ONLY <3>1
    <3>3. t # <<>>
      BY ONLY <3>1, <3>2, EmptySeq
    <3> QED
      BY <3>3 DEF t
  <2>4. Catalogued(work'.files, work'.sources, work'.shards)
    BY <2>2
  <2>5. Catalogued(work.files, work.sources, work.shards)'
    BY <2>4
  <2>6. FilesOnDisk(work.files, work.sources)'
    BY <1>2, <2>2, FilesStay
  <2> QED
    BY <2>2, <2>3, <2>5, <2>6
<1>4. ASSUME stage' = "built"
      PROVE  /\ MediaIsCatalogued' /\ MediaManifestShape(built') /\ manifest' = built'
             /\ edits = 0 => OnDisk(built)'
  <2>1. /\ sources # <<>> /\ manifest' = built'
        /\ built'.workload = "media_catalogue" /\ built'.processor = [type |-> "copy_text"]
        /\ built'.sources = sources /\ built'.shards = shards
    BY <1>4 DEF Proceed, BuilderStep, Refuse, Return, MediaManifest
  <2>2. Len(sources) # 0
    BY <1>0, <2>1 DEF Listed
  <2>3. Len(sources) \in 1 .. MaxShards
    BY <1>0, <1>1, <2>2, LimitsAssumption DEF Catalogued
  <2>4. ASSUME NEW i \in 1 .. Len(sources)
        PROVE  MediaShape(sources[i], shards[i], i)
    BY DEF Catalogued
  <2>5. MediaManifestShape(built')
    BY <1>0, <2>1, <2>3, <2>4 DEF MediaManifestShape, Listed
  <2>6. MediaIsCatalogued'
    <3>1. \A i \in 1 .. Len(sources) : shards[i].bounds.duration_seconds = Duration(sources[i].sha256)
      BY <2>4, MediaFields DEF Duration
    <3>2. \A i, j \in 1 .. Len(sources) : sources[i].path = sources[j].path => i = j
      BY DEF Catalogued
    <3> QED
      BY <1>0, <2>1, <3>1, <3>2 DEF MediaIsCatalogued, Listed, Duration
  <2>7. ASSUME edits = 0 PROVE OnDisk(built)'
    <3>1. OnDisk(built')
      BY <1>0, <2>1, <2>7 DEF OnDisk, FilesOnDisk, DigestOf, Listed
    <3> QED
      BY <1>2, <3>1, OnDiskStays
  <2> QED
    BY <2>1, <2>5, <2>6, <2>7
<1> QED
  BY <1>2, <1>3, <1>4

\* The catalogue begins with every regular file, once, and nothing catalogued.
LEMMA MediaBegins ==
  ASSUME BaseInv, OpenMedia, stage' = "hashing"
  PROVE  /\ UNCHANGED <<call, disk, edits>> /\ call.builder = "media"
         /\ DOMAIN work' = {"files", "sources", "shards"} /\ work'.files # <<>>
         /\ Catalogued(work.files, work.sources, work.shards)'
         /\ FilesOnDisk(work.files, work.sources)'
<1> DEFINE files == InOrder(Entries)
<1>1. /\ call.builder = "media" /\ UNCHANGED <<call, disk, edits>>
      /\ work' = [files |-> files, sources |-> <<>>, shards |-> <<>>]
      /\ call.maxFiles \in 1 .. MaxShards /\ Cardinality(Entries) \in 1 .. call.maxFiles
      /\ call.path # 0 => IsFile(call.path)
  BY DEF OpenMedia, BuilderStep, Refuse
<1>2. Entries \subseteq DOMAIN disk
  <2>1. call.path # 0 => call.path \in DOMAIN disk
    BY CallsAssumption DEF BaseInv
  <2> QED
    BY <2>1 DEF Entries
<1>3. PICK n \in Nat : DOMAIN disk = 1 .. n
  <2>1. DOMAIN disk = DOMAIN call.files /\ call.files \in Seq(FileRecord)
    BY CallsAssumption DEF BaseInv, CallRecord
  <2> QED
    BY <2>1, LenProperties
<1>4. Entries \in SUBSET (0 .. n)
  BY <1>2, <1>3
<1>5. /\ files \in Seq(Entries) /\ Len(files) = Cardinality(Entries) /\ DOMAIN files = 1 .. Len(files) /\ Len(files) \in Nat
      /\ \A i \in 1 .. Len(files) : files[i] \in Entries
      /\ \A i, j \in 1 .. Len(files) : i < j => files[i] < files[j]
  <2> HIDE DEF Entries
  <2> QED
    BY <1>4, InOrderIs
<1> HIDE DEF files, Entries
<1>6. ASSUME NEW i \in 1 .. Len(files), NEW j \in 1 .. Len(files), files[i] = files[j] PROVE i = j
  <2>1. files[i] \in 1 .. n /\ files[j] \in 1 .. n
    BY <1>2, <1>3, <1>5
  <2>2. ~(i < j) /\ ~(j < i)
    BY <1>5, <1>6, <2>1
  <2> QED
    BY <1>5, <2>2
<1>7. files \in Seq(Nat)
  <2>1. \A i \in 1 .. Len(files) : files[i] \in Nat
    BY <1>2, <1>3, <1>5
  <2>2. files \in [1 .. Len(files) -> Nat]
    BY <1>5, <2>1
  <2> QED
    BY <1>5, <2>2
<1>8. files # <<>> /\ Len(files) <= MaxShards
  <2>1. Len(files) \in 1 .. MaxShards
    BY <1>1, <1>5, LimitsAssumption
  <2> QED
    BY <2>1, <1>7, EmptySeq
<1>9. Listed(<<>>) /\ Len(<<>>) = 0
  BY DEF Listed
<1>10. Catalogued(files, <<>>, <<>>)
  BY <1>5, <1>6, <1>7, <1>8, <1>9 DEF Catalogued
<1>11. FilesOnDisk(files, <<>>)
  BY <1>2, <1>5, <1>9 DEF FilesOnDisk
<1>12. work'.files = files /\ work'.sources = <<>> /\ work'.shards = <<>> /\ DOMAIN work' = {"files", "sources", "shards"}
  BY <1>1
<1>13. Catalogued(work.files, work.sources, work.shards)'
  BY <1>10, <1>12
<1>14. FilesOnDisk(work.files, work.sources)'
  BY <1>1, <1>11, <1>12, FilesStay
<1> QED
  BY <1>1, <1>8, <1>12, <1>13, <1>14

\* Where the file under way stays as it is, or is touched.
LEMMA CataloguingStays ==
  ASSUME BaseInv, CataloguingInv, UNCHANGED <<call, stage, work>>,
         \/ UNCHANGED <<disk, edits>>
         \/ EditFile
  PROVE  CataloguingInv'
<1>1. CASE UNCHANGED <<disk, edits>>
  BY <1>1 DEF CataloguingInv, Catalogued, FilesOnDisk, File
<1>2. CASE EditFile
  <2>1. edits' # 0
    BY <1>2, EditsAreCounted DEF Next
  <2>2. PICK name \in DOMAIN disk, file \in call.others :
          disk' = [disk EXCEPT ![name] = [file EXCEPT !.mtime = disk[name].mtime + 1]]
    BY <1>2, Zenon DEF EditFile
  <2>3. file \in FileRecord
    BY CallsAssumption DEF BaseInv, CallRecord
  <2>4. \A m \in DOMAIN disk : m # name => disk'[m] = disk[m]
    BY <2>2
  <2>5. disk'[name].mtime = disk[name].mtime + 1
    <3>1. [file EXCEPT !.mtime = disk[name].mtime + 1].mtime = disk[name].mtime + 1
      BY <2>3 DEF FileRecord
    <3> QED
      BY <2>2, <3>1
  <2>6. DOMAIN disk' = DOMAIN disk
    BY <2>2
  <2>7. SUFFICES ASSUME stage \in {"hashing", "probing", "rehashing", "sizing"} PROVE CataloguingInv'
    BY <2>1 DEF CataloguingInv
  <2>8. Catalogued(work.files, work.sources, work.shards)' /\ FilesOnDisk(work.files, work.sources)'
    BY <2>1, <2>6, <2>7 DEF CataloguingInv, Catalogued, FilesOnDisk
  <2>9. File \in DOMAIN disk /\ File' = File
    <3>1. work.files \in Seq(Nat) /\ work.files # <<>>
      BY <2>7 DEF CataloguingInv, Catalogued
    <3>2. Head(work.files) = work.files[1] /\ 1 \in 1 .. Len(work.files)
      BY <3>1, TailOf
    <3> QED
      BY <2>7, <3>2 DEF CataloguingInv, FilesOnDisk, File
  <2>10. \A m \in DOMAIN disk : disk[m].mtime \in Nat
    BY DEF BaseInv, FileRecord
  <2>11. ASSUME stage \in {"probing", "rehashing", "sizing"}
         PROVE  /\ work.before.mtime <= disk'[File].mtime
                /\ File = name => work.before.mtime # disk'[File].mtime
                /\ File # name => disk'[File] = disk[File]
    <3>1. work.before.mtime \in Nat /\ work.before.mtime <= disk[File].mtime
      BY <2>11 DEF CataloguingInv, FileRecord
    <3> QED
      BY <2>4, <2>5, <2>9, <2>10, <3>1
  <2>12. CASE File = name
    BY <2>1, <2>7, <2>8, <2>9, <2>11, <2>12 DEF CataloguingInv
  <2>13. CASE File # name
    BY <2>1, <2>7, <2>8, <2>9, <2>11, <2>13 DEF CataloguingInv
  <2> QED
    BY <2>12, <2>13
<1> QED
  BY <1>1, <1>2

\* The fields of two joined records.
LEMMA JoinedIs ==
  ASSUME NEW f, NEW g, NEW h, h = Joined(f, g)
  PROVE  /\ DOMAIN h = DOMAIN f \cup DOMAIN g
         /\ \A x \in DOMAIN f : h[x] = f[x]
         /\ \A x \in DOMAIN g \ DOMAIN f : h[x] = g[x]
  BY DEF Joined

\* A file that is catalogued is not left any more: the bound on both stays.
LEMMA OneLessLeft ==
  ASSUME NEW n \in Nat, NEW f \in Nat, NEW max \in Nat, NEW s, NEW l,
         n + f <= max, s = n + 1, l = f - 1
  PROVE  s + l <= max
  OBVIOUS

\* The file under way is the first of those that are left.
LEMMA FileUnderWay ==
  ASSUME BaseInv, CataloguingInv, stage \in {"hashing", "probing", "rehashing", "sizing"}
  PROVE  /\ work.files \in Seq(Nat) /\ work.files # <<>>
         /\ File = work.files[1] /\ File \in DOMAIN disk /\ disk[File] \in FileRecord
         /\ Catalogued(work.files, work.sources, work.shards) /\ FilesOnDisk(work.files, work.sources)
         /\ call.builder = "media"
<1>1. work.files \in Seq(Nat) /\ work.files # <<>>
  BY DEF CataloguingInv, Catalogued
<1>2. Head(work.files) = work.files[1] /\ 1 \in 1 .. Len(work.files)
  BY <1>1, TailOf
<1>3. File \in DOMAIN disk
  BY <1>2 DEF CataloguingInv, FilesOnDisk, File
<1> QED
  BY <1>1, <1>2, <1>3 DEF CataloguingInv, BaseInv, File

\* The first hash of a file, and its modification time, are those of the file as it is.
LEMMA HashBeforeKeeps == ASSUME BaseInv, CataloguingInv, HashBefore PROVE CataloguingInv'
<1> USE DEF BuilderStep, Refuse
<1>1. stage = "hashing" /\ UNCHANGED <<call, disk, edits>> /\ stage' \in {"probing", "refused"}
  BY DEF HashBefore
<1>2. SUFFICES ASSUME stage' = "probing" PROVE CataloguingInv'
  BY <1>1 DEF CataloguingInv
<1>3. /\ work.files \in Seq(Nat) /\ work.files # <<>>
      /\ File = work.files[1] /\ File \in DOMAIN disk /\ disk[File] \in FileRecord
      /\ Catalogued(work.files, work.sources, work.shards) /\ FilesOnDisk(work.files, work.sources)
      /\ call.builder = "media"
  BY <1>1, FileUnderWay
<1>4. Hashable(File) /\ work' = Joined(work, [before |-> disk[File]])
  BY <1>2 DEF HashBefore
<1> DEFINE now == disk[File]
<1>5. /\ DOMAIN work' = {"files", "sources", "shards", "before"}
      /\ work'.files = work.files /\ work'.sources = work.sources /\ work'.shards = work.shards
      /\ work'.before = now
  <2>1. DOMAIN work = {"files", "sources", "shards"}
    BY <1>1 DEF CataloguingInv
  <2> HIDE DEF now
  <2> DEFINE more == [before |-> now]
  <2>2. DOMAIN more = {"before"} /\ more["before"] = now
    OBVIOUS
  <2>3. work' = Joined(work, more)
    BY <1>4 DEF now
  <2> HIDE DEF more
  <2>4. /\ DOMAIN work' = DOMAIN work \cup DOMAIN more
        /\ \A x \in DOMAIN work : work'[x] = work[x]
        /\ \A x \in DOMAIN more \ DOMAIN work : work'[x] = more[x]
    BY <2>3 DEF Joined
  <2>5. DOMAIN work' = {"files", "sources", "shards", "before"}
    BY <2>1, <2>2, <2>4
  <2>6. "files" \in DOMAIN work /\ "sources" \in DOMAIN work /\ "shards" \in DOMAIN work /\ "before" \in DOMAIN more \ DOMAIN work
    BY <2>1, <2>2
  <2>7. work'["files"] = work["files"] /\ work'["sources"] = work["sources"] /\ work'["shards"] = work["shards"]
        /\ work'["before"] = now
    BY <2>2, <2>4, <2>6
  <2> QED
    BY <2>5, <2>7
<1>6. Catalogued(work.files, work.sources, work.shards)'
  BY <1>3, <1>5
<1>7. FilesOnDisk(work.files, work.sources)'
  BY <1>1, <1>3, <1>5, FilesStay
<1>8. File' = File /\ disk'[File'] = now /\ now.mtime \in Nat /\ now.kind \in {"file", "barred"}
  BY <1>1, <1>3, <1>4, <1>5 DEF File, FileRecord, Hashable
<1>9. now.mtime <= now.mtime
  BY <1>8
<1>10. /\ call'.builder = "media" /\ work'.files # <<>>
       /\ {"files", "sources", "shards"} \subseteq DOMAIN work' /\ "before" \in DOMAIN work'
  BY <1>1, <1>3, <1>5
<1>11. work'.before \in FileRecord
  BY <1>3, <1>5
<1> HIDE DEF now
<1> QED
  BY <1>2, <1>5, <1>6, <1>7, <1>8, <1>9, <1>10, <1>11 DEF CataloguingInv

\* Not a media file: the catalogue goes on without it.
LEMMA ProbeSkips ==
  ASSUME BaseInv, CataloguingInv, stage = "probing", Proceed(Catalogue)
  PROVE  /\ UNCHANGED <<call, disk, edits>> /\ stage' \in {"hashing", "built", "refused"}
         /\ CataloguingInv'
         /\ stage' = "built" =>
              /\ MediaIsCatalogued' /\ MediaManifestShape(built') /\ manifest' = built'
              /\ edits = 0 => OnDisk(built)'
<1>1. /\ work.files \in Seq(Nat) /\ work.files # <<>> /\ call.builder = "media"
      /\ Catalogued(work.files, work.sources, work.shards) /\ FilesOnDisk(work.files, work.sources)
  BY FileUnderWay
<1>2. Catalogued(Tail(work.files), work.sources, work.shards) /\ FilesOnDisk(Tail(work.files), work.sources)
  BY <1>1, CataloguedLess
<1>3. Proceed([files |-> work.files, sources |-> work.sources, shards |-> work.shards])
  BY DEF Catalogue
<1>4. /\ UNCHANGED <<call, disk, edits>>
      /\ stage' \in {"hashing", "built", "refused"}
      /\ stage' = "hashing" =>
           /\ DOMAIN work' = {"files", "sources", "shards"} /\ work'.files # <<>>
           /\ Catalogued(work.files, work.sources, work.shards)'
           /\ FilesOnDisk(work.files, work.sources)'
      /\ stage' = "built" =>
           /\ MediaIsCatalogued' /\ MediaManifestShape(built') /\ manifest' = built'
           /\ edits = 0 => OnDisk(built)'
  BY <1>1, <1>2, <1>3, ProceedKeeps
<1>5. CataloguingInv'
  BY <1>1, <1>4 DEF CataloguingInv
<1> QED
  BY <1>4, <1>5

\* The duration that is probed is that of the content hashed before, or the file has changed since.
LEMMA ProbeKeeps ==
  ASSUME BaseInv, CataloguingInv, Probe
  PROVE  /\ CataloguingInv'
         /\ stage' = "built" =>
              /\ MediaIsCatalogued' /\ MediaManifestShape(built') /\ manifest' = built'
              /\ edits = 0 => OnDisk(built)'
<1> USE DEF BuilderStep, Refuse
<1>1. stage = "probing"
  BY DEF Probe
<1>2. CASE Proceed(Catalogue)
  BY <1>1, <1>2, ProbeSkips
<1>3. CASE stage' = "refused"
  BY <1>3 DEF CataloguingInv
<1>4. CASE /\ IsMedia(File)
           /\ BuilderStep("rehashing", Joined(work, [type |-> disk[File].type, duration |-> Duration(disk[File].bytes)]))
  <2> DEFINE now == disk[File]
             more == [type |-> now.type, duration |-> Len(now.bytes)]
  <2>1. /\ UNCHANGED <<call, disk, edits>> /\ stage' = "rehashing" /\ work' = Joined(work, more)
    BY <1>4 DEF Duration
  <2>2. /\ work.files \in Seq(Nat) /\ work.files # <<>>
        /\ File \in DOMAIN disk /\ now \in FileRecord
        /\ Catalogued(work.files, work.sources, work.shards) /\ FilesOnDisk(work.files, work.sources)
        /\ call.builder = "media" /\ now.type \in {"audio", "video"}
    BY <1>1, <1>4, FileUnderWay DEF IsMedia
  <2>3. DOMAIN work = {"files", "sources", "shards", "before"}
    BY <1>1 DEF CataloguingInv
  <2>4. /\ work'.files = work.files /\ work'.sources = work.sources /\ work'.shards = work.shards
        /\ work'.before = work.before /\ work'.type = now.type /\ work'.duration = Len(now.bytes)
        /\ {"files", "sources", "shards", "before"} \subseteq DOMAIN work'
    <3> DEFINE t == now.type
               d == Len(now.bytes)
    <3> HIDE DEF t, d, now
    <3>1. DOMAIN more = {"type", "duration"} /\ more["type"] = t /\ more["duration"] = d
      BY DEF t, d
    <3>2. work' = Joined(work, more)
      BY <2>1
    <3> HIDE DEF more
    <3>3. /\ DOMAIN work' = DOMAIN work \cup DOMAIN more
          /\ \A x \in DOMAIN work : work'[x] = work[x]
          /\ \A x \in DOMAIN more \ DOMAIN work : work'[x] = more[x]
      BY <3>2 DEF Joined
    <3>4. /\ "files" \in DOMAIN work /\ "sources" \in DOMAIN work /\ "shards" \in DOMAIN work /\ "before" \in DOMAIN work
          /\ "type" \in DOMAIN more \ DOMAIN work /\ "duration" \in DOMAIN more \ DOMAIN work
      BY <2>3, <3>1
    <3>5. /\ work'["files"] = work["files"] /\ work'["sources"] = work["sources"] /\ work'["shards"] = work["shards"]
          /\ work'["before"] = work["before"] /\ work'["type"] = t /\ work'["duration"] = d
          /\ {"files", "sources", "shards", "before"} \subseteq DOMAIN work'
      BY <2>3, <3>1, <3>3, <3>4
    <3> QED
      BY <3>5 DEF t, d
  <2>5. Catalogued(work.files, work.sources, work.shards)'
    BY <2>2, <2>4
  <2>6. FilesOnDisk(work.files, work.sources)'
    BY <2>1, <2>2, <2>4, FilesStay
  <2>7. File' = File /\ disk'[File'] = now
    BY <2>1, <2>4 DEF File
  <2>8. /\ work.before \in FileRecord /\ work.before.mtime <= now.mtime /\ work.before.kind \in {"file", "barred"}
        /\ edits = 0 => now = work.before
        /\ now.mtime = work.before.mtime => now.bytes = work.before.bytes
    BY <1>1 DEF CataloguingInv
  <2>9. call'.builder = "media" /\ work'.files # <<>> /\ "before" \in DOMAIN work'
        /\ {"files", "sources", "shards"} \subseteq DOMAIN work'
    BY <2>1, <2>2, <2>4
  <2> HIDE DEF now
  <2>10. CataloguingInv'
    BY <2>1, <2>2, <2>4, <2>5, <2>6, <2>7, <2>8, <2>9 DEF CataloguingInv
  <2> QED
    BY <2>1, <2>10
<1> QED
  BY <1>2, <1>3, <1>4 DEF Probe

\* A file whose second hash and modification time agree with the first was probed as it was hashed.
LEMMA HashAfterKeeps == ASSUME BaseInv, CataloguingInv, HashAfter PROVE CataloguingInv'
<1> USE DEF BuilderStep, Refuse
<1>1. stage = "rehashing" /\ UNCHANGED <<call, disk, edits>> /\ stage' \in {"sizing", "refused"}
  BY DEF HashAfter
<1>2. SUFFICES ASSUME stage' = "sizing" PROVE CataloguingInv'
  BY <1>1 DEF CataloguingInv
<1>3. work' = work /\ disk[File].mtime = work.before.mtime
  BY <1>2 DEF HashAfter
<1>4. work.duration = Len(work.before.bytes)
  BY <1>1, <1>3 DEF CataloguingInv
<1> QED
  BY <1>1, <1>2, <1>3, <1>4 DEF CataloguingInv, Catalogued, FilesOnDisk, File

\* A catalogued file's duration is that of the content digested, and its path is new.
LEMMA AddMediaKeeps ==
  ASSUME BaseInv, CataloguingInv, AddMedia
  PROVE  /\ CataloguingInv'
         /\ stage' = "built" =>
              /\ MediaIsCatalogued' /\ MediaManifestShape(built') /\ manifest' = built'
              /\ edits = 0 => OnDisk(built)'
<1> USE DEF BuilderStep, Refuse
<1>1. stage = "sizing"
  BY DEF AddMedia
<1>2. CASE stage' = "refused"
  BY <1>2 DEF CataloguingInv
<1>3. CASE stage' # "refused"
  <2> DEFINE d == work.before.bytes
             x == Sidecar(Size(File))
             source == [type |-> work.type, path |-> File, sha256 |-> d]
             n == Len(work.sources)
             shard == [source |-> n + 1, text |-> x,
                       bounds |-> [duration_seconds |-> work.duration, sha256 |-> d, sidecar_sha256 |-> x]]
             sources == Append(work.sources, source)
             shards == Append(work.shards, shard)
             left == Tail(work.files)
  <2>1. Proceed([files |-> work.files, sources |-> sources, shards |-> shards])
    <3>1. Proceed([Catalogue EXCEPT !.sources = Append(@, source), !.shards = Append(@, shard)])
      BY <1>3 DEF AddMedia
    <3> HIDE DEF source, shard
    <3>2. Catalogue.sources = work.sources /\ Catalogue.shards = work.shards
      BY DEF Catalogue
    <3>3. Append(Catalogue.sources, source) = sources /\ Append(Catalogue.shards, shard) = shards
      BY <3>2
    <3>4. Proceed([Catalogue EXCEPT !.sources = sources, !.shards = shards])
      BY <3>1, <3>3
    <3> HIDE DEF sources, shards
    <3>5. [Catalogue EXCEPT !.sources = sources, !.shards = shards]
            = [files |-> work.files, sources |-> sources, shards |-> shards]
      <4>1. Catalogue = [files |-> work.files, sources |-> work.sources, shards |-> work.shards]
        BY DEF Catalogue
      <4> DEFINE c == Catalogue
      <4> HIDE DEF c
      <4>2. c = [files |-> work.files, sources |-> work.sources, shards |-> work.shards]
        BY <4>1 DEF c
      <4>3. [c EXCEPT !.sources = sources, !.shards = shards]
              = [files |-> work.files, sources |-> sources, shards |-> shards]
        <5> DEFINE e == [c EXCEPT !.sources = sources]
        <5>1. e = [files |-> work.files, sources |-> sources, shards |-> work.shards]
          BY <4>2
        <5>2. [c EXCEPT !.sources = sources, !.shards = shards] = [e EXCEPT !.shards = shards]
          OBVIOUS
        <5> HIDE DEF e
        <5>3. [e EXCEPT !.shards = shards] = [files |-> work.files, sources |-> sources, shards |-> shards]
          BY <5>1
        <5> QED
          BY <5>2, <5>3
      <4> QED
        BY <4>3 DEF c
    <3> QED
      BY <3>4, <3>5
  <2>2. /\ work.files \in Seq(Nat) /\ work.files # <<>> /\ call.builder = "media"
        /\ File = work.files[1] /\ File \in DOMAIN disk /\ disk[File] \in FileRecord
        /\ Catalogued(work.files, work.sources, work.shards) /\ FilesOnDisk(work.files, work.sources)
    BY <1>1, FileUnderWay
  <2>3. /\ work.before \in FileRecord /\ work.before.kind \in {"file", "barred"}
        /\ (edits = 0 => disk[File] = work.before)
        /\ work.type \in {"audio", "video"} /\ work.duration = Len(d)
    BY <1>1 DEF CataloguingInv
  <2>4. Catalogued(left, work.sources, work.shards) /\ FilesOnDisk(left, work.sources)
    BY <2>2, CataloguedLess
  <2>5. /\ Listed(work.sources) /\ Listed(work.shards) /\ Len(work.shards) = n /\ n \in Nat
    BY <2>2 DEF Catalogued, Listed
  <2>6. /\ source.type \in {"audio", "video"} /\ source.path = File /\ source.sha256 = d
        /\ MediaShape(source, shard, n + 1)
    BY <2>3 DEF MediaShape
  <2> HIDE DEF source, shard, d, x
  <2>7. /\ Listed(sources) /\ Len(sources) = n + 1
        /\ \A i \in 1 .. n : sources[i] = work.sources[i]
        /\ sources[n + 1] = source
    BY <2>5, AppendListed
  <2>8. /\ Listed(shards) /\ Len(shards) = n + 1
        /\ \A i \in 1 .. n : shards[i] = work.shards[i]
        /\ shards[n + 1] = shard
    BY <2>5, AppendListed
  <2> HIDE DEF sources, shards, n
  <2>9. /\ left \in Seq(Nat) /\ Len(left) = Len(work.files) - 1 /\ Len(work.files) \in Nat \ {0}
        /\ \A i \in 1 .. Len(work.files) - 1 : left[i] = work.files[i + 1]
    BY <2>2, TailOf
  <2> HIDE DEF left
  <2>10. \A i \in 1 .. n : work.sources[i].path # File
    <3>1. 1 \in 1 .. Len(work.files)
      BY <2>9
    <3> QED
      BY <2>2, <3>1 DEF Catalogued, n
  <2>11. \A j \in 1 .. Len(left) : left[j] # File
    <3>1. ASSUME NEW j \in 1 .. Len(left), left[j] = File PROVE FALSE
      <4>1. j + 1 \in 1 .. Len(work.files) /\ 1 \in 1 .. Len(work.files) /\ j + 1 # 1 /\ left[j] = work.files[j + 1]
        BY <2>9
      <4> QED
        BY <2>2, <3>1, <4>1 DEF Catalogued
    <3> QED
      BY <3>1
  <2>12. Catalogued(left, sources, shards)
    <3>1. Len(sources) + Len(left) <= MaxShards
      <4>1. n + Len(work.files) <= MaxShards
        BY <2>2 DEF Catalogued, n
      <4>2. /\ Len(sources) = n + 1 /\ Len(left) = Len(work.files) - 1
            /\ Len(work.files) \in Nat /\ n \in Nat /\ MaxShards \in Nat
        BY <2>5, <2>7, <2>9, LimitsAssumption
      <4> QED
        BY <4>1, <4>2, OneLessLeft
    <3>2. ASSUME NEW i \in 1 .. Len(sources)
          PROVE  /\ MediaShape(sources[i], shards[i], i)
                 /\ \A j \in 1 .. Len(left) : sources[i].path # left[j]
                 /\ \A j \in 1 .. Len(sources) : sources[i].path = sources[j].path => i = j
      <4>1. \A j \in 1 .. Len(sources) : j \in 1 .. n \/ j = n + 1
        BY <2>5, <2>7
      <4>2. CASE i = n + 1
        BY <2>6, <2>7, <2>8, <2>10, <2>11, <4>1, <4>2
      <4>3. CASE i \in 1 .. n
        <5>1. sources[i] = work.sources[i] /\ shards[i] = work.shards[i]
          BY <2>7, <2>8, <4>3
        <5>2. MediaShape(work.sources[i], work.shards[i], i) /\ \A j \in 1 .. Len(left) : work.sources[i].path # left[j]
          BY <2>4, <4>3 DEF Catalogued, n
        <5>3. \A j \in 1 .. n : work.sources[i].path = work.sources[j].path => i = j
          BY <2>4, <4>3 DEF Catalogued, n
        <5>4. \A j \in 1 .. Len(sources) : sources[i].path = sources[j].path => i = j
          BY <2>6, <2>7, <2>10, <4>1, <4>3, <5>1, <5>3
        <5> QED
          BY <5>1, <5>2, <5>4
      <4> QED
        BY <4>1, <4>2, <4>3
    <3>3. \A i, j \in 1 .. Len(left) : left[i] = left[j] => i = j
      BY <2>4 DEF Catalogued
    <3> QED
      BY <2>7, <2>8, <2>9, <3>1, <3>2, <3>3 DEF Catalogued
  <2>13. FilesOnDisk(left, sources)
    <3>1. ASSUME NEW i \in 1 .. Len(sources)
          PROVE  /\ sources[i].path \in DOMAIN disk
                 /\ edits = 0 => /\ disk[sources[i].path].kind \in {"file", "barred"}
                                 /\ disk[sources[i].path].bytes = sources[i].sha256
      <4>1. i \in 1 .. n \/ i = n + 1
        BY <2>5, <2>7
      <4>2. CASE i = n + 1
        BY <2>2, <2>3, <2>6, <2>7, <4>2 DEF d
      <4>3. CASE i \in 1 .. n
        BY <2>4, <2>7, <4>3 DEF FilesOnDisk, n
      <4> QED
        BY <4>1, <4>2, <4>3
    <3> QED
      BY <2>4, <3>1 DEF FilesOnDisk
  <2>14. /\ UNCHANGED <<call, disk, edits>>
         /\ stage' \in {"hashing", "built", "refused"}
         /\ stage' = "hashing" =>
              /\ DOMAIN work' = {"files", "sources", "shards"} /\ work'.files # <<>>
              /\ Catalogued(work.files, work.sources, work.shards)'
              /\ FilesOnDisk(work.files, work.sources)'
         /\ stage' = "built" =>
              /\ MediaIsCatalogued' /\ MediaManifestShape(built') /\ manifest' = built'
              /\ edits = 0 => OnDisk(built)'
    BY <2>1, <2>2, <2>12, <2>13, ProceedKeeps DEF left
  <2>15. CataloguingInv'
    BY <2>2, <2>14 DEF CataloguingInv
  <2> QED
    BY <2>14, <2>15
<1> QED
  BY <1>2, <1>3

\* Every step keeps what the catalogue keeps.
LEMMA CataloguingStep == ASSUME BaseInv, CataloguingInv, [Next]_vars PROVE CataloguingInv'
<1>1. CASE OpenMedia
  <2>1. stage' \in {"hashing", "refused"}
    BY <1>1 DEF OpenMedia, BuilderStep, Refuse
  <2>2. stage' = "refused" => CataloguingInv'
    BY DEF CataloguingInv
  <2>3. stage' = "hashing" => CataloguingInv'
    BY <1>1, MediaBegins DEF CataloguingInv
  <2> QED
    BY <2>1, <2>2, <2>3
<1>2. CASE HashBefore \/ Probe \/ HashAfter \/ AddMedia
  BY <1>2, HashBeforeKeeps, ProbeKeeps, HashAfterKeeps, AddMediaKeeps
<1>3. CASE EditFile
  BY <1>3, EditsAreCounted, CataloguingStays
<1>4. CASE UNCHANGED vars
  BY <1>4, CataloguingStays DEF vars
<1>5. CASE Next /\ ~OpenMedia /\ ~HashBefore /\ ~Probe /\ ~HashAfter /\ ~AddMedia /\ ~EditFile
  <2>1. stage' \notin {"hashing", "probing", "rehashing", "sizing"}
    BY <1>5, StageAfter
  <2> QED
    BY <2>1 DEF CataloguingInv
<1> QED
  BY <1>1, <1>2, <1>3, <1>4, <1>5

-----------------------------------------------------------------------------
(* Texts                                                                   *)

\* m is a manifest of parts of one text.
TextShape(m, c) ==
  /\ m.workload = CASE c.builder = "text" -> c.workload [] c.builder = "book" -> "book_reading"
                    [] c.builder = "translation" -> "translation" [] OTHER -> "longform_generation"
  /\ m.processor = [type |-> IF c.builder = "text" THEN "copy_text" ELSE "deepseek_batch"]
  /\ m.acceptance = c.builder
  /\ DOMAIN m.sources = {1} /\ Len(m.sources) = 1
  /\ DOMAIN m.sources[1] = {"type", "sha256"} \cup (IF c.path # 0 THEN {"path"} ELSE {})
  /\ c.path # 0 => m.sources[1].path = c.path
  /\ DOMAIN m.shards = 1 .. Len(m.shards) /\ Len(m.shards) \in 1 .. MaxShards
  /\ \A i \in 1 .. Len(m.shards) :
       LET shard == m.shards[i]
       IN  /\ DOMAIN shard = {"source", "text", "bounds"} /\ shard.source = 1
           /\ {"source_sha256", "shard_sha256"} \subseteq DOMAIN shard.bounds
           /\ shard.bounds.shard_sha256 = shard.text /\ shard.bounds.source_sha256 = m.sources[1].sha256
           /\ DOMAIN shard.bounds \cap {"byte_end", "page_number", "sidecar_sha256", "row_count", "sha256"} = {}
           /\ c.builder = "book" => "chapter" \in DOMAIN shard.bounds
           /\ c.builder = "translation" => {"source_lang", "target_lang"} \subseteq DOMAIN shard.bounds

\* What the options of a text's builder and the stat of its file have shown.
OpenedInv ==
  /\ stage \in {"opened", "read", "cutting"} =>
       /\ call.builder \in Cutters \cup {"longform"}
       /\ call.builder \in Cutters => ChunkOptionsValid
       /\ edits = 0 /\ FromFile => Safe(call.path) /\ IsFile(call.path)
  /\ stage \in {"read", "cutting"} => call.builder \in Cutters
  /\ stage = "read" => FromFile

\* Every step keeps what the options and the stat have shown.
LEMMA OpenedStep == ASSUME BaseInv, OpenedInv, [Next]_vars PROVE OpenedInv'
<1> USE DEF BuilderStep, Refuse, Return
<1>0. call' = call
  BY EditsAreCounted
<1> DEFINE Fine == edits = 0 /\ FromFile => Safe(call.path) /\ IsFile(call.path)
           Valid == call.builder \in Cutters => ChunkOptionsValid
<1>1. UNCHANGED disk /\ UNCHANGED edits /\ Fine => Fine'
  BY <1>0 DEF FromFile, Safe, IsFile, Linked, Barred
<1>2. Valid => Valid'
  BY <1>0 DEF ChunkOptionsValid
<1>3. FromFile' = FromFile
  BY <1>0 DEF FromFile
<1>4. OpenedInv' <=> /\ stage' \in {"opened", "read", "cutting"} =>
                          call'.builder \in Cutters \cup {"longform"} /\ Valid' /\ Fine'
                     /\ stage' \in {"read", "cutting"} => call'.builder \in Cutters
                     /\ stage' = "read" => FromFile'
  BY DEF OpenedInv
<1>5. OpenedInv <=> /\ stage \in {"opened", "read", "cutting"} =>
                          call.builder \in Cutters \cup {"longform"} /\ Valid /\ Fine
                    /\ stage \in {"read", "cutting"} => call.builder \in Cutters
                    /\ stage = "read" => FromFile
  BY DEF OpenedInv
<1> HIDE DEF Fine, Valid
<1>6. CASE OpenText
  <2>1. /\ call.builder \in Cutters \cup {"longform"} /\ UNCHANGED <<disk, edits>>
        /\ stage' \in {"opened", "refused"}
    BY <1>6 DEF OpenText
  <2>2. stage' = "opened" => Valid /\ Fine
    BY <1>6 DEF OpenText, OptionsValid, Valid, Fine
  <2> QED
    BY <1>0, <1>1, <1>2, <1>4, <2>1, <2>2
<1>7. CASE ReadText
  <2>1. /\ stage = "opened" /\ call.builder \in Cutters /\ UNCHANGED <<disk, edits>>
        /\ stage' \in {"read", "cutting", "refused"}
        /\ stage' = "read" => FromFile
    BY <1>7 DEF ReadText
  <2> QED
    BY <1>0, <1>1, <1>2, <1>3, <1>4, <1>5, <2>1
<1>8. CASE RecheckPath \/ Cut
  <2>1. /\ stage \in {"read", "cutting"} /\ UNCHANGED <<disk, edits>>
        /\ stage' \in {"cutting", "built", "refused"}
    BY <1>8 DEF RecheckPath, Cut
  <2> QED
    BY <1>0, <1>1, <1>2, <1>3, <1>4, <1>5, <2>1
<1>9. CASE EditFile
  <2>1. edits' # 0 /\ UNCHANGED stage
    BY <1>9, EditsAreCounted
  <2>2. Fine'
    BY <2>1 DEF Fine
  <2> QED
    BY <1>0, <1>2, <1>3, <1>4, <1>5, <2>1, <2>2
<1>10. CASE UNCHANGED vars
  <2>1. UNCHANGED <<stage, disk, edits>>
    BY <1>10 DEF vars
  <2> QED
    BY <1>0, <1>1, <1>2, <1>3, <1>4, <1>5, <2>1
<1>11. CASE Next /\ ~OpenText /\ ~ReadText /\ ~RecheckPath /\ ~Cut /\ ~EditFile
  BY <1>4, <1>11, StageAfter
<1> QED
  BY <1>6, <1>7, <1>8, <1>9, <1>10, <1>11

\* The fields of a text's source.
LEMMA SourceFields ==
  ASSUME NEW digest
  PROVE  LET s == TextSource(digest)
         IN  /\ DOMAIN s = {"type", "sha256"} \cup (IF FromFile THEN {"path"} ELSE {})
             /\ s.type = "text" /\ s.sha256 = digest /\ (FromFile => s.path = call.path)
<1> DEFINE f == [type |-> "text", sha256 |-> digest]
           g == IF FromFile THEN [path |-> call.path] ELSE <<>>
           s == Joined(f, g)
<1>1. DOMAIN f = {"type", "sha256"} /\ f["type"] = "text" /\ f["sha256"] = digest
  OBVIOUS
<1>2. FromFile => DOMAIN g = {"path"} /\ g["path"] = call.path
  OBVIOUS
<1>3. ~FromFile => DOMAIN g = {}
  OBVIOUS
<1> HIDE DEF f, g
<1>4. /\ DOMAIN s = DOMAIN f \cup DOMAIN g
      /\ \A x \in DOMAIN f : s[x] = f[x]
      /\ \A x \in DOMAIN g \ DOMAIN f : s[x] = g[x]
  BY DEF Joined
<1>5. TextSource(digest) = s
  BY DEF TextSource, f, g
<1> HIDE DEF s
<1>6. /\ DOMAIN s = {"type", "sha256"} \cup (IF FromFile THEN {"path"} ELSE {})
      /\ s["type"] = "text" /\ s["sha256"] = digest /\ (FromFile => s["path"] = call.path)
  BY <1>1, <1>2, <1>3, <1>4
<1> QED
  BY <1>5, <1>6

\* What there is to read, in a file or in the call.
LEMMA SourceTokens == ASSUME BaseInv PROVE Source \in Seq(Token) /\ Decoded(Source) \in Seq(Token)
<1>1. call.text \in Seq(Token)
  BY CallsAssumption DEF BaseInv, CallRecord
<1>2. FromFile => call.path \in DOMAIN disk
  BY CallsAssumption DEF BaseInv, FromFile
<1>3. Source \in Seq(Token)
  BY <1>1, <1>2 DEF Source, BaseInv, FileRecord
<1> DEFINE s == Source
<1> HIDE DEF s
<1>4. s \in Seq(Token)
  BY <1>3 DEF s
<1>5. s # <<>> => Tail(s) \in Seq(Token)
  BY <1>4, TailOf
<1> QED
  BY <1>4, <1>5 DEF Decoded, s

\* The digest that was taken of an unchanged file.
LEMMA TextOnDisk ==
  ASSUME BaseInv, OpenedInv, stage \in {"opened", "read", "cutting"}, edits = 0, NEW m,
         DOMAIN m.sources = {1}, call.path # 0 => m.sources[1].path = call.path,
         call.path = 0 => "path" \notin DOMAIN m.sources[1],
         FromFile => m.sources[1].sha256 = DigestOf(disk[call.path].bytes)
  PROVE  OnDisk(m)
<1>1. FromFile => disk[call.path].kind = "file" /\ call.path \in DOMAIN disk
  <2>1. FromFile => call.path \in DOMAIN disk
    BY CallsAssumption DEF BaseInv, FromFile
  <2> QED
    BY <2>1, OpenedFile DEF OpenedInv
<1> QED
  BY <1>1 DEF OnDisk, Has, FromFile

\* The outline: a manifest of one shard a section, and of the file as it is if none changed.
LEMMA OutlineReturns ==
  ASSUME BaseInv, OpenedInv, ReadOutline, stage' = "built"
  PROVE  /\ call.builder = "longform" /\ UNCHANGED <<call, disk, edits>>
         /\ built'.shards = SectionShards(TextAsRead', SourceAsRead')
         /\ TextShape(built', call) /\ manifest' = built'
         /\ edits = 0 => OnDisk(built)'
<1> DEFINE bytes == Source
           text == Decoded(bytes)
           n == Len(Sections(text))
<1>1. /\ stage = "opened" /\ call.builder = "longform" /\ UNCHANGED <<call, disk, edits>>
      /\ built' = LongformManifest(bytes, SectionShards(text, bytes)) /\ manifest' = built'
      /\ n \in 1 .. MaxShards
  BY DEF ReadOutline, Refuse, BuilderStep, Return, OutlineValid
<1>2. text \in Seq(Token) /\ text # <<>>
  BY <1>1, SourceTokens DEF ReadOutline, Refuse, BuilderStep, Return, Readable, Empty, Blank, Range
<1>3. FromFile /\ call.path # 0
  <2>1. call.path \in DOMAIN call.files /\ call.files \in Seq(FileRecord)
    BY <1>1, CallsAssumption DEF BaseInv, CallRecord
  <2>2. DOMAIN call.files = 1 .. Len(call.files) /\ Len(call.files) \in Nat
    BY <2>1, LenProperties
  <2> QED
    BY <2>1, <2>2 DEF FromFile
<1> DEFINE shards == SectionShards(text, bytes)
<1>4. /\ built'.workload = "longform_generation" /\ built'.processor = [type |-> "deepseek_batch"]
      /\ built'.acceptance = "longform" /\ built'.sources = <<TextSource(bytes)>> /\ built'.shards = shards
  BY <1>1 DEF LongformManifest, ManifestOf
<1>5. DOMAIN shards = 1 .. n
  <2>1. Sections(text) \in Seq(Token)
    BY <1>2, TailOf DEF Sections
  <2>2. DOMAIN Sections(text) = 1 .. n
    BY <2>1, LenProperties
  <2> QED
    BY <2>2 DEF SectionShards
<1>6. ASSUME NEW i \in 1 .. n
      PROVE  /\ DOMAIN shards[i] = {"source", "text", "bounds"} /\ shards[i].source = 1
             /\ DOMAIN shards[i].bounds = {"section_index", "section_count", "source_sha256", "shard_sha256"}
             /\ shards[i].bounds.shard_sha256 = shards[i].text
             /\ shards[i].bounds.source_sha256 = bytes
  <2> DEFINE x == SectionText(text, i)
             c == n
             sha == bytes
  <2>1. shards[i] = [source |-> 1, text |-> x,
                     bounds |-> [section_index |-> i, section_count |-> c, source_sha256 |-> sha, shard_sha256 |-> x]]
    BY <1>5 DEF SectionShards
  <2> HIDE DEF shards, x, c, sha
  <2>2. /\ DOMAIN shards[i] = {"source", "text", "bounds"} /\ shards[i].source = 1
        /\ DOMAIN shards[i].bounds = {"section_index", "section_count", "source_sha256", "shard_sha256"}
        /\ shards[i].bounds.shard_sha256 = shards[i].text
        /\ shards[i].bounds.source_sha256 = sha
    BY <2>1
  <2> QED
    BY <2>2 DEF sha
<1> DEFINE source == TextSource(bytes)
<1>7. /\ DOMAIN source = {"type", "sha256", "path"} /\ source.sha256 = bytes /\ source.path = call.path
  BY <1>3, SourceFields
<1>8. TextAsRead' = text /\ SourceAsRead' = bytes
  <2>1. SourceAsRead' = bytes
    BY <1>4, <1>7 DEF SourceAsRead
  <2>2. TextAsRead' = Decoded(bytes)
    BY <1>1, <2>1 DEF TextAsRead, Decoded, FromFile
  <2> QED
    BY <2>1, <2>2
<1> HIDE DEF shards, source, text
<1>9. Len(built'.shards) = n /\ DOMAIN built'.shards = 1 .. n
  BY <1>1, <1>4, <1>5
<1> HIDE DEF n, bytes
<1>10. TextShape(built', call)
  <2>1. DOMAIN built'.sources = {1} /\ Len(built'.sources) = 1 /\ built'.sources[1] = source
    BY <1>4 DEF source
  <2> QED
    BY <1>1, <1>3, <1>4, <1>6, <1>7, <1>9, <2>1 DEF TextShape, FromFile
<1>11. ASSUME edits = 0 PROVE OnDisk(built)'
  <2>1. DOMAIN built'.sources = {1} /\ built'.sources[1] = source
    BY <1>4 DEF source
  <2>2. bytes = DigestOf(disk[call.path].bytes)
    BY <1>1, <1>3 DEF bytes, Source, DigestOf
  <2>3. OnDisk(built')
    BY <1>1, <1>3, <1>7, <1>11, <2>1, <2>2, TextOnDisk
  <2> QED
    BY <1>1, <2>3, OnDiskStays
<1> QED
  BY <1>1, <1>4, <1>8, <1>10, <1>11 DEF shards

-----------------------------------------------------------------------------
(* The bound on the plan is exact                                          *)

\* Whole numbers: dividing one step more gives one more.
LEMMA DivOnce ==
  ASSUME NEW s \in Nat \ {0}, NEW a \in Nat
  PROVE  /\ a \div s \in Nat /\ (a + s) \div s = 1 + (a \div s)
         /\ a < s => a \div s = 0
<1> DEFINE q == a \div s
           r == a % s
<1>1. q \in Nat /\ r \in 0 .. s - 1 /\ a = q * s + r
  OBVIOUS
<1> QED
  BY <1>1

\* The closed forms of the plan unroll as the cutting loop does: one full chunk, then the text a step on.
LEMMA CountOnce ==
  ASSUME ChunkOptionsValid, call.chunk \in Int, call.overlap \in Int
  PROVE  /\ Step \in Nat \ {0} /\ Step <= call.chunk /\ call.chunk \in Nat \ {0} /\ call.overlap \in Nat
         /\ \A n \in Nat : ShardCount(n) \in Nat \ {0} /\ Materialised(n) \in Nat
         /\ \A n \in Nat : n <= call.chunk => ShardCount(n) = 1 /\ Materialised(n) = n
         /\ \A n \in Nat : n > call.chunk =>
              /\ ShardCount(n) = 1 + ShardCount(n - Step)
              /\ Materialised(n) = call.chunk + Materialised(n - Step)
<1> DEFINE c == call.chunk
           s == Step
<1>1. /\ s \in Nat \ {0} /\ s <= c /\ c \in Nat \ {0} /\ call.overlap \in Nat
  BY MaxChunkAssumption DEF ChunkOptionsValid, Step
<1> HIDE DEF s, c
<1> DEFINE Fulls(n) == (n - c + s - 1) \div s
<1>2. \A n \in Nat : n <= c => ShardCount(n) = 1 /\ Materialised(n) = n
  BY DEF ShardCount, Materialised, c
<1>3. \A n \in Nat : ~(n <= c) => ShardCount(n) = 1 + Fulls(n) /\ Materialised(n) = (ShardCount(n) - 1) * c + n - (ShardCount(n) - 1) * s
  BY DEF ShardCount, Materialised, c, s
<1>4. ASSUME NEW n \in Nat, ~(n <= c)
      PROVE  /\ Fulls(n) \in Nat \ {0}
             /\ n - s <= c => Fulls(n) = 1
             /\ ~(n - s <= c) => Fulls(n) = 1 + Fulls(n - s)
  <2> DEFINE a == n - c - 1
  <2>1. a \in Nat /\ n - c + s - 1 = a + s
    BY <1>1, <1>4
  <2>2. a \div s \in Nat /\ (a + s) \div s = 1 + (a \div s) /\ (a < s => a \div s = 0)
    BY <1>1, <2>1, DivOnce
  <2>3. n - s <= c => a < s
    BY <1>1, <1>4
  <2>4. (n - s) - c + s - 1 = a
    BY <1>1, <1>4
  <2> HIDE DEF a
  <2> QED
    BY <2>1, <2>2, <2>3, <2>4
<1> HIDE DEF Fulls
<1>5. ASSUME NEW n \in Nat, ~(n <= c)
      PROVE  /\ ShardCount(n) \in Nat \ {0} /\ Materialised(n) \in Nat
             /\ ShardCount(n) = 1 + ShardCount(n - s) /\ Materialised(n) = c + Materialised(n - s)
  <2> DEFINE q == Fulls(n)
  <2>1. q \in Nat \ {0} /\ ShardCount(n) = 1 + q /\ Materialised(n) = q * c + n - q * s
    BY <1>3, <1>4, <1>5
  <2>2. q * c + n - q * s \in Nat
    <3>1. q * (c - s) \in Nat /\ q * (c - s) = q * c - q * s /\ q * c \in Int /\ q * s \in Int
      BY <1>1, <2>1
    <3> QED
      BY <3>1
  <2>3. n - s \in Nat
    BY <1>1, <1>5
  <2>4. CASE n - s <= c
    <3>1. q = 1
      BY <1>4, <1>5, <2>4
    <3>2. ShardCount(n - s) = 1 /\ Materialised(n - s) = n - s
      BY <1>2, <2>3, <2>4
    <3> HIDE DEF q
    <3>3. q * c + n - q * s = c + (n - s)
      BY <1>1, <3>1
    <3> QED
      BY <2>1, <2>2, <3>1, <3>2, <3>3
  <2>5. CASE ~(n - s <= c)
    <3>1. q = 1 + Fulls(n - s) /\ Fulls(n - s) \in Nat \ {0}
      BY <1>4, <1>5, <2>3, <2>5
    <3> DEFINE p == Fulls(n - s)
    <3>2. ShardCount(n - s) = 1 + p /\ Materialised(n - s) = p * c + (n - s) - p * s
      BY <1>3, <2>3, <2>5, <3>1
    <3> HIDE DEF p, q
    <3>3. q = 1 + p /\ p \in Nat
      BY <3>1 DEF p
    <3>4. q * c + n - q * s = c + (p * c + (n - s) - p * s)
      <4>1. (1 + p) * c = c + p * c /\ (1 + p) * s = s + p * s /\ p * c \in Int /\ p * s \in Int
        BY <1>1, <3>3
      <4> QED
        BY <1>1, <3>3, <4>1
    <3> QED
      BY <2>1, <2>2, <3>2, <3>3, <3>4
  <2> QED
    BY <2>4, <2>5
<1> QED
  BY <1>1, <1>2, <1>5 DEF c, s

-----------------------------------------------------------------------------
(* The segments of a text                                                  *)

\* The first k characters are blank when each of them is.
LEMMA BlankPrefix ==
  ASSUME NEW text \in Seq(Token), NEW k \in 0 .. Len(text)
  PROVE  Blank(SubSeq(text, 1, k)) <=> \A i \in 1 .. k : text[i] = "s"
<1> DEFINE t == SubSeq(text, 1, k)
<1>1. Len(text) \in Nat /\ DOMAIN text = 1 .. Len(text)
  BY LenProperties
<1>2. /\ t \in Seq(Token) /\ Len(t) = IF 1 <= k THEN k - 1 + 1 ELSE 0
      /\ \A i \in 1 .. k - 1 + 1 : t[i] = text[1 + i - 1]
  <2>1. \A i \in 1 .. k : text[i] \in Token
    BY <1>1, ElementOfSeq
  <2> QED
    BY <1>1, <2>1, SubSeqProperties
<1> HIDE DEF t
<1>3. DOMAIN t = 1 .. k /\ \A i \in 1 .. k : t[i] = text[i]
  <2>1. Len(t) = k /\ DOMAIN t = 1 .. Len(t)
    BY <1>1, <1>2, LenProperties
  <2> QED
    BY <1>1, <1>2, <2>1
<1>4. Blank(t) <=> \A i \in 1 .. k : t[i] = "s"
  BY <1>3 DEF Blank, Range
<1> QED
  BY <1>3, <1>4 DEF t

\* segs cut the text: without gaps, from the end of blank front matter to the end of the
\* text, each up to the next heading of a book.
Segmented(segs, text) ==
  /\ Listed(segs) /\ segs # <<>> /\ Len(segs) \in Nat \ {0}
  /\ \A i \in 1 .. Len(segs) :
       /\ segs[i].from \in Nat /\ segs[i].to \in Nat /\ segs[i].from < segs[i].to /\ segs[i].to <= Len(text)
       /\ call.builder = "book" =>
            \A p \in 1 .. Len(text) :
              text[p] = "h" /\ segs[i].from < p /\ p <= segs[i].to => p = segs[i].from + 1
  /\ \A i \in 1 .. Len(segs) - 1 :
       segs[i + 1].from = segs[i].to /\ segs[i + 1].chapter # segs[i].chapter /\ call.builder = "book"
  /\ segs[Len(segs)].to = Len(text)
  /\ \A p \in 1 .. segs[1].from : call.builder = "book" /\ Blank(SubSeq(text, 1, p))

\* A text without chapters is one segment.
LEMMA OneSegment ==
  ASSUME NEW text \in Seq(Token), text # <<>>, call.builder # "book" \/ Headings(text) = {}
  PROVE  Segmented(Segments(text), text)
<1> DEFINE n == Len(text)
           segs == <<[from |-> 0, to |-> n, chapter |-> 1]>>
<1>1. n \in Nat \ {0}
  BY LenProperties, EmptySeq
<1>2. Segments(text) = segs
  BY DEF Segments
<1>3. \A p \in 1 .. n : call.builder = "book" => text[p] # "h"
  <2>1. ASSUME NEW p \in 1 .. n, text[p] = "h" PROVE p - 1 \in Headings(text)
    BY <1>1, <2>1 DEF Headings
  <2> QED
    BY <2>1
<1> HIDE DEF n
<1>4. /\ Len(segs) = 1 /\ DOMAIN segs = 1 .. 1 /\ segs # <<>>
      /\ segs[1].from = 0 /\ segs[1].to = n
  OBVIOUS
<1>5. segs = [i \in 1 .. 1 |-> segs[i]]
  OBVIOUS
<1> HIDE DEF segs
<1>6. Listed(segs)
  BY <1>4, <1>5 DEF Listed
<1> QED
  BY <1>1, <1>2, <1>3, <1>4, <1>6 DEF Segmented, n

\* The chapters run from heading to heading and the last to the end, each with one heading, its first character.
LEMMA ChaptersAre ==
  ASSUME NEW text \in Seq(Token), Headings(text) # {}
  PROVE  LET c == Chapters(text)
             m == Len(c)
         IN  /\ Listed(c) /\ m \in Nat \ {0}
             /\ \A i \in 1 .. m :
                  /\ c[i].from \in Nat /\ c[i].to \in Nat /\ c[i].from < c[i].to /\ c[i].to <= Len(text)
                  /\ c[i].chapter = i
                  /\ \A p \in 1 .. Len(text) : text[p] = "h" /\ c[i].from < p /\ p <= c[i].to => p = c[i].from + 1
             /\ \A i \in 1 .. m - 1 : c[i + 1].from = c[i].to
             /\ c[m].to = Len(text)
             /\ \A p \in 1 .. Len(text) : text[p] = "h" => c[1].from < p
<1> DEFINE n == Len(text)
           H == Headings(text)
           s == InOrder(H)
           m == Len(s)
           end(i) == IF i = m THEN n ELSE s[i + 1]
           c == Chapters(text)
<1>1. n \in Nat
  BY LenProperties
<1>2. H \in SUBSET (0 .. n) /\ (\A p \in H : p < n /\ p \in Nat) /\ \A p \in 1 .. n : text[p] = "h" => p - 1 \in H
  BY <1>1 DEF Headings
<1> HIDE DEF H, n
<1>3. /\ DOMAIN s = 1 .. m /\ m \in Nat
      /\ \A i \in 1 .. m : s[i] \in H
      /\ \A i, j \in 1 .. m : i < j => s[i] < s[j]
      /\ \A x \in H : \E i \in 1 .. m : s[i] = x
  BY <1>1, <1>2, InOrderIs
<1>4. c = [i \in DOMAIN s |-> [from |-> s[i], to |-> end(i), chapter |-> i]]
  BY DEF Chapters, n, H
<1> HIDE DEF s, m, c
<1>5. m \in Nat \ {0}
  BY <1>3 DEF H
<1>6. DOMAIN c = 1 .. m /\ Len(c) = m
  <2>1. DOMAIN c = 1 .. m
    BY <1>3, <1>4
  <2> QED
    BY <1>3, <1>4, <2>1
<1>7. Listed(c)
  BY <1>3, <1>4, <1>6 DEF Listed
<1>8. ASSUME NEW i \in 1 .. m
      PROVE  /\ c[i].from = s[i] /\ c[i].to = end(i) /\ c[i].chapter = i
             /\ s[i] \in Nat /\ end(i) \in Nat /\ s[i] < end(i) /\ end(i) <= n
             /\ \A p \in 1 .. n : text[p] = "h" /\ s[i] < p /\ p <= end(i) => p = s[i] + 1
  <2>1. c[i].from = s[i] /\ c[i].to = end(i) /\ c[i].chapter = i
    BY <1>3, <1>4
  <2>2. s[i] \in H /\ s[i] \in Nat /\ s[i] < n
    BY <1>2, <1>3
  <2>3. CASE i = m
    <3>1. end(i) = n
      BY <2>3
    <3>2. ASSUME NEW p \in 1 .. n, text[p] = "h", s[i] < p PROVE p = s[i] + 1
      <4>1. PICK j \in 1 .. m : s[j] = p - 1
        BY <1>2, <1>3, <3>2
      <4>2. ~(j < i)
        <5>1. j < i => s[j] < s[i]
          BY <1>3
        <5>2. ~(p - 1 < s[i])
          BY <1>1, <2>2, <3>2
        <5> QED
          BY <4>1, <5>1, <5>2
      <4>3. j = i
        BY <1>3, <2>3, <4>2
      <4> QED
        BY <4>1, <4>3
    <3> QED
      BY <1>1, <2>1, <2>2, <3>1, <3>2
  <2>4. CASE i # m
    <3>1. i + 1 \in 1 .. m /\ end(i) = s[i + 1]
      BY <1>3, <2>4
    <3>2. s[i + 1] \in Nat /\ s[i + 1] < n /\ s[i] < s[i + 1]
      <4>1. s[i + 1] \in H
        BY <1>3, <3>1
      <4>2. i < i + 1 /\ i \in 1 .. m
        BY <1>3
      <4>3. s[i] < s[i + 1]
        BY <1>3, <3>1, <4>2
      <4> QED
        BY <1>2, <4>1, <4>3
    <3>3. ASSUME NEW p \in 1 .. n, text[p] = "h", s[i] < p, p <= s[i + 1] PROVE p = s[i] + 1
      <4>1. PICK j \in 1 .. m : s[j] = p - 1
        BY <1>2, <1>3, <3>3
      <4>2. ~(j < i)
        <5>1. j < i => s[j] < s[i]
          BY <1>3
        <5>2. ~(p - 1 < s[i])
          BY <1>1, <2>2, <3>3
        <5> QED
          BY <4>1, <5>1, <5>2
      <4>3. ~(i + 1 < j) /\ j # i + 1
        <5>1. i + 1 < j => s[i + 1] < s[j]
          BY <1>3, <3>1
        <5>2. p - 1 < s[i + 1]
          BY <3>2, <3>3
        <5> QED
          BY <3>2, <4>1, <5>1, <5>2
      <4>4. j = i
        BY <1>3, <4>2, <4>3
      <4> QED
        BY <4>1, <4>4
    <3> QED
      BY <1>1, <2>1, <2>2, <3>1, <3>2, <3>3
  <2> QED
    BY <2>3, <2>4
<1>9. ASSUME NEW i \in 1 .. m - 1 PROVE c[i + 1].from = c[i].to
  <2>1. i \in 1 .. m /\ i + 1 \in 1 .. m /\ i # m
    BY <1>3
  <2>2. c[i].to = end(i) /\ c[i + 1].from = s[i + 1]
    BY <1>8, <2>1
  <2> QED
    BY <2>1, <2>2
<1>10. c[m].to = n
  BY <1>5, <1>8
<1>11. ASSUME NEW p \in 1 .. n, text[p] = "h" PROVE c[1].from < p
  <2>1. PICK j \in 1 .. m : s[j] = p - 1
    BY <1>2, <1>3, <1>11
  <2>2. 1 \in 1 .. m /\ (j = 1 \/ 1 < j)
    BY <1>5
  <2>3. c[1].from = s[1] /\ s[1] \in Nat
    BY <1>8, <2>2
  <2>4. s[1] <= p - 1
    BY <1>1, <1>3, <2>1, <2>2, <2>3
  <2> QED
    BY <1>1, <2>3, <2>4
<1> HIDE DEF end
<1>12. \A i \in 1 .. m : /\ c[i].from \in Nat /\ c[i].to \in Nat /\ c[i].from < c[i].to /\ c[i].to <= n
                         /\ c[i].chapter = i
                         /\ \A p \in 1 .. n : text[p] = "h" /\ c[i].from < p /\ p <= c[i].to => p = c[i].from + 1
  BY <1>8
<1> QED
  BY <1>5, <1>6, <1>7, <1>9, <1>10, <1>11, <1>12 DEF c, n

\* The segments of a text are those of a whole one (detectBookSegments).
LEMMA SegmentsAre ==
  ASSUME NEW text \in Seq(Token), text # <<>>
  PROVE  Segmented(Segments(text), text)
<1>1. CASE call.builder # "book" \/ Headings(text) = {}
  BY <1>1, OneSegment
<1>2. CASE call.builder = "book" /\ Headings(text) # {}
  <2> DEFINE c == Chapters(text)
             m == Len(c)
             n == Len(text)
             f == c[1].from
             front == [from |-> 0, to |-> f, chapter |-> 0]
             segs == Segments(text)
  <2>1. /\ Listed(c) /\ m \in Nat \ {0}
        /\ \A i \in 1 .. m :
             /\ c[i].from \in Nat /\ c[i].to \in Nat /\ c[i].from < c[i].to /\ c[i].to <= n
             /\ c[i].chapter = i
             /\ \A p \in 1 .. n : text[p] = "h" /\ c[i].from < p /\ p <= c[i].to => p = c[i].from + 1
        /\ \A i \in 1 .. m - 1 : c[i + 1].from = c[i].to
        /\ c[m].to = n
        /\ \A p \in 1 .. n : text[p] = "h" => c[1].from < p
    BY <1>2, ChaptersAre
  <2>2. segs = (IF Blank(SubSeq(text, 1, f)) THEN <<>> ELSE <<front>>) \o c
    BY <1>2 DEF Segments
  <2>3. n \in Nat
    BY LenProperties
  <2> DEFINE S == {c[i] : i \in 1 .. m} \cup {front}
  <2>4. c \in Seq(S)
    <3>1. \A i \in 1 .. m : c[i] \in S
      OBVIOUS
    <3>2. m \in Nat /\ c = [i \in 1 .. m |-> c[i]]
      BY <2>1 DEF Listed
    <3> HIDE DEF S, m, c
    <3> QED
      BY <3>1, <3>2
  <2>5. front \in S
    OBVIOUS
  <2>6. f \in 0 .. n
    BY <2>1, <2>3
  <2> DEFINE d == front
  <2>7. d.from = 0 /\ d.to = f /\ d.chapter = 0
    OBVIOUS
  <2> HIDE DEF S, segs, d, m, n, c
  <2>8. CASE Blank(SubSeq(text, 1, f))
    <3>1. segs = c
      <4>1. segs = <<>> \o c
        BY <2>2, <2>8
      <4> QED
        BY <2>4, <4>1, ConcatEmptySeq
    <3>2. \A p \in 1 .. f : Blank(SubSeq(text, 1, p))
      <4>1. \A i \in 1 .. f : text[i] = "s"
        BY <2>6, <2>8, BlankPrefix DEF n
      <4>2. ASSUME NEW p \in 1 .. f PROVE Blank(SubSeq(text, 1, p))
        <5>1. p \in 0 .. n /\ \A i \in 1 .. p : text[i] = "s"
          BY <2>3, <2>6, <4>1
        <5> QED
          BY <5>1, BlankPrefix DEF n
      <4> QED
        BY <4>2
    <3>3. c # <<>>
      BY <2>1 DEF m
    <3>4. \A i \in 1 .. m - 1 : c[i + 1].from = c[i].to /\ c[i + 1].chapter # c[i].chapter
      <4>1. ASSUME NEW i \in 1 .. m - 1 PROVE c[i + 1].chapter = i + 1 /\ c[i].chapter = i /\ i + 1 # i
        BY <2>1
      <4> QED
        BY <2>1, <4>1
    <3>5. Segmented(c, text)
      BY <1>2, <2>1, <3>2, <3>3, <3>4 DEF Segmented, m, n
    <3> QED
      BY <3>1, <3>5 DEF segs
  <2>9. CASE ~Blank(SubSeq(text, 1, f))
    <3>1. segs = <<d>> \o c
      BY <2>2, <2>9 DEF d
    <3>2. <<d>> \in Seq(S) /\ Len(<<d>>) = 1 /\ <<d>>[1] = d
      BY <2>5 DEF d
    <3>3. /\ segs \in Seq(S) /\ Len(segs) = 1 + m
          /\ \A i \in 1 .. 1 + m : segs[i] = IF i <= 1 THEN d ELSE c[i - 1]
      <4> DEFINE e == <<d>>
      <4>1. e \in Seq(S) /\ Len(e) = 1 /\ e[1] = d /\ segs = e \o c
        BY <3>1, <3>2
      <4> HIDE DEF e
      <4>2. /\ e \o c \in Seq(S) /\ Len(e \o c) = Len(e) + Len(c)
            /\ \A i \in 1 .. Len(e) + Len(c) : (e \o c)[i] = IF i <= Len(e) THEN e[i] ELSE c[i - Len(e)]
        BY <2>4, <4>1, ConcatProperties
      <4>3. ASSUME NEW i \in 1 .. 1 + m PROVE segs[i] = IF i <= 1 THEN d ELSE c[i - 1]
        <5>1. segs[i] = IF i <= 1 THEN e[i] ELSE c[i - 1]
          BY <4>1, <4>2 DEF m
        <5>2. i <= 1 => i = 1
          BY <2>1
        <5> QED
          BY <4>1, <5>1, <5>2
      <4> QED
        BY <4>1, <4>2, <4>3 DEF m
    <3>4. f # 0
      <4>1. f = 0 => Blank(SubSeq(text, 1, f))
        BY <2>6, BlankPrefix DEF n
      <4> QED
        BY <2>9, <4>1
    <3>5. Listed(segs)
      <4>1. segs \in [1 .. Len(segs) -> S] /\ Len(segs) \in Nat
        BY <3>3, LenProperties
      <4> QED
        BY <4>1 DEF Listed
    <3>6. segs[1] = d /\ \A i \in 1 .. m : segs[i + 1] = c[i]
      <4>1. 1 \in 1 .. 1 + m
        BY <2>1
      <4>2. ASSUME NEW i \in 1 .. m PROVE i + 1 \in 1 .. 1 + m /\ ~(i + 1 <= 1) /\ (i + 1) - 1 = i
        BY <2>1
      <4> QED
        BY <3>3, <4>1, <4>2
    <3>7. ASSUME NEW i \in 1 .. 1 + m
          PROVE  /\ segs[i].from \in Nat /\ segs[i].to \in Nat /\ segs[i].from < segs[i].to /\ segs[i].to <= n
                 /\ segs[i].chapter = i - 1
                 /\ \A p \in 1 .. n : text[p] = "h" /\ segs[i].from < p /\ p <= segs[i].to => p = segs[i].from + 1
      <4>1. CASE i = 1
        <5>1. \A p \in 1 .. n : text[p] = "h" => ~(p <= f)
          <6>1. ASSUME NEW p \in 1 .. n, text[p] = "h" PROVE f < p
            BY <2>1, <6>1 DEF n
          <6> QED
            BY <2>6, <6>1
        <5> QED
          BY <2>3, <2>6, <2>7, <3>4, <3>6, <4>1, <5>1
      <4>2. CASE i # 1
        <5>1. i - 1 \in 1 .. m /\ (i - 1) + 1 = i
          BY <2>1, <4>2
        <5>2. segs[i] = c[i - 1]
          BY <3>6, <5>1
        <5> QED
          BY <2>1, <5>1, <5>2
      <4> QED
        BY <4>1, <4>2
    <3>8. ASSUME NEW i \in 1 .. m
          PROVE  segs[i + 1].from = segs[i].to /\ segs[i + 1].chapter # segs[i].chapter
      <4>1. i \in 1 .. 1 + m /\ i + 1 \in 1 .. 1 + m
        BY <2>1
      <4>2. segs[i + 1].chapter = (i + 1) - 1 /\ segs[i].chapter = i - 1 /\ (i + 1) - 1 # i - 1
        BY <3>7, <4>1
      <4>3. segs[i + 1].from = segs[i].to
        <5>1. CASE i = 1
          BY <2>7, <3>6, <5>1
        <5>2. CASE i # 1
          <6>1. i - 1 \in 1 .. m - 1 /\ (i - 1) + 1 = i /\ i - 1 \in 1 .. m
            BY <2>1, <5>2
          <6>2. segs[i] = c[i - 1] /\ segs[i + 1] = c[i]
            BY <3>6, <6>1
          <6> QED
            BY <2>1, <6>1, <6>2
        <5> QED
          BY <5>1, <5>2
      <4> QED
        BY <4>2, <4>3
    <3>9. segs[1 + m].to = n
      <4>1. m \in 1 .. m /\ 1 + m = m + 1
        BY <2>1
      <4> QED
        BY <2>1, <3>6, <4>1
    <3>10. segs # <<>> /\ Len(segs) \in Nat \ {0} /\ Len(segs) - 1 = m
      BY <2>1, <3>3
    <3>11. \A p \in 1 .. segs[1].from : FALSE
      BY <2>7, <3>6
    <3> QED
      BY <1>2, <3>3, <3>5, <3>7, <3>8, <3>9, <3>10, <3>11 DEF Segmented, n, segs
  <2> QED
    BY <2>8, <2>9
<1> QED
  BY <1>1, <1>2

-----------------------------------------------------------------------------
(* The loop that cuts                                                      *)

Holds(shards, i, p) == shards[i].bounds.start_char < p /\ p <= shards[i].bounds.end_char

\* One shard is its part of the text, and no heading is in it but at its start.
CutPart(shard, text, digest) ==
  LET b == shard.bounds
  IN  /\ DOMAIN shard = {"source", "text", "bounds"} /\ shard.source = 1
      /\ {"start_char", "end_char", "source_sha256", "shard_sha256"} \subseteq DOMAIN b
      /\ DOMAIN b \subseteq {"start_char", "end_char", "source_sha256", "shard_sha256",
                             "chapter", "source_lang", "target_lang"}
      /\ call.builder = "book" => "chapter" \in DOMAIN b
      /\ call.builder = "translation" => {"source_lang", "target_lang"} \subseteq DOMAIN b
      /\ b.start_char \in Nat /\ b.end_char \in Nat /\ b.start_char < b.end_char /\ b.end_char <= Len(text)
      /\ shard.text = SubSeq(text, b.start_char + 1, b.end_char)
      /\ b.shard_sha256 = shard.text /\ b.source_sha256 = digest
      /\ call.builder = "book" =>
           \A p \in 1 .. Len(text) :
             text[p] = "h" /\ b.start_char < p /\ p <= b.end_char => p = b.start_char + 1

CutFollows(a, b) ==
  IF call.builder = "book" /\ a.chapter # b.chapter
  THEN b.start_char >= a.end_char
  ELSE b.start_char + call.overlap = a.end_char /\ b.end_char > a.end_char

\* The text is cut as far as this.
CutTo(shards, text, digest, reach) ==
  /\ Listed(shards)
  /\ \A i \in 1 .. Len(shards) : CutPart(shards[i], text, digest)
  /\ \A i \in 1 .. Len(shards) - 1 : CutFollows(shards[i].bounds, shards[i + 1].bounds)
  /\ \A p \in 1 .. reach :
       (call.builder = "book" /\ Blank(SubSeq(text, 1, p))) \/ \E i \in 1 .. Len(shards) : Holds(shards, i, p)

\* What the bound on the plan counts for the first k segments.
CountTo(segs, k) == Sum([i \in 1 .. k |-> ShardCount(segs[i].to - segs[i].from)])
CharsTo(segs, k) == Sum([i \in 1 .. k |-> Materialised(segs[i].to - segs[i].from)])
Chars(shards) == Sum([i \in DOMAIN shards |-> Len(shards[i].text)])

\* The locals of the loop.
Cutting(w) ==
  LET segs == Segments(w.text)
      k    == Len(segs) - Len(w.segments)
      seg  == w.segments[1]
      size == Len(w.shards)
      last == w.shards[size].bounds
      rest == seg.to - seg.from - w.at
  IN  /\ DOMAIN w = {"text", "digest", "at", "segments", "shards"}
      /\ w.text \in Seq(Token) /\ w.text # <<>>
      /\ w.text = (IF call.builder \in {"text", "translation"} THEN w.digest ELSE Decoded(w.digest))
      /\ Segmented(segs, w.text) /\ PlanBounded(segs)
      /\ Listed(w.segments) /\ w.segments # <<>> /\ Len(w.segments) \in 1 .. Len(segs)
      /\ \A i \in 1 .. Len(w.segments) : w.segments[i] = segs[k + i]
      /\ w.at \in Nat /\ seg.from + w.at < seg.to
      /\ CutTo(w.shards, w.text, w.digest, IF w.at = 0 THEN seg.from ELSE seg.from + w.at + call.overlap)
      /\ w.at = 0 /\ w.shards # <<>> =>
           call.builder = "book" /\ last.end_char = seg.from /\ last.chapter # seg.chapter
      /\ w.at # 0 =>
           /\ w.shards # <<>> /\ last.end_char = seg.from + w.at + call.overlap /\ last.end_char < seg.to
           /\ call.builder = "book" => last.chapter = seg.chapter
      /\ size + ShardCount(rest) = CountTo(segs, k + 1)
      /\ Chars(w.shards) \in Nat /\ Chars(w.shards) + Materialised(rest) = CharsTo(segs, k + 1)

CutInv ==
  stage \in {"read", "cutting"} =>
    /\ Cutting(work)
    /\ edits = 0 /\ FromFile => work.digest = DigestOf(disk[call.path].bytes)

\* These depend on the call alone.
LEMMA OfTheCall ==
  ASSUME UNCHANGED call
  PROVE  /\ \A t : Segments(t)' = Segments(t) /\ PlanBounded(t)' = PlanBounded(t) /\ Decoded(t)' = Decoded(t)
         /\ \A n : ShardCount(n)' = ShardCount(n) /\ Materialised(n)' = Materialised(n)
         /\ \A s, k : CountTo(s, k)' = CountTo(s, k) /\ CharsTo(s, k)' = CharsTo(s, k)
         /\ \A s, t : Segmented(s, t) => Segmented(s, t)'
         /\ \A s, t, d, r : CutTo(s, t, d, r) => CutTo(s, t, d, r)'
<1>1. ASSUME NEW t PROVE Segments(t)' = Segments(t)
  BY DEF Segments, Chapters
<1>2. ASSUME NEW t PROVE PlanBounded(t)' = PlanBounded(t)
  BY DEF PlanBounded, SumOver, ShardCount, Materialised, Step
<1>3. ASSUME NEW t PROVE Decoded(t)' = Decoded(t)
  BY DEF Decoded, FromFile
<1>4. ASSUME NEW n PROVE ShardCount(n)' = ShardCount(n) /\ Materialised(n)' = Materialised(n)
  BY DEF ShardCount, Materialised, Step
<1>5. ASSUME NEW s, NEW k PROVE CountTo(s, k)' = CountTo(s, k)
  BY DEF CountTo, ShardCount, Step
<1>6. ASSUME NEW s, NEW k PROVE CharsTo(s, k)' = CharsTo(s, k)
  BY DEF CharsTo, Materialised, ShardCount, Step
<1>7. ASSUME NEW s, NEW t, Segmented(s, t) PROVE Segmented(s, t)'
  BY <1>7 DEF Segmented
<1>8. ASSUME NEW s, NEW t, NEW d, NEW r, CutTo(s, t, d, r) PROVE CutTo(s, t, d, r)'
  BY <1>8 DEF CutTo, CutPart, CutFollows
<1> QED
  BY <1>1, <1>2, <1>3, <1>4, <1>5, <1>6, <1>7, <1>8

\* What the loop keeps says nothing of the state beyond the call.
LEMMA CuttingStays ==
  ASSUME NEW w, Cutting(w), UNCHANGED call, work' = w
  PROVE  Cutting(work)'
<1> DEFINE segs == Segments(w.text)
           k == Len(segs) - Len(w.segments)
           seg == w.segments[1]
           rest == seg.to - seg.from - w.at
           reach == IF w.at = 0 THEN seg.from ELSE seg.from + w.at + call.overlap
<1>1. /\ Segments(work.text)' = segs /\ PlanBounded(segs)' = PlanBounded(segs)
      /\ Decoded(work.digest)' = Decoded(w.digest)
      /\ ShardCount(rest)' = ShardCount(rest) /\ Materialised(rest)' = Materialised(rest)
      /\ CountTo(segs, k + 1)' = CountTo(segs, k + 1) /\ CharsTo(segs, k + 1)' = CharsTo(segs, k + 1)
      /\ Segmented(segs, w.text)' /\ CutTo(w.shards, w.text, w.digest, reach)'
  BY OfTheCall DEF Cutting
<1> QED
  BY <1>1 DEF Cutting

\* The shard of a part.
LEMMA ShardIs ==
  ASSUME call.builder \in Cutters, work.text \in Seq(Token), NEW seg, NEW from \in Nat, NEW to \in Nat,
         from < to, to <= Len(work.text),
         call.builder = "book" =>
           \A p \in 1 .. Len(work.text) : work.text[p] = "h" /\ from < p /\ p <= to => p = from + 1
  PROVE  LET new == ShardOf(seg, from, to)
         IN  /\ CutPart(new, work.text, work.digest)
             /\ new.bounds.start_char = from /\ new.bounds.end_char = to
             /\ call.builder = "book" => new.bounds.chapter = seg.chapter
             /\ Len(new.text) = to - from
<1> DEFINE text == work.text
           sha == work.digest
           x == SubSeq(text, from + 1, to)
           b == [start_char |-> from, end_char |-> to, source_sha256 |-> sha, shard_sha256 |-> x]
           cut == [source |-> 1, text |-> x, bounds |-> b]
           more == CASE call.builder = "text" -> <<>>
                     [] call.builder = "book" -> [chapter |-> seg.chapter]
                     [] call.builder = "translation" ->
                          [source_lang |-> call.languages[1], target_lang |-> call.languages[2]]
           new == ShardOf(seg, from, to)
           c == new.bounds
<1>1. Len(x) = to - from
  <2>1. Len(text) \in Nat /\ \A i \in from + 1 .. to : text[i] \in Token
    <3>1. Len(text) \in Nat
      BY LenProperties
    <3>2. ASSUME NEW i \in from + 1 .. to PROVE text[i] \in Token
      BY <3>1, ElementOfSeq
    <3> QED
      BY <3>1, <3>2
  <2> HIDE DEF text
  <2>2. x \in Seq(Token) /\ Len(x) = IF from + 1 <= to THEN to - (from + 1) + 1 ELSE 0
    BY <2>1, SubSeqProperties
  <2> HIDE DEF x
  <2> QED
    BY <2>2
<1>2. CutShard(from, to) = cut
  BY DEF CutShard
<1> HIDE DEF x
<1>3. /\ DOMAIN b = {"start_char", "end_char", "source_sha256", "shard_sha256"}
      /\ b["start_char"] = from /\ b["end_char"] = to /\ b["source_sha256"] = sha /\ b["shard_sha256"] = x
  OBVIOUS
<1> HIDE DEF b
<1>4. cut.bounds = b /\ cut.text = x /\ cut.source = 1 /\ DOMAIN cut = {"source", "text", "bounds"}
  OBVIOUS
<1>5. /\ DOMAIN new = {"source", "text", "bounds"} /\ new.source = 1 /\ new.text = x
      /\ call.builder # "text" => c = Joined(more, b)
      /\ call.builder = "text" => c = b
  <2>1. CASE call.builder = "text"
    BY <1>2, <1>4, <2>1 DEF ShardOf, TextShard
  <2>2. CASE call.builder # "text"
    <3>1. new = With(cut, more)
      BY <1>2, <2>2 DEF ShardOf, BookShardOf, TranslationShardOf, Cutters
    <3> DEFINE j == Joined(more, cut.bounds)
    <3>2. new = [cut EXCEPT !.bounds = j]
      BY <3>1 DEF With
    <3> HIDE DEF j
    <3>3. new = [source |-> 1, text |-> x, bounds |-> j]
      BY <3>2
    <3> HIDE DEF new
    <3>4. DOMAIN new = {"source", "text", "bounds"} /\ new.source = 1 /\ new.text = x /\ new.bounds = j
      BY <3>3
    <3> QED
      BY <1>4, <2>2, <3>4 DEF j
  <2> QED
    BY <2>1, <2>2
<1>6. /\ call.builder = "book" => DOMAIN more = {"chapter"} /\ more["chapter"] = seg.chapter
      /\ call.builder = "translation" => DOMAIN more = {"source_lang", "target_lang"}
  OBVIOUS
<1> HIDE DEF more, cut, new
<1>7. /\ {"start_char", "end_char", "source_sha256", "shard_sha256"} \subseteq DOMAIN c
      /\ DOMAIN c \subseteq {"start_char", "end_char", "source_sha256", "shard_sha256",
                             "chapter", "source_lang", "target_lang"}
      /\ call.builder = "book" => "chapter" \in DOMAIN c /\ c["chapter"] = seg.chapter
      /\ call.builder = "translation" => {"source_lang", "target_lang"} \subseteq DOMAIN c
      /\ c["start_char"] = from /\ c["end_char"] = to /\ c["source_sha256"] = sha /\ c["shard_sha256"] = x
  <2> HIDE DEF c
  <2>1. CASE call.builder = "text"
    BY <1>3, <1>5, <2>1
  <2>2. CASE call.builder # "text"
    <3>1. call.builder \in {"book", "translation"}
      BY <2>2 DEF Cutters
    <3>2. /\ DOMAIN c = DOMAIN more \cup DOMAIN b
          /\ \A y \in DOMAIN more : c[y] = more[y]
          /\ \A y \in DOMAIN b \ DOMAIN more : c[y] = b[y]
      BY <1>5, <2>2 DEF Joined
    <3>3. CASE call.builder = "book"
      <4>1. DOMAIN c = {"start_char", "end_char", "source_sha256", "shard_sha256", "chapter"}
        BY <1>3, <1>6, <3>2, <3>3
      <4>2. "chapter" \in DOMAIN more /\ {"start_char", "end_char", "source_sha256", "shard_sha256"} \subseteq DOMAIN b \ DOMAIN more
        BY <1>3, <1>6, <3>3
      <4> QED
        BY <1>3, <1>6, <3>2, <3>3, <4>1, <4>2
    <3>4. CASE call.builder = "translation"
      <4>1. DOMAIN c = {"start_char", "end_char", "source_sha256", "shard_sha256", "source_lang", "target_lang"}
        BY <1>3, <1>6, <3>2, <3>4
      <4>2. {"start_char", "end_char", "source_sha256", "shard_sha256"} \subseteq DOMAIN b \ DOMAIN more
        BY <1>3, <1>6, <3>4
      <4> QED
        BY <1>3, <3>2, <3>4, <4>1, <4>2
    <3> QED
      BY <3>1, <3>3, <3>4
  <2> QED
    BY <2>1, <2>2
<1>8. CutPart(new, text, sha)
  BY <1>5, <1>7 DEF CutPart, x
<1> QED
  BY <1>1, <1>5, <1>7, <1>8 DEF new

\* One more shard that begins where the text is covered to, and follows the last one, covers it to its own end.
LEMMA CutOnce ==
  ASSUME NEW shards, NEW text, NEW digest, NEW reach \in Nat, CutTo(shards, text, digest, reach),
         NEW new, CutPart(new, text, digest), new.bounds.start_char <= reach,
         shards # <<>> => CutFollows(shards[Len(shards)].bounds, new.bounds)
  PROVE  LET more == Append(shards, new)
             n == Len(shards)
         IN  /\ CutTo(more, text, digest, new.bounds.end_char)
             /\ Len(more) = n + 1 /\ n \in Nat /\ more[n + 1] = new /\ more # <<>>
             /\ Chars(more) = Chars(shards) + Len(new.text)
<1> DEFINE more == Append(shards, new)
           n == Len(shards)
<1>1. Listed(shards)
  BY DEF CutTo
<1>2. /\ Listed(more) /\ Len(more) = n + 1
      /\ \A i \in 1 .. n : more[i] = shards[i]
      /\ more[n + 1] = new
  BY <1>1, AppendListed
<1>3. n \in Nat /\ DOMAIN shards = 1 .. n
  BY <1>1 DEF Listed
<1>4. DOMAIN more = 1 .. n + 1
  BY <1>2 DEF Listed
<1> HIDE DEF more
<1>5. Chars(more) = Chars(shards) + Len(new.text)
  <2> DEFINE s == [i \in DOMAIN more |-> Len(more[i].text)]
             r == [i \in DOMAIN shards |-> Len(shards[i].text)]
  <2>1. DOMAIN s = 1 .. n + 1 /\ DOMAIN r = 1 .. n /\ (\A i \in 1 .. n : r[i] = s[i]) /\ s[n + 1] = Len(new.text)
    <3>1. DOMAIN s = 1 .. n + 1 /\ DOMAIN r = 1 .. n
      BY <1>3, <1>4
    <3>2. \A i \in 1 .. n : r[i] = s[i]
      BY <1>2, <1>3, <1>4
    <3>3. n + 1 \in DOMAIN s
      BY <1>3, <3>1
    <3> QED
      BY <1>2, <3>1, <3>2, <3>3
  <2> HIDE DEF s, r
  <2>2. Sum(s) = Sum(r) + s[n + 1]
    BY <1>3, <2>1, SumUnfolds
  <2> QED
    BY <2>1, <2>2 DEF Chars, s, r
<1>6. \A i \in 1 .. n + 1 : CutPart(more[i], text, digest)
  <2>1. \A i \in 1 .. n + 1 : i \in 1 .. n \/ i = n + 1
    BY <1>3
  <2>2. \A i \in 1 .. n : CutPart(shards[i], text, digest)
    BY DEF CutTo
  <2> QED
    BY <1>2, <2>1, <2>2
<1>7. ASSUME NEW i \in 1 .. n PROVE CutFollows(more[i].bounds, more[i + 1].bounds)
  <2>1. CASE i = n
    <3>1. shards # <<>>
      BY <1>3, <2>1
    <3> QED
      BY <1>2, <2>1, <3>1
  <2>2. CASE i # n
    <3>1. i \in 1 .. n - 1 /\ i + 1 \in 1 .. n
      <4> HIDE DEF n
      <4> QED
        BY <1>3, <2>2
    <3>2. CutFollows(shards[i].bounds, shards[i + 1].bounds)
      BY <3>1 DEF CutTo
    <3> QED
      BY <1>2, <3>1, <3>2
  <2> QED
    BY <2>1, <2>2
<1>8. ASSUME NEW p \in 1 .. new.bounds.end_char
      PROVE  (call.builder = "book" /\ Blank(SubSeq(text, 1, p))) \/ \E i \in 1 .. n + 1 : Holds(more, i, p)
  <2>1. new.bounds.start_char \in Nat /\ new.bounds.end_char \in Nat
    BY DEF CutPart
  <2>2. CASE p <= reach
    <3>1. p \in 1 .. reach
      BY <2>1, <2>2
    <3>2. CASE call.builder = "book" /\ Blank(SubSeq(text, 1, p))
      BY <3>2
    <3>3. CASE \E i \in 1 .. n : Holds(shards, i, p)
      <4>1. PICK i \in 1 .. n : Holds(shards, i, p)
        BY <3>3
      <4>2. i \in 1 .. n + 1 /\ Holds(more, i, p)
        BY <1>2, <1>3, <4>1 DEF Holds
      <4> QED
        BY <4>2
    <3> QED
      BY <3>1, <3>2, <3>3 DEF CutTo
  <2>3. CASE ~(p <= reach)
    <3>1. Holds(more, n + 1, p)
      BY <1>2, <2>1, <2>3 DEF Holds
    <3>2. n + 1 \in 1 .. n + 1
      BY <1>3
    <3> QED
      BY <3>1, <3>2
  <2> QED
    BY <2>2, <2>3
<1>9. CutTo(more, text, digest, new.bounds.end_char)
  <2>1. Len(more) - 1 = n
    BY <1>2, <1>3
  <2> QED
    BY <1>2, <1>6, <1>7, <1>8, <2>1 DEF CutTo
<1>10. more # <<>>
  BY <1>2, <1>3
<1> QED
  BY <1>2, <1>3, <1>5, <1>9, <1>10 DEF more

\* The counts of one segment more.
LEMMA SumsGrow ==
  ASSUME NEW segs
  PROVE  /\ CountTo(segs, 0) = 0 /\ CharsTo(segs, 0) = 0
         /\ \A k \in Nat :
              /\ CountTo(segs, k + 1) = CountTo(segs, k) + ShardCount(segs[k + 1].to - segs[k + 1].from)
              /\ CharsTo(segs, k + 1) = CharsTo(segs, k) + Materialised(segs[k + 1].to - segs[k + 1].from)
<1> DEFINE Counts(k) == [i \in 1 .. k |-> ShardCount(segs[i].to - segs[i].from)]
           Lens(k) == [i \in 1 .. k |-> Materialised(segs[i].to - segs[i].from)]
<1>1. Counts(0) = <<>> /\ Lens(0) = <<>>
  OBVIOUS
<1>2. ASSUME NEW k \in Nat
      PROVE  /\ DOMAIN Counts(k + 1) = 1 .. k + 1 /\ DOMAIN Counts(k) = 1 .. k
             /\ DOMAIN Lens(k + 1) = 1 .. k + 1 /\ DOMAIN Lens(k) = 1 .. k
             /\ \A i \in 1 .. k : Counts(k)[i] = Counts(k + 1)[i] /\ Lens(k)[i] = Lens(k + 1)[i]
             /\ Counts(k + 1)[k + 1] = ShardCount(segs[k + 1].to - segs[k + 1].from)
             /\ Lens(k + 1)[k + 1] = Materialised(segs[k + 1].to - segs[k + 1].from)
  <2>1. k + 1 \in 1 .. k + 1 /\ \A i \in 1 .. k : i \in 1 .. k + 1
    OBVIOUS
  <2> QED
    BY <2>1
<1>3. \A k : CountTo(segs, k) = Sum(Counts(k)) /\ CharsTo(segs, k) = Sum(Lens(k))
  BY DEF CountTo, CharsTo
<1> HIDE DEF Counts, Lens
<1>4. ASSUME NEW k \in Nat
      PROVE  /\ Sum(Counts(k + 1)) = Sum(Counts(k)) + Counts(k + 1)[k + 1]
             /\ Sum(Lens(k + 1)) = Sum(Lens(k)) + Lens(k + 1)[k + 1]
  BY <1>2, SumUnfolds
<1> QED
  BY <1>1, <1>2, <1>3, <1>4, SumOfNone

\* What Tail does to a sequence whatever its elements are.
LEMMA ListedTail ==
  ASSUME NEW s, Listed(s), s # <<>>
  PROVE  /\ Len(s) \in Nat \ {0} /\ Head(s) = s[1]
         /\ Listed(Tail(s)) /\ Len(Tail(s)) = Len(s) - 1
         /\ \A i \in 1 .. Len(s) - 1 : Tail(s)[i] = s[i + 1]
         /\ (Tail(s) = <<>> <=> Len(s) = 1)
<1> DEFINE S == {s[i] : i \in 1 .. Len(s)}
           t == Tail(s)
<1>1. s \in Seq(S)
  <2>1. Len(s) \in Nat /\ s = [i \in 1 .. Len(s) |-> s[i]] /\ \A i \in 1 .. Len(s) : s[i] \in S
    BY DEF Listed
  <2> HIDE DEF S
  <2> QED
    BY <2>1
<1> HIDE DEF S
<1>2. /\ t \in Seq(S) /\ Len(t) = Len(s) - 1 /\ Len(s) \in Nat \ {0}
      /\ \A i \in 1 .. Len(s) - 1 : t[i] = s[i + 1]
      /\ Head(s) = s[1]
  BY <1>1, TailOf
<1> HIDE DEF t
<1>3. Listed(t)
  <2>1. t \in [1 .. Len(t) -> S] /\ Len(t) \in Nat
    BY <1>2, LenProperties
  <2> QED
    BY <2>1 DEF Listed
<1>4. t = <<>> <=> Len(t) = 0
  BY <1>2, EmptySeq
<1> QED
  BY <1>2, <1>3, <1>4 DEF t

\* The chunk and the overlap are integers.
LEMMA CallTypes ==
  ASSUME BaseInv
  PROVE  call.chunk \in Int /\ call.overlap \in Int
  BY CallsAssumption DEF BaseInv, CallRecord

\* The next shard: from the start of the segment, or by a step after the last one, up to the
\* end of the chunk or of the segment.
LEMMA OneCut ==
  ASSUME BaseInv, call.builder \in Cutters, ChunkOptionsValid, Cutting(work)
  PROVE  LET segs == Segments(work.text)
             k    == Len(segs) - Len(work.segments)
             seg  == Head(work.segments)
             from == seg.from + work.at
             to   == IF from + call.chunk < seg.to THEN from + call.chunk ELSE seg.to
             new  == ShardOf(seg, from, to)
             more == Append(work.shards, new)
             size == Len(work.shards)
         IN  /\ k \in 0 .. Len(segs) - 1 /\ seg = work.segments[1] /\ seg = segs[k + 1]
             /\ seg.from \in Nat /\ seg.to \in Nat /\ seg.to <= Len(work.text)
             /\ from \in Nat /\ to \in Nat /\ from < to /\ to <= seg.to
             /\ CutTo(more, work.text, work.digest, to) /\ more # <<>>
             /\ size \in Nat /\ Len(more) = size + 1 /\ more[size + 1] = new
             /\ new.bounds.end_char = to /\ (call.builder = "book" => new.bounds.chapter = seg.chapter)
             /\ size + ShardCount(seg.to - from) = CountTo(segs, k + 1)
             /\ Chars(more) - (to - from) + Materialised(seg.to - from) = CharsTo(segs, k + 1)
             /\ Chars(more) \in Nat
<1> DEFINE segs == Segments(work.text)
           k    == Len(segs) - Len(work.segments)
           seg  == Head(work.segments)
           at   == work.at
           from == seg.from + at
           to   == IF from + call.chunk < seg.to THEN from + call.chunk ELSE seg.to
           new  == ShardOf(seg, from, to)
           more == Append(work.shards, new)
           size == Len(work.shards)
           reach == IF at = 0 THEN seg.from ELSE seg.from + at + call.overlap
           last == work.shards[size].bounds
           text == work.text
           sha == work.digest
<1>1. /\ text \in Seq(Token) /\ text # <<>> /\ Segmented(segs, text)
      /\ Listed(work.segments) /\ work.segments # <<>> /\ Len(work.segments) \in 1 .. Len(segs)
      /\ \A i \in 1 .. Len(work.segments) : work.segments[i] = segs[k + i]
  BY DEF Cutting
<1>2. /\ Step \in Nat \ {0} /\ Step <= call.chunk /\ call.chunk \in Nat \ {0} /\ call.overlap \in Nat
  BY CallTypes, CountOnce
<1>3. Len(segs) \in Nat /\ 1 \in 1 .. Len(work.segments) /\ k \in 0 .. Len(segs) - 1 /\ k + 1 \in 1 .. Len(segs)
  BY <1>1 DEF Segmented
<1>4. seg = work.segments[1] /\ seg = segs[k + 1]
  <2>1. work.segments[1] = segs[k + 1]
    BY <1>1, <1>3
  <2> QED
    BY <1>1, <2>1, ListedTail
<1>5. seg.from \in Nat /\ seg.to \in Nat /\ seg.from < seg.to /\ seg.to <= Len(text)
  BY <1>1, <1>3, <1>4 DEF Segmented
<1>6. /\ at \in Nat /\ from < seg.to
      /\ CutTo(work.shards, text, sha, reach)
      /\ at = 0 /\ work.shards # <<>> =>
           call.builder = "book" /\ last.end_char = seg.from /\ last.chapter # seg.chapter
      /\ at # 0 =>
           /\ work.shards # <<>> /\ last.end_char = from + call.overlap /\ last.end_char < seg.to
           /\ call.builder = "book" => last.chapter = seg.chapter
      /\ size + ShardCount(seg.to - seg.from - at) = CountTo(segs, k + 1)
      /\ Chars(work.shards) \in Nat /\ Chars(work.shards) + Materialised(seg.to - seg.from - at) = CharsTo(segs, k + 1)
  BY <1>4 DEF Cutting
<1> HIDE DEF segs, k, seg, at, text, sha, last
<1>7. from \in Nat /\ to \in Nat /\ from < to /\ to <= seg.to /\ reach \in Nat /\ from <= reach
  <2>1. from \in Nat /\ from < seg.to
    BY <1>5, <1>6
  <2>2. reach \in Nat /\ from <= reach
    <3>1. CASE at = 0
      BY <1>5, <3>1
    <3>2. CASE at # 0
      <4>1. reach = from + call.overlap
        BY <3>2
      <4> HIDE DEF from
      <4> QED
        BY <1>2, <2>1, <4>1
    <3> QED
      BY <3>1, <3>2
  <2> HIDE DEF from, reach
  <2>3. to \in Nat /\ from < to /\ to <= seg.to
    <3> DEFINE end == from + call.chunk
    <3>1. end \in Nat /\ from < end
      BY <1>2, <2>1
    <3> HIDE DEF end
    <3>2. to = IF end < seg.to THEN end ELSE seg.to
      BY DEF end
    <3> HIDE DEF to
    <3> QED
      BY <1>5, <2>1, <3>1, <3>2
  <2> QED
    BY <2>1, <2>2, <2>3
<1>8. call.builder = "book" =>
        \A p \in 1 .. Len(text) : text[p] = "h" /\ from < p /\ p <= to => p = from + 1
  <2>1. ASSUME call.builder = "book", NEW p \in 1 .. Len(text), text[p] = "h", from < p, p <= to
        PROVE  p = from + 1
    <3>1. Len(text) \in Nat
      BY <1>1, LenProperties
    <3>2. seg.from < p /\ p <= seg.to
      BY <1>5, <1>6, <1>7, <2>1, <3>1
    <3>3. p = seg.from + 1
      BY <1>1, <1>3, <1>4, <2>1, <3>2 DEF Segmented
    <3> QED
      BY <1>5, <1>6, <2>1, <3>3
  <2> QED
    BY <2>1
<1>9. to <= Len(text)
  <2>1. Len(text) \in Nat
    BY <1>1, LenProperties
  <2> QED
    BY <1>5, <1>7, <2>1
<1> HIDE DEF to, from, new, more
<1>10. /\ CutPart(new, text, sha) /\ new.bounds.start_char = from /\ new.bounds.end_char = to
       /\ call.builder = "book" => new.bounds.chapter = seg.chapter
       /\ Len(new.text) = to - from
  <2>1. /\ work.text \in Seq(Token) /\ to <= Len(work.text) /\ from \in Nat /\ to \in Nat /\ from < to
        /\ call.builder = "book" =>
             \A p \in 1 .. Len(work.text) : work.text[p] = "h" /\ from < p /\ p <= to => p = from + 1
    BY <1>1, <1>7, <1>8, <1>9 DEF text
  <2>2. LET n == ShardOf(seg, from, to)
        IN  /\ CutPart(n, work.text, work.digest)
            /\ n.bounds.start_char = from /\ n.bounds.end_char = to
            /\ call.builder = "book" => n.bounds.chapter = seg.chapter
            /\ Len(n.text) = to - from
    BY <2>1, ShardIs
  <2> QED
    BY <2>2 DEF new, text, sha
<1>11. work.shards # <<>> => CutFollows(last, new.bounds)
  <2>1. CASE at = 0
    BY <1>5, <1>6, <1>10, <2>1 DEF CutFollows, from
  <2>2. CASE at # 0
    <3>1. last.end_char < to
      BY <1>2, <1>6, <1>7, <2>2 DEF to, ChunkOptionsValid
    <3>2. from + call.overlap = last.end_char
      BY <1>6, <2>2
    <3> QED
      BY <1>6, <1>10, <2>2, <3>1, <3>2 DEF CutFollows
  <2> QED
    BY <2>1, <2>2
<1> HIDE DEF reach
<1>12. /\ CutTo(more, text, sha, to) /\ Len(more) = size + 1 /\ size \in Nat /\ more[size + 1] = new
       /\ more # <<>> /\ Chars(more) = Chars(work.shards) + Len(new.text)
  <2>1. new.bounds.start_char <= reach
    BY <1>7, <1>10
  <2>2. work.shards # <<>> => CutFollows(work.shards[Len(work.shards)].bounds, new.bounds)
    BY <1>11 DEF last
  <2> QED
    <3>1. reach \in Nat /\ CutTo(work.shards, text, sha, reach) /\ CutPart(new, text, sha)
      BY <1>6, <1>7, <1>10
    <3>2. LET m == Append(work.shards, new)
              n == Len(work.shards)
          IN  /\ CutTo(m, text, sha, new.bounds.end_char)
              /\ Len(m) = n + 1 /\ n \in Nat /\ m[n + 1] = new /\ m # <<>>
              /\ Chars(m) = Chars(work.shards) + Len(new.text)
      BY <2>1, <2>2, <3>1, CutOnce
    <3> QED
      BY <1>10, <3>2 DEF more
<1>13. seg.to - seg.from - at = seg.to - from
  BY <1>5, <1>6 DEF from
<1>14. Chars(more) \in Nat /\ Chars(more) - (to - from) = Chars(work.shards)
  <2>1. to - from \in Nat
    BY <1>7
  <2> QED
    BY <1>6, <1>7, <1>10, <1>12, <2>1
<1>15. /\ k \in 0 .. Len(segs) - 1 /\ seg = work.segments[1] /\ seg = segs[k + 1]
       /\ seg.from \in Nat /\ seg.to \in Nat /\ seg.to <= Len(text)
       /\ from \in Nat /\ to \in Nat /\ from < to /\ to <= seg.to
       /\ CutTo(more, text, sha, to) /\ more # <<>>
       /\ size \in Nat /\ Len(more) = size + 1 /\ more[size + 1] = new
       /\ new.bounds.end_char = to /\ (call.builder = "book" => new.bounds.chapter = seg.chapter)
       /\ size + ShardCount(seg.to - from) = CountTo(segs, k + 1)
       /\ Chars(more) - (to - from) + Materialised(seg.to - from) = CharsTo(segs, k + 1)
       /\ Chars(more) \in Nat
  BY <1>3, <1>4, <1>5, <1>6, <1>7, <1>10, <1>12, <1>13, <1>14
<1> QED
  BY <1>15 DEF segs, k, seg, from, to, new, more, size, text, sha, at

\* The loop begins with the first segment.
LEMMA CutBegins ==
  ASSUME BaseInv, ChunkOptionsValid, NEW text \in Seq(Token), text # <<>>, NEW digest,
         text = (IF call.builder \in {"text", "translation"} THEN digest ELSE Decoded(digest)),
         PlanBounded(Segments(text)),
         NEW w, w = [text |-> text, digest |-> digest, at |-> 0, segments |-> Segments(text), shards |-> <<>>]
  PROVE  Cutting(w)
<1> DEFINE segs == Segments(text)
           seg == segs[1]
           n == Len(segs)
           rest == seg.to - seg.from
<1>1. Segmented(segs, text) /\ PlanBounded(segs)
  BY SegmentsAre
<1> HIDE DEF segs
<1>2. /\ DOMAIN w = {"text", "digest", "at", "segments", "shards"} /\ w.text = text /\ w.digest = digest /\ w.at = 0
      /\ w.segments = segs /\ w.shards = <<>>
  BY DEF segs
<1>3. /\ Listed(segs) /\ segs # <<>> /\ n \in Nat \ {0} /\ 1 \in 1 .. n /\ n \in 1 .. n
      /\ seg.from \in Nat /\ seg.to \in Nat /\ seg.from < seg.to
      /\ \A p \in 1 .. seg.from : call.builder = "book" /\ Blank(SubSeq(text, 1, p))
  <2>1. Listed(segs) /\ segs # <<>> /\ n \in Nat \ {0}
    BY <1>1 DEF Segmented
  <2>2. 1 \in 1 .. n /\ n \in 1 .. n
    BY <2>1
  <2> QED
    BY <1>1, <2>1, <2>2 DEF Segmented
<1>4. rest \in Nat /\ rest = seg.to - seg.from - 0
  BY <1>3
<1>5. Len(<<>>) = 0 /\ Listed(<<>>) /\ Chars(<<>>) = 0
  <2>1. Len(<<>>) = 0 /\ DOMAIN <<>> = 1 .. 0 /\ <<>> = [i \in 1 .. 0 |-> <<>>[i]]
    OBVIOUS
  <2>2. [i \in DOMAIN <<>> |-> Len(<<>>[i].text)] = <<>>
    OBVIOUS
  <2>3. Chars(<<>>) = Sum(<<>>)
    BY <2>2 DEF Chars
  <2> QED
    BY <2>1, <2>3, SumOfNone DEF Listed
<1>6. CutTo(<<>>, text, digest, seg.from)
  BY <1>3, <1>5 DEF CutTo
<1>7. /\ ShardCount(rest) \in Nat /\ Materialised(rest) \in Nat
      /\ ShardCount(rest) = CountTo(segs, 1) /\ Materialised(rest) = CharsTo(segs, 1)
  <2>1. /\ CountTo(segs, 0 + 1) = CountTo(segs, 0) + ShardCount(segs[0 + 1].to - segs[0 + 1].from)
        /\ CharsTo(segs, 0 + 1) = CharsTo(segs, 0) + Materialised(segs[0 + 1].to - segs[0 + 1].from)
        /\ CountTo(segs, 0) = 0 /\ CharsTo(segs, 0) = 0
    BY SumsGrow, 0 \in Nat
  <2>2. ShardCount(rest) \in Nat /\ Materialised(rest) \in Nat
    BY <1>4, CallTypes, CountOnce
  <2> QED
    BY <2>1, <2>2
<1>8. /\ Len(segs) - Len(w.segments) = 0 /\ Len(w.segments) \in 1 .. Len(segs)
      /\ \A i \in 1 .. Len(w.segments) : w.segments[i] = segs[0 + i]
  <2>1. Len(w.segments) = n /\ n - n = 0
    BY <1>2, <1>3
  <2>2. \A i \in 1 .. n : 0 + i = i
    BY <1>3
  <2> QED
    BY <1>2, <1>3, <2>1, <2>2
<1>9. /\ 0 + ShardCount(rest) = ShardCount(rest) /\ 0 + Materialised(rest) = Materialised(rest)
  <2> HIDE DEF rest
  <2> QED
    BY <1>7
<1>10. /\ Len(w.shards) + ShardCount(w.segments[1].to - w.segments[1].from - w.at) = CountTo(segs, 0 + 1)
       /\ Chars(w.shards) + Materialised(w.segments[1].to - w.segments[1].from - w.at) = CharsTo(segs, 0 + 1)
  <2>1. w.segments[1].to - w.segments[1].from - w.at = rest
    BY <1>2, <1>4
  <2>2. Len(w.shards) = 0 /\ Chars(w.shards) = 0
    BY <1>2, <1>5
  <2> HIDE DEF rest
  <2>3. Len(w.shards) + ShardCount(rest) = CountTo(segs, 1) /\ Chars(w.shards) + Materialised(rest) = CharsTo(segs, 1)
    BY <1>7, <1>9, <2>2
  <2> QED
    BY <2>1, <2>3
<1>11. w.at \in Nat /\ w.segments[1].from + w.at < w.segments[1].to
  BY <1>2, <1>3
<1>12. CutTo(w.shards, w.text, w.digest, w.segments[1].from)
  BY <1>2, <1>6
<1> HIDE DEF seg, rest, n
<1> QED
  BY <1>1, <1>2, <1>3, <1>5, <1>8, <1>10, <1>11, <1>12 DEF Cutting, segs

\* The locals after a shard that does not end its segment.
LEMMA NextInSegment ==
  ASSUME NEW w, DOMAIN w = {"text", "digest", "at", "segments", "shards"}, NEW shards, NEW at,
         NEW v, v = [w EXCEPT !.shards = shards, !.at = at]
  PROVE  /\ DOMAIN v = {"text", "digest", "at", "segments", "shards"}
         /\ v.text = w.text /\ v.digest = w.digest /\ v.segments = w.segments /\ v.shards = shards /\ v.at = at
  OBVIOUS

\* The locals after a shard that ends its segment.
LEMMA NextSegment ==
  ASSUME NEW w, DOMAIN w = {"text", "digest", "at", "segments", "shards"}, NEW shards, NEW left,
         NEW v, v = [w EXCEPT !.shards = shards, !.at = 0, !.segments = left]
  PROVE  /\ DOMAIN v = {"text", "digest", "at", "segments", "shards"}
         /\ v.text = w.text /\ v.digest = w.digest /\ v.segments = left /\ v.shards = shards /\ v.at = 0
  OBVIOUS

\* The loop goes on within a segment.
LEMMA CutWithin ==
  ASSUME BaseInv, call.builder \in Cutters, ChunkOptionsValid, Cutting(work),
         NEW seg, seg = Head(work.segments), NEW from, from = seg.from + work.at, from + call.chunk < seg.to,
         NEW v, DOMAIN v = {"text", "digest", "at", "segments", "shards"},
         v.text = work.text, v.digest = work.digest, v.segments = work.segments, v.at = work.at + Step,
         v.shards = Append(work.shards, ShardOf(seg, from, from + call.chunk))
  PROVE  Cutting(v)
<1> DEFINE segs == Segments(work.text)
           k == Len(segs) - Len(work.segments)
           to == from + call.chunk
           new == ShardOf(seg, from, to)
           more == Append(work.shards, new)
           size == Len(work.shards)
           n == seg.to - from
           rest == seg.to - seg.from - v.at
           reach == IF v.at = 0 THEN seg.from ELSE seg.from + v.at + call.overlap
           text == work.text
           sha == work.digest
<1>1. /\ seg = work.segments[1]
      /\ seg.from \in Nat /\ seg.to \in Nat
      /\ from \in Nat /\ to \in Nat
      /\ CutTo(more, text, sha, to) /\ more # <<>>
      /\ size \in Nat /\ Len(more) = size + 1 /\ more[size + 1] = new
      /\ new.bounds.end_char = to /\ (call.builder = "book" => new.bounds.chapter = seg.chapter)
      /\ size + ShardCount(n) = CountTo(segs, k + 1)
      /\ Chars(more) - (to - from) + Materialised(n) = CharsTo(segs, k + 1)
      /\ Chars(more) \in Nat
  <2>1. to = IF from + call.chunk < seg.to THEN from + call.chunk ELSE seg.to
    OBVIOUS
  <2> HIDE DEF to
  <2> QED
    BY <2>1, OneCut
<1>2. /\ Step \in Nat \ {0} /\ Step <= call.chunk /\ call.chunk \in Nat \ {0} /\ call.overlap \in Nat
      /\ Step = call.chunk - call.overlap
  BY CallTypes, CountOnce DEF Step
<1>3. work.at \in Nat
  BY DEF Cutting
<1>4. /\ v.at \in Nat /\ v.at # 0 /\ reach = to /\ to < seg.to /\ seg.from + v.at < seg.to
      /\ to = seg.from + v.at + call.overlap /\ n \in Nat /\ n > call.chunk /\ rest = n - Step
      /\ to - from = call.chunk
  <2>1. v.at \in Nat /\ v.at # 0
    BY <1>2, <1>3
  <2>2. to = seg.from + v.at + call.overlap /\ to < seg.to /\ rest = n - Step /\ n \in Nat /\ n > call.chunk
        /\ to - from = call.chunk
    <3> DEFINE a == work.at
               b == v.at
               f == seg.from
               e == seg.to
               c == call.chunk
               o == call.overlap
               s == Step
    <3>1. /\ a \in Nat /\ f \in Nat /\ e \in Nat /\ c \in Nat /\ o \in Nat /\ s \in Nat /\ s = c - o /\ b = a + s
          /\ from = f + a /\ to = from + c /\ from + c < e /\ n = e - from /\ rest = e - f - b
      BY <1>1, <1>2, <1>3
    <3> HIDE DEF a, b, f, e, c, o, s, n, to, rest
    <3>2. to = f + b + o /\ to < e /\ rest = n - s /\ n \in Nat /\ n > c /\ to - from = c
      BY ONLY <3>1
    <3> QED
      BY <3>2 DEF b, f, e, c, o, s
  <2>3. seg.from + v.at < seg.to
    <3> DEFINE b == v.at
               f == seg.from
               e == seg.to
               o == call.overlap
    <3>1. f \in Nat /\ b \in Nat /\ e \in Nat /\ o \in Nat /\ to = f + b + o /\ to < e
      BY <1>1, <1>2, <2>1, <2>2
    <3> HIDE DEF b, f, e, o, to
    <3>2. f + b < e
      BY <3>1
    <3> QED
      BY <3>2 DEF b, f, e
  <2> QED
    BY <2>1, <2>2, <2>3
<1> HIDE DEF to, n, rest, reach, segs, k, text, sha
<1>5. /\ ShardCount(rest) \in Nat /\ Materialised(rest) \in Nat
      /\ ShardCount(n) = 1 + ShardCount(rest) /\ Materialised(n) = call.chunk + Materialised(rest)
  <2>1. rest \in Nat
    BY <1>2, <1>4
  <2> QED
    BY <1>4, <2>1, CallTypes, CountOnce
<1>6. v.shards = more
  BY DEF to
<1> HIDE DEF new, more
<1>7. /\ Len(more) + ShardCount(rest) = CountTo(segs, k + 1)
      /\ Chars(more) + Materialised(rest) = CharsTo(segs, k + 1)
  <2>1. size + (1 + ShardCount(rest)) = CountTo(segs, k + 1)
    BY <1>1, <1>5
  <2>2. Chars(more) - call.chunk + (call.chunk + Materialised(rest)) = CharsTo(segs, k + 1)
    BY <1>1, <1>4, <1>5
  <2> DEFINE x == ShardCount(rest)
             y == Materialised(rest)
             m == Len(more)
             h == Chars(more)
             c == call.chunk
             z == size
  <2>3. /\ x \in Nat /\ y \in Nat /\ m = z + 1 /\ z \in Nat /\ h \in Nat /\ c \in Nat
        /\ z + (1 + x) = CountTo(segs, k + 1) /\ h - c + (c + y) = CharsTo(segs, k + 1)
    BY <1>1, <1>2, <1>5, <2>1, <2>2
  <2> HIDE DEF x, y, m, h, c, z
  <2>4. m + x = CountTo(segs, k + 1) /\ h + y = CharsTo(segs, k + 1)
    BY <2>3
  <2> QED
    BY <2>4 DEF x, y, m, h
<1>8. /\ text \in Seq(Token) /\ text # <<>>
      /\ text = (IF call.builder \in {"text", "translation"} THEN sha ELSE Decoded(sha))
      /\ Segmented(segs, text) /\ PlanBounded(segs)
      /\ Listed(v.segments) /\ v.segments # <<>> /\ Len(v.segments) \in 1 .. Len(segs)
      /\ \A i \in 1 .. Len(v.segments) : v.segments[i] = segs[k + i]
  BY DEF Cutting, segs, k, text, sha
<1>9. /\ v.shards # <<>> /\ v.shards[Len(v.shards)].bounds.end_char = to
      /\ call.builder = "book" => v.shards[Len(v.shards)].bounds.chapter = seg.chapter
  BY <1>1, <1>6
<1>10. v.segments[1] = seg
  BY <1>1
<1>11. CutTo(v.shards, v.text, v.digest, reach) /\ Chars(v.shards) \in Nat
  BY <1>1, <1>4, <1>6 DEF text, sha
<1>12. /\ Len(v.shards) + ShardCount(rest) = CountTo(segs, k + 1)
       /\ Chars(v.shards) + Materialised(rest) = CharsTo(segs, k + 1)
  BY <1>6, <1>7
<1>13. Segments(v.text) = segs /\ Len(segs) - Len(v.segments) = k /\ v.text = text /\ v.digest = sha
  BY DEF segs, k, text, sha
<1> QED
  BY <1>4, <1>8, <1>9, <1>10, <1>11, <1>12, <1>13 DEF Cutting, rest, reach

\* The segment ends, and the next begins where it ended.
LEMMA CutOver ==
  ASSUME BaseInv, call.builder \in Cutters, ChunkOptionsValid, Cutting(work),
         NEW seg, seg = Head(work.segments), NEW from, from = seg.from + work.at, ~(from + call.chunk < seg.to),
         Tail(work.segments) # <<>>,
         NEW v, DOMAIN v = {"text", "digest", "at", "segments", "shards"},
         v.text = work.text, v.digest = work.digest, v.segments = Tail(work.segments), v.at = 0,
         v.shards = Append(work.shards, ShardOf(seg, from, seg.to))
  PROVE  Cutting(v)
<1> DEFINE segs == Segments(work.text)
           k == Len(segs) - Len(work.segments)
           to == seg.to
           new == ShardOf(seg, from, to)
           more == Append(work.shards, new)
           size == Len(work.shards)
           n == to - from
           left == v.segments
           next == left[1]
           rest == next.to - next.from - v.at
           text == work.text
           sha == work.digest
<1>1. /\ k \in 0 .. Len(segs) - 1 /\ seg = work.segments[1] /\ seg = segs[k + 1]
      /\ seg.from \in Nat /\ seg.to \in Nat
      /\ from \in Nat /\ to \in Nat /\ from < to
      /\ CutTo(more, text, sha, to) /\ more # <<>>
      /\ size \in Nat /\ Len(more) = size + 1 /\ more[size + 1] = new
      /\ new.bounds.end_char = to /\ (call.builder = "book" => new.bounds.chapter = seg.chapter)
      /\ size + ShardCount(n) = CountTo(segs, k + 1)
      /\ Chars(more) - (to - from) + Materialised(n) = CharsTo(segs, k + 1)
      /\ Chars(more) \in Nat
  <2>1. to = IF from + call.chunk < seg.to THEN from + call.chunk ELSE seg.to
    OBVIOUS
  <2> HIDE DEF to
  <2>2. n = seg.to - from
    BY <2>1
  <2> HIDE DEF n
  <2> QED
    BY <2>1, <2>2, OneCut
<1>2. /\ text \in Seq(Token) /\ text # <<>>
      /\ text = (IF call.builder \in {"text", "translation"} THEN sha ELSE Decoded(sha))
      /\ Segmented(segs, text) /\ PlanBounded(segs)
      /\ Listed(work.segments) /\ work.segments # <<>> /\ Len(work.segments) \in 1 .. Len(segs)
      /\ \A i \in 1 .. Len(work.segments) : work.segments[i] = segs[k + i]
  BY DEF Cutting
<1>3. call.chunk \in Nat \ {0}
  BY CallTypes, CountOnce
<1>4. n \in Nat /\ n <= call.chunk
  <2>1. n = to - from /\ ~(from + call.chunk < to)
    OBVIOUS
  <2> DEFINE c == call.chunk
  <2>2. from \in Nat /\ to \in Nat /\ from < to /\ c \in Nat /\ n = to - from /\ ~(from + c < to)
    BY <1>1, <1>3, <2>1
  <2> HIDE DEF n, to, c
  <2>3. n \in Nat /\ n <= c
    BY ONLY <2>2
  <2> QED
    BY <2>3 DEF c
<1> HIDE DEF segs, k, n, to, text, sha, more, new, size, left
<1>5. ShardCount(n) = 1 /\ Materialised(n) = n
  BY <1>4, CallTypes, CountOnce
<1>6. /\ Listed(left) /\ Len(left) = Len(work.segments) - 1 /\ Len(work.segments) \in Nat \ {0}
      /\ \A i \in 1 .. Len(work.segments) - 1 : left[i] = work.segments[i + 1]
      /\ left # <<>> /\ Len(work.segments) # 1
  BY <1>2, ListedTail DEF left
<1>7. /\ Len(left) \in 1 .. Len(segs) /\ Len(segs) - Len(left) = k + 1
      /\ \A i \in 1 .. Len(left) : left[i] = segs[(k + 1) + i]
  <2>1. Len(segs) \in Nat
    BY <1>2 DEF Segmented
  <2>2. Len(left) \in 1 .. Len(segs)
    BY <1>2, <1>6, <2>1
  <2>3. Len(segs) - Len(left) = k + 1
    BY <1>6, <2>1 DEF k
  <2>4. ASSUME NEW i \in 1 .. Len(left) PROVE left[i] = segs[(k + 1) + i]
    <3>1. i \in 1 .. Len(work.segments) - 1 /\ i + 1 \in 1 .. Len(work.segments) /\ k + (i + 1) = (k + 1) + i
      BY <1>1, <1>6
    <3>2. work.segments[i + 1] = segs[k + (i + 1)]
      BY <1>2, <3>1
    <3> QED
      BY <1>6, <3>1, <3>2
  <2> QED
    BY <2>2, <2>3, <2>4
<1>8. k + 1 \in 1 .. Len(segs) - 1 /\ (k + 1) + 1 \in 1 .. Len(segs) /\ next = segs[(k + 1) + 1] /\ Len(segs) \in Nat
  <2>1. Len(segs) \in Nat /\ 1 \in 1 .. Len(left)
    BY <1>2, <1>7 DEF Segmented
  <2>2. k + 1 <= Len(segs) - 1
    <3>1. Len(left) >= 1 /\ Len(left) \in Nat
      BY <1>7
    <3> QED
      BY <1>1, <1>7, <2>1, <3>1
  <2> QED
    BY <1>1, <1>7, <2>1, <2>2
<1>9. next.from = to /\ next.chapter # seg.chapter /\ call.builder = "book"
  <2>1. \A i \in 1 .. Len(segs) - 1 :
          segs[i + 1].from = segs[i].to /\ segs[i + 1].chapter # segs[i].chapter /\ call.builder = "book"
    BY <1>2 DEF Segmented
  <2>2. /\ segs[(k + 1) + 1].from = segs[k + 1].to /\ segs[(k + 1) + 1].chapter # segs[k + 1].chapter
        /\ call.builder = "book"
    BY <1>8, <2>1
  <2> QED
    BY <1>1, <1>8, <2>2 DEF to
<1>10. next.from \in Nat /\ next.to \in Nat /\ next.from < next.to
  BY <1>2, <1>8 DEF Segmented
<1>11. rest = next.to - next.from /\ rest \in Nat
  BY <1>10
<1> HIDE DEF next, rest
<1>12. v.shards = more
  BY DEF more, new, to
<1>13. /\ ShardCount(rest) \in Nat /\ Materialised(rest) \in Nat
       /\ CountTo(segs, (k + 1) + 1) = CountTo(segs, k + 1) + ShardCount(rest)
       /\ CharsTo(segs, (k + 1) + 1) = CharsTo(segs, k + 1) + Materialised(rest)
  <2>1. k + 1 \in Nat
    BY <1>1
  <2>2. /\ CountTo(segs, (k + 1) + 1) = CountTo(segs, k + 1) + ShardCount(segs[(k + 1) + 1].to - segs[(k + 1) + 1].from)
        /\ CharsTo(segs, (k + 1) + 1) = CharsTo(segs, k + 1) + Materialised(segs[(k + 1) + 1].to - segs[(k + 1) + 1].from)
    BY <2>1, SumsGrow
  <2>3. segs[(k + 1) + 1].to - segs[(k + 1) + 1].from = rest
    BY <1>8, <1>11
  <2> QED
    BY <1>11, <2>2, <2>3, CallTypes, CountOnce
<1>14. /\ Len(more) = CountTo(segs, k + 1) /\ Chars(more) = CharsTo(segs, k + 1)
  <2>1. size + 1 = CountTo(segs, k + 1) /\ Chars(more) - n + n = CharsTo(segs, k + 1)
    BY <1>1, <1>5 DEF n
  <2> QED
    BY <1>1, <1>4, <2>1
<1>15. /\ v.shards # <<>> /\ v.shards[Len(v.shards)].bounds.end_char = to
       /\ v.shards[Len(v.shards)].bounds.chapter = seg.chapter
  BY <1>1, <1>9, <1>12
<1>16. CutTo(v.shards, v.text, v.digest, next.from) /\ Chars(v.shards) \in Nat
  BY <1>1, <1>9, <1>12 DEF text, sha
<1>17. /\ Len(v.shards) + ShardCount(rest) = CountTo(segs, (k + 1) + 1)
       /\ Chars(v.shards) + Materialised(rest) = CharsTo(segs, (k + 1) + 1)
  BY <1>12, <1>13, <1>14
<1>18. Segments(v.text) = segs /\ v.text = text /\ v.digest = sha
  BY DEF segs, text, sha
<1>19. v.at \in Nat /\ v.at = 0 /\ next.from + v.at < next.to
  BY <1>10
<1> QED
  BY <1>2, <1>6, <1>7, <1>9, <1>15, <1>16, <1>17, <1>18, <1>19 DEF Cutting, rest, next, left

\* The bounds of the plan are the counts of all the segments.
LEMMA SumsAre ==
  ASSUME NEW segs, DOMAIN segs = 1 .. Len(segs)
  PROVE  /\ SumOver(ShardCount, segs) = CountTo(segs, Len(segs))
         /\ SumOver(Materialised, segs) = CharsTo(segs, Len(segs))
  BY DEF SumOver, CountTo, CharsTo

\* What the cutters return.
LEMMA CutReturns ==
  ASSUME BaseInv, OpenedInv, CutInv, Cut, stage' = "built"
  PROVE  /\ call.builder \in Cutters /\ UNCHANGED <<call, disk, edits>>
         /\ TextIsCovered' /\ TextShape(built', call) /\ manifest' = built'
         /\ edits = 0 => OnDisk(built)'
<1> DEFINE segs == Segments(work.text)
           k == Len(segs) - Len(work.segments)
           seg == Head(work.segments)
           from == seg.from + work.at
           to == IF from + call.chunk < seg.to THEN from + call.chunk ELSE seg.to
           new == ShardOf(seg, from, to)
           more == Append(work.shards, new)
           size == Len(work.shards)
           text == work.text
           sha == work.digest
<1>1. /\ stage = "cutting" /\ call.builder \in Cutters /\ UNCHANGED <<call, disk, edits>>
      /\ to = seg.to /\ Tail(work.segments) = <<>> /\ built' = CutManifest(more) /\ manifest' = built'
  BY DEF Cut, BuilderStep, Return
<1>2. ChunkOptionsValid /\ Cutting(work)
  BY <1>1 DEF OpenedInv, CutInv
<1>3. /\ text \in Seq(Token) /\ text # <<>>
      /\ text = (IF call.builder \in {"text", "translation"} THEN sha ELSE Decoded(sha))
      /\ Segmented(segs, text) /\ PlanBounded(segs)
      /\ Listed(work.segments) /\ work.segments # <<>>
  BY <1>2 DEF Cutting
<1>4. /\ seg = segs[k + 1] /\ from \in Nat /\ to \in Nat /\ from < to
      /\ CutTo(more, text, sha, to) /\ more # <<>>
      /\ size \in Nat /\ Len(more) = size + 1
      /\ size + ShardCount(seg.to - from) = CountTo(segs, k + 1)
      /\ Chars(more) - (to - from) + Materialised(seg.to - from) = CharsTo(segs, k + 1)
      /\ Chars(more) \in Nat
  BY <1>1, <1>2, OneCut
<1>5. DOMAIN segs = 1 .. Len(segs) /\ Len(segs) \in Nat \ {0} /\ Len(work.segments) = 1 /\ k + 1 = Len(segs)
  <2>1. Len(work.segments) = 1
    BY <1>1, <1>3, ListedTail
  <2> QED
    BY <1>3, <2>1 DEF Segmented, Listed
<1>6. to - from \in Nat /\ to - from <= call.chunk /\ to - from = seg.to - from
  <2> DEFINE c == call.chunk
             e == seg.to
  <2>1. /\ c \in Nat /\ from \in Nat /\ to \in Nat /\ from < to /\ to = e
        /\ to = IF from + c < e THEN from + c ELSE e
    BY <1>1, <1>2, <1>4, CallTypes, CountOnce
  <2> HIDE DEF c, e, from, to
  <2>2. to - from \in Nat /\ to - from <= c /\ to - from = e - from
    BY ONLY <2>1
  <2> QED
    BY <2>2 DEF c, e
<1> HIDE DEF segs, k, seg, from, to, new, more, size, text, sha
<1>7. ShardCount(seg.to - from) = 1 /\ Materialised(seg.to - from) = to - from
  BY <1>2, <1>6, CallTypes, CountOnce
<1>8. Len(more) = CountTo(segs, Len(segs)) /\ Chars(more) = CharsTo(segs, Len(segs))
  <2>1. size + 1 = CountTo(segs, k + 1) /\ Chars(more) - (to - from) + (to - from) = CharsTo(segs, k + 1)
    BY <1>4, <1>7
  <2> QED
    BY <1>4, <1>5, <1>6, <2>1
<1>9. Len(more) \in 1 .. MaxShards /\ Chars(more) <= MaxChars
  <2>1. CountTo(segs, Len(segs)) <= MaxShards /\ CharsTo(segs, Len(segs)) <= MaxChars
    BY <1>3, <1>5, SumsAre DEF PlanBounded
  <2> QED
    BY <1>4, <1>8, <2>1, LimitsAssumption
<1>10. to = Len(text)
  BY <1>1, <1>3, <1>4, <1>5 DEF Segmented
<1>11. /\ built'.workload = CASE call.builder = "text" -> call.workload [] call.builder = "book" -> "book_reading"
                              [] call.builder = "translation" -> "translation" [] OTHER -> "longform_generation"
       /\ built'.processor = [type |-> IF call.builder = "text" THEN "copy_text" ELSE "deepseek_batch"]
       /\ built'.acceptance = call.builder /\ built'.sources = <<TextSource(sha)>> /\ built'.shards = more
  <2>1. CASE call.builder = "text"
    BY <1>1, <2>1 DEF CutManifest, TextManifest, ManifestOf, sha
  <2>2. CASE call.builder = "book"
    BY <1>1, <2>2 DEF CutManifest, BookManifest, ManifestOf, sha
  <2>3. CASE call.builder = "translation"
    BY <1>1, <2>3 DEF CutManifest, TranslationManifest, ManifestOf, sha
  <2> QED
    BY <1>1, <2>1, <2>2, <2>3 DEF Cutters
<1> DEFINE source == TextSource(sha)
<1>12. /\ DOMAIN source = {"type", "sha256"} \cup (IF FromFile THEN {"path"} ELSE {})
       /\ source.sha256 = sha /\ (FromFile => source.path = call.path)
  BY SourceFields
<1>13. DOMAIN built'.sources = {1} /\ Len(built'.sources) = 1 /\ built'.sources[1] = source
  BY <1>11
<1> HIDE DEF source
<1>14. Listed(more) /\ DOMAIN more = 1 .. Len(more)
  BY <1>4 DEF CutTo, Listed
<1>15. TextShape(built', call)
  <2>1. ASSUME NEW i \in 1 .. Len(more) PROVE CutPart(more[i], text, sha)
    BY <1>4 DEF CutTo
  <2>2. ASSUME NEW i \in 1 .. Len(more)
        PROVE  /\ DOMAIN more[i] = {"source", "text", "bounds"} /\ more[i].source = 1
               /\ {"source_sha256", "shard_sha256"} \subseteq DOMAIN more[i].bounds
               /\ more[i].bounds.shard_sha256 = more[i].text /\ more[i].bounds.source_sha256 = sha
               /\ DOMAIN more[i].bounds \cap {"byte_end", "page_number", "sidecar_sha256", "row_count", "sha256"} = {}
               /\ call.builder = "book" => "chapter" \in DOMAIN more[i].bounds
               /\ call.builder = "translation" => {"source_lang", "target_lang"} \subseteq DOMAIN more[i].bounds
    <3>1. CutPart(more[i], text, sha)
      BY <2>1
    <3>2. DOMAIN more[i].bounds \cap {"byte_end", "page_number", "sidecar_sha256", "row_count", "sha256"} = {}
      BY <3>1 DEF CutPart
    <3> QED
      BY <3>1, <3>2 DEF CutPart
  <2> QED
    BY <1>9, <1>11, <1>12, <1>13, <1>14, <2>2 DEF TextShape, FromFile
<1>16. SourceAsRead' = sha /\ TextAsRead' = text
  <2>1. SourceAsRead' = sha
    BY <1>12, <1>13 DEF SourceAsRead
  <2>3. TextAsRead' = IF call'.builder \in {"text", "translation"} THEN SourceAsRead' ELSE Decoded(SourceAsRead)'
    BY DEF TextAsRead
  <2>4. Decoded(SourceAsRead)' = Decoded(sha)
    BY <1>1, <2>1 DEF Decoded, FromFile
  <2> QED
    BY <1>1, <1>3, <2>1, <2>3, <2>4
<1>17. TextIsCovered'
  <2>1. Segments(TextAsRead)' = segs
    BY <1>1, <1>16, OfTheCall DEF segs, text
  <2>2. SumOver(ShardCount, Segments(TextAsRead))' = CountTo(segs, Len(segs))
    BY <1>1, <1>5, <2>1 DEF SumOver, CountTo, ShardCount, Step
  <2>3. DOMAIN text = 1 .. Len(text)
    BY <1>3, LenProperties
  <2>4. \A i \in DOMAIN more :
          more[i].text = SubSeq(text, more[i].bounds.start_char + 1, more[i].bounds.end_char)
    BY <1>4, <1>14 DEF CutTo, CutPart
  <2>5. \A p \in DOMAIN text :
          \/ call.builder = "book" /\ Blank(SubSeq(text, 1, p))
          \/ \E i \in DOMAIN more : more[i].bounds.start_char < p /\ p <= more[i].bounds.end_char
    BY <1>4, <1>10, <1>14, <2>3 DEF CutTo, Holds
  <2>6. \A i \in 1 .. Len(more) - 1 : CutFollows(more[i].bounds, more[i + 1].bounds)
    BY <1>4 DEF CutTo
  <2>7. call.builder = "book" =>
          \A p \in DOMAIN text, i \in DOMAIN more :
            text[p] = "h" /\ more[i].bounds.start_char < p /\ p <= more[i].bounds.end_char
              => p = more[i].bounds.start_char + 1
    BY <1>4, <1>14, <2>3 DEF CutTo, CutPart
  <2>8. Sum([i \in DOMAIN more |-> Len(more[i].text)]) <= MaxChars
    BY <1>9 DEF Chars
  <2>9. Len(built'.shards) = SumOver(ShardCount, Segments(TextAsRead))'
    BY <1>8, <1>11, <2>2
  <2>10. \A i \in 1 .. Len(more) - 1 :
           LET a == more[i].bounds
               b == more[i + 1].bounds
           IN  IF call.builder = "book" /\ a.chapter # b.chapter
               THEN b.start_char >= a.end_char
               ELSE b.start_char + call.overlap = a.end_char /\ b.end_char > a.end_char
    BY <2>6 DEF CutFollows
  <2>11. built'.shards = more /\ call' = call /\ TextAsRead' = text
    BY <1>1, <1>11, <1>16
  <2> QED
    BY <2>4, <2>5, <2>7, <2>8, <2>9, <2>10, <2>11 DEF TextIsCovered, Consecutive
<1>18. ASSUME edits = 0 PROVE OnDisk(built)'
  <2>1. FromFile => sha = DigestOf(disk[call.path].bytes)
    BY <1>1, <1>18 DEF CutInv, sha
  <2>2. call.path = 0 => "path" \notin DOMAIN source
    BY <1>12 DEF FromFile
  <2>3. OnDisk(built')
    BY <1>1, <1>12, <1>13, <1>18, <2>1, <2>2, TextOnDisk DEF FromFile
  <2> QED
    BY <1>1, <2>3, OnDiskStays
<1> QED
  BY <1>1, <1>15, <1>17, <1>18

\* Every step keeps what the cutting loop keeps.
LEMMA CutStep == ASSUME BaseInv, OpenedInv, CutInv, [Next]_vars PROVE CutInv'
<1> USE DEF BuilderStep, Refuse, Return
<1>0. call' = call
  BY EditsAreCounted
<1> DEFINE Fine == edits = 0 /\ FromFile => work.digest = DigestOf(disk[call.path].bytes)
<1>1. ASSUME UNCHANGED <<disk, edits>>, work'.digest = work.digest, Fine PROVE Fine'
  BY <1>0, <1>1 DEF FromFile, DigestOf, Decoded
<1>2. CutInv' <=> (stage' \in {"read", "cutting"} => Cutting(work)' /\ Fine')
  BY DEF CutInv
<1>3. CutInv <=> (stage \in {"read", "cutting"} => Cutting(work) /\ Fine)
  BY DEF CutInv
<1>4. CASE ReadText
  <2>1. /\ stage = "opened" /\ call.builder \in Cutters /\ UNCHANGED <<disk, edits>>
        /\ stage' \in {"read", "cutting", "refused"}
    BY <1>4 DEF ReadText
  <2>2. SUFFICES ASSUME stage' # "refused" PROVE Cutting(work)' /\ Fine'
    BY <1>2, <2>1
  <2> DEFINE text == Decoded(Source)
             sha == DigestOf(Source)
  <2>3. /\ Readable(Source) /\ PlanBounded(Segments(text))
        /\ work' = [text |-> text, digest |-> sha, at |-> 0, segments |-> Segments(text), shards |-> <<>>]
    BY <1>4, <2>2 DEF ReadText
  <2>4. text \in Seq(Token) /\ text # <<>>
    BY <2>3, SourceTokens DEF Readable, Empty, Blank, Range
  <2>5. text = (IF call.builder \in {"text", "translation"} THEN sha ELSE Decoded(sha))
    BY DEF DigestOf
  <2>6. FromFile /\ edits = 0 => sha = DigestOf(disk[call.path].bytes)
    BY DEF Source
  <2>7. Fine'
    <3>1. work'.digest = sha
      BY <2>3
    <3> HIDE DEF sha
    <3> QED
      BY <1>0, <2>1, <2>6, <3>1 DEF FromFile, DigestOf, Decoded
  <2> HIDE DEF text, sha
  <2>8. ChunkOptionsValid
    BY <2>1 DEF OpenedInv
  <2>9. Cutting(work')
    BY <2>3, <2>4, <2>5, <2>8, CutBegins
  <2>10. Cutting(work)'
    BY <1>0, <2>9, CuttingStays
  <2> QED
    BY <2>7, <2>10
<1>5. CASE RecheckPath
  <2>1. stage = "read" /\ UNCHANGED <<disk, edits>> /\ (stage' # "refused" => work' = work)
    BY <1>5 DEF RecheckPath
  <2>2. SUFFICES ASSUME stage' # "refused" PROVE Cutting(work)' /\ Fine'
    BY <1>2
  <2>3. Cutting(work)'
    BY <1>0, <1>3, <2>1, <2>2, CuttingStays
  <2> QED
    BY <1>1, <1>3, <2>1, <2>2, <2>3
<1>6. CASE Cut
  <2>1. SUFFICES ASSUME stage' = "cutting" PROVE Cutting(work)' /\ Fine'
    BY <1>2, <1>6 DEF Cut
  <2>2. /\ stage = "cutting" /\ call.builder \in Cutters /\ UNCHANGED <<disk, edits>>
    BY <1>6, <2>1 DEF Cut
  <2>3. ChunkOptionsValid /\ Cutting(work) /\ Fine
    BY <1>3, <2>2 DEF OpenedInv
  <2>4. DOMAIN work = {"text", "digest", "at", "segments", "shards"} /\ Cutting(work)
    BY <2>3 DEF Cutting
  <2> DEFINE seg == Head(work.segments)
             from == seg.from + work.at
             to == IF from + call.chunk < seg.to THEN from + call.chunk ELSE seg.to
             more == Append(work.shards, ShardOf(seg, from, to))
  <2>5. \/ to < seg.to /\ work' = [work EXCEPT !.shards = more, !.at = work.at + Step]
        \/ to = seg.to /\ Tail(work.segments) # <<>>
             /\ work' = [work EXCEPT !.shards = more, !.at = 0, !.segments = Tail(work.segments)]
    BY <1>6, <2>1 DEF Cut
  <2>6. seg.to \in Nat /\ from \in Nat /\ call.chunk \in Nat
    <3>1. LET s == Head(work.segments) IN s.to \in Nat /\ s.from + work.at \in Nat
      BY <2>2, <2>3, OneCut
    <3> QED
      BY <2>3, <3>1, CallTypes, CountOnce
  <2>7. CASE to < seg.to /\ work' = [work EXCEPT !.shards = more, !.at = work.at + Step]
    <3>1. from + call.chunk < seg.to /\ to = from + call.chunk
      BY <2>6, <2>7
    <3> HIDE DEF to, from, seg
    <3>2. /\ DOMAIN work' = {"text", "digest", "at", "segments", "shards"}
          /\ work'.text = work.text /\ work'.digest = work.digest /\ work'.segments = work.segments
          /\ work'.shards = more /\ work'.at = work.at + Step
      BY <2>4, <2>7, NextInSegment
    <3>3. Cutting(work')
      BY <2>2, <2>3, <3>1, <3>2, CutWithin DEF seg, from
    <3> HIDE DEF more
    <3>4. Cutting(work)'
      BY <1>0, <3>3, CuttingStays
    <3> QED
      BY <1>1, <2>2, <2>3, <3>2, <3>4
  <2>8. CASE /\ to = seg.to /\ Tail(work.segments) # <<>>
             /\ work' = [work EXCEPT !.shards = more, !.at = 0, !.segments = Tail(work.segments)]
    <3>1. ~(from + call.chunk < seg.to) /\ to = seg.to
      BY <2>6, <2>8
    <3> HIDE DEF to, from, seg
    <3>2. /\ DOMAIN work' = {"text", "digest", "at", "segments", "shards"}
          /\ work'.text = work.text /\ work'.digest = work.digest /\ work'.segments = Tail(work.segments)
          /\ work'.shards = more /\ work'.at = 0
      BY <2>4, <2>8, NextSegment
    <3>3. Cutting(work')
      BY <2>2, <2>3, <2>8, <3>1, <3>2, CutOver DEF seg, from
    <3> HIDE DEF more
    <3>4. Cutting(work)'
      BY <1>0, <3>3, CuttingStays
    <3> QED
      BY <1>1, <2>2, <2>3, <3>2, <3>4
  <2> QED
    BY <2>5, <2>7, <2>8
<1>7. CASE EditFile
  <2>1. edits' # 0 /\ UNCHANGED <<call, stage, work>>
    BY <1>7, EditsAreCounted
  <2>2. stage \in {"read", "cutting"} => Cutting(work)'
    BY <1>3, <2>1, CuttingStays
  <2> QED
    BY <1>2, <2>1, <2>2
<1>8. CASE UNCHANGED vars
  <2>1. UNCHANGED <<call, stage, work, disk, edits>>
    BY <1>8 DEF vars
  <2>2. stage \in {"read", "cutting"} => Cutting(work)'
    BY <1>3, <2>1, CuttingStays
  <2> QED
    BY <1>1, <1>2, <1>3, <2>1, <2>2
<1>9. CASE Next /\ ~ReadText /\ ~RecheckPath /\ ~Cut /\ ~EditFile
  BY <1>2, <1>9, StageAfter
<1> QED
  BY <1>4, <1>5, <1>6, <1>7, <1>8, <1>9

-----------------------------------------------------------------------------
(* Every manifest is whole                                                 *)

Shape(m, c) ==
  CASE c.builder \in Cutters \cup {"longform"} -> TextShape(m, c)
    [] c.builder = "jsonl" -> JsonlShape(m, c)
    [] c.builder = "ocr" -> OcrShape(m, c)
    [] OTHER -> MediaManifestShape(m)

\* The stages of a manifest that was returned.
Later == {"built", "checked", "admitted", "turned_away", "working", "extracted", "done"}

\* What the loops of the builders keep.
LoopInv == BaseInv /\ ScanningInv /\ CountingInv /\ CataloguingInv /\ OpenedInv /\ CutInv

\* It holds at the start.
LEMMA LoopInit == Init => LoopInv
<1> SUFFICES ASSUME Init PROVE LoopInv
  OBVIOUS
<1>1. stage = "called"
  BY DEF Init
<1> QED
  BY <1>1, BaseInit DEF LoopInv, ScanningInv, CountingInv, CataloguingInv, OpenedInv, CutInv

\* Every step keeps it.
LEMMA LoopStep == ASSUME LoopInv, [Next]_vars PROVE LoopInv'
  BY BaseStep, ScanningStep, CountingStep, CataloguingStep, OpenedStep, CutStep DEF LoopInv

\* A step that returns a manifest returns a whole one, of its builder's shape, which has
\* the digests of the files as they are when none has changed; any other leaves it alone.
LEMMA Returned ==
  ASSUME LoopInv, Next
  PROVE  \/ /\ stage \in BuilderStages /\ stage' = "built" /\ UNCHANGED <<call, disk, edits>>
            /\ ManifestIsWhole' /\ Shape(built', call) /\ manifest' = built'
            /\ edits = 0 => OnDisk(built)'
         \/ UNCHANGED built /\ (stage' \in Later => stage \in Later)
<1> USE DEF LoopInv
<1>1. CASE Cut
  <2>1. stage = "cutting" /\ ((stage' = "cutting" /\ UNCHANGED built) \/ stage' = "built")
    BY <1>1 DEF Cut, BuilderStep, Return
  <2>2. CASE stage' = "built"
    <3>1. /\ call.builder \in Cutters /\ UNCHANGED <<call, disk, edits>>
          /\ TextIsCovered' /\ TextShape(built', call) /\ manifest' = built'
          /\ edits = 0 => OnDisk(built)'
      BY <1>1, <2>2, CutReturns
    <3>2. ManifestIsWhole'
      BY <3>1 DEF ManifestIsWhole, Cutters
    <3>3. Shape(built', call)
      BY <3>1 DEF Shape, Cutters
    <3> QED
      BY <2>1, <2>2, <3>1, <3>2, <3>3 DEF BuilderStages
  <2> QED
    BY <2>1, <2>2 DEF Later
<1>2. CASE ReadOutline
  <2>1. stage = "opened" /\ ((stage' = "refused" /\ UNCHANGED built) \/ stage' = "built")
    BY <1>2 DEF ReadOutline, BuilderStep, Return, Refuse
  <2>2. CASE stage' = "built"
    <3>1. /\ call.builder = "longform" /\ UNCHANGED <<call, disk, edits>>
          /\ built'.shards = SectionShards(TextAsRead', SourceAsRead')
          /\ TextShape(built', call) /\ manifest' = built'
          /\ edits = 0 => OnDisk(built)'
      BY <1>2, <2>2, OutlineReturns
    <3>2. ManifestIsWhole'
      BY <3>1 DEF ManifestIsWhole, Cutters
    <3>3. Shape(built', call)
      BY <3>1 DEF Shape
    <3> QED
      BY <2>1, <2>2, <3>1, <3>2, <3>3 DEF BuilderStages
  <2> QED
    BY <2>1, <2>2 DEF Later
<1>3. CASE EndOfFile
  <2>1. /\ stage = "scanning" /\ ((stage' = "refused" /\ UNCHANGED built) \/ stage' = "built")
        /\ UNCHANGED <<call, disk, edits>>
    BY <1>3 DEF EndOfFile, BuilderStep, Return, Refuse
  <2>2. CASE stage' = "built"
    <3>1. /\ call.builder = "jsonl" /\ RowsAreCovered' /\ JsonlShape(built', call) /\ manifest' = built'
          /\ edits = 0 => OnDisk(built)'
      BY <1>3, <2>2, JsonlReturns
    <3>2. ManifestIsWhole'
      BY <2>1, <3>1 DEF ManifestIsWhole, Cutters
    <3>3. Shape(built', call)
      BY <3>1 DEF Shape, Cutters
    <3> QED
      BY <2>1, <2>2, <3>1, <3>2, <3>3 DEF BuilderStages
  <2> QED
    BY <2>1, <2>2 DEF Later
<1>4. CASE HashPages
  <2>1. /\ stage = "counted" /\ ((stage' = "refused" /\ UNCHANGED built) \/ stage' = "built")
        /\ UNCHANGED <<call, disk, edits>>
    BY <1>4 DEF HashPages, BuilderStep, Return, Refuse
  <2>2. CASE stage' = "built"
    <3>1. /\ call.builder = "ocr" /\ PagesAreCovered' /\ OcrShape(built', call) /\ manifest' = built'
          /\ edits = 0 => OnDisk(built)'
      BY <1>4, <2>2, OcrReturns
    <3>2. ManifestIsWhole'
      BY <2>1, <3>1 DEF ManifestIsWhole, Cutters
    <3>3. Shape(built', call)
      BY <3>1 DEF Shape, Cutters
    <3> QED
      BY <2>1, <2>2, <3>1, <3>2, <3>3 DEF BuilderStages
  <2> QED
    BY <2>1, <2>2 DEF Later
<1>5. CASE Probe \/ AddMedia
  <2>1. /\ stage \in {"probing", "sizing"} /\ UNCHANGED <<call, disk, edits>>
        /\ (stage' \in {"hashing", "rehashing", "refused"} /\ UNCHANGED built) \/ stage' = "built"
    BY <1>5 DEF Probe, AddMedia, Proceed, BuilderStep, Return, Refuse
  <2>2. CASE stage' = "built"
    <3>1. /\ MediaIsCatalogued' /\ MediaManifestShape(built') /\ manifest' = built'
          /\ edits = 0 => OnDisk(built)'
      BY <1>5, <2>2, ProbeKeeps, AddMediaKeeps
    <3>2. call.builder = "media"
      BY <2>1 DEF CataloguingInv
    <3>3. ManifestIsWhole'
      BY <2>1, <3>1, <3>2 DEF ManifestIsWhole, Cutters
    <3>4. Shape(built', call)
      BY <3>1, <3>2 DEF Shape, Cutters
    <3> QED
      BY <2>1, <2>2, <3>1, <3>3, <3>4 DEF BuilderStages
  <2> QED
    BY <2>1, <2>2 DEF Later
<1>6. CASE UNCHANGED built /\ ~(Cut \/ ReadOutline \/ EndOfFile \/ HashPages \/ Probe \/ AddMedia)
  <2>1. CASE TextNext \/ JsonlNext \/ ScanNext
    <3>1. OpenText => stage' \in {"opened", "refused"}
      BY DEF OpenText, BuilderStep, Refuse
    <3>2. ReadText \/ RecheckPath => stage' \in {"read", "cutting", "refused"}
      BY DEF ReadText, RecheckPath, BuilderStep, Refuse
    <3>3. OpenJsonl \/ ScanBlock => stage' \in {"scanning", "refused"}
      BY DEF OpenJsonl, ScanBlock, BuilderStep, Refuse
    <3>4. OpenOcr \/ CountPages => stage' \in {"counting", "counted", "refused"}
      BY DEF OpenOcr, CountPages, BuilderStep, Refuse
    <3>5. OpenMedia \/ HashBefore \/ HashAfter => stage' \in {"hashing", "probing", "sizing", "refused"}
      BY DEF OpenMedia, HashBefore, HashAfter, BuilderStep, Refuse
    <3>6. stage' \notin Later
      BY <1>6, <2>1, <3>1, <3>2, <3>3, <3>4, <3>5 DEF TextNext, JsonlNext, ScanNext, Later
    <3> QED
      BY <1>6, <3>6
  <2>2. CASE EditFile \/ HandEdit \/ Plan
    BY <1>6, <2>2 DEF EditFile, HandEdit, Plan
  <2>3. CASE StartChecks \/ StartVerifies \/ BeginPass \/ ProcessShard \/ Extract \/ Rehash
    <3>1. stage \in {"built", "checked", "admitted", "working", "extracted"}
      BY <2>3 DEF StartChecks, StartVerifies, BeginPass, ProcessShard, Extract, Rehash
    <3> QED
      BY <1>6, <3>1 DEF Later
  <2> QED
    BY <2>1, <2>2, <2>3 DEF Next
<1> QED
  BY <1>1, <1>2, <1>3, <1>4, <1>5, <1>6, BuiltBy

\* A call is of one of the builders.
LEMMA BuilderKinds ==
  ASSUME BaseInv
  PROVE  call.builder \in Cutters \/ call.builder \in {"longform", "jsonl", "ocr", "media"}
  BY CallsAssumption DEF BaseInv, CallRecord, Cutters

\* A manifest that stays is as whole as it was.
LEMMA WholeStays ==
  ASSUME BaseInv, ManifestIsWhole, UNCHANGED <<call, built>>, edits' = 0 => edits = 0
  PROVE  ManifestIsWhole'
<1>1. SourceAsRead' = SourceAsRead
  BY DEF SourceAsRead
<1>2. TextAsRead' = TextAsRead
  BY <1>1 DEF TextAsRead, Decoded, FromFile
<1>3. ASSUME TextIsCovered PROVE TextIsCovered'
  <2>1. Segments(TextAsRead)' = Segments(TextAsRead)
    BY <1>2, OfTheCall
  <2>2. SumOver(ShardCount, Segments(TextAsRead))' = SumOver(ShardCount, Segments(TextAsRead))
    BY <2>1 DEF SumOver, ShardCount, Step
  <2> QED
    BY <1>2, <1>3, <2>2 DEF TextIsCovered, Consecutive
<1>4. ASSUME RowsAreCovered PROVE RowsAreCovered'
  BY <1>1, <1>4 DEF RowsAreCovered, Consecutive
<1>5. ASSUME built.shards = SectionShards(TextAsRead, SourceAsRead)
      PROVE  (built.shards = SectionShards(TextAsRead, SourceAsRead))'
  BY <1>1, <1>2, <1>5
<1>6. ASSUME PagesAreCovered PROVE PagesAreCovered'
  BY <1>1, <1>6 DEF PagesAreCovered, CountsPages, Installed
<1>7. ASSUME MediaIsCatalogued PROVE MediaIsCatalogued'
  BY <1>7 DEF MediaIsCatalogued
<1> SUFFICES ASSUME built' # NoManifest PROVE ManifestIsWhole'
  BY DEF ManifestIsWhole
<1>8. built # NoManifest
  BY DEF NoManifest
<1>9. CASE call.builder \in Cutters
  BY <1>3, <1>8, <1>9 DEF ManifestIsWhole, Cutters
<1>10. CASE call.builder = "jsonl"
  BY <1>4, <1>8, <1>10 DEF ManifestIsWhole, Cutters
<1>11. CASE call.builder = "longform"
  BY <1>5, <1>8, <1>11 DEF ManifestIsWhole, Cutters
<1>12. CASE call.builder = "ocr"
  BY <1>6, <1>8, <1>12 DEF ManifestIsWhole, Cutters
<1>13. CASE call.builder = "media"
  BY <1>7, <1>8, <1>13 DEF ManifestIsWhole, Cutters
<1> QED
  BY <1>9, <1>10, <1>11, <1>12, <1>13, BuilderKinds

\* Every manifest that a builder returns declares the whole of the source it digested, in
\* order: for texts of any length, any chunk and overlap, files of any number of records, and
\* whatever other programs do to the file meanwhile.
THEOREM ManifestsAreWhole == Spec => []ManifestIsWhole
<1>1. Init => LoopInv /\ ManifestIsWhole
  BY LoopInit DEF Init, ManifestIsWhole
<1>2. ASSUME LoopInv, ManifestIsWhole, [Next]_vars PROVE LoopInv' /\ ManifestIsWhole'
  <2>1. LoopInv'
    BY <1>2, LoopStep
  <2>2. call' = call /\ (edits' = 0 => edits = 0)
    <3>1. CASE EditFile
      BY <1>2, <3>1, EditsAreCounted DEF LoopInv
    <3>2. CASE ~EditFile
      BY <1>2, <3>2, EditsAreCounted DEF LoopInv
    <3> QED
      BY <3>1, <3>2
  <2>3. ASSUME UNCHANGED built PROVE ManifestIsWhole'
    BY <1>2, <2>2, <2>3, WholeStays DEF LoopInv
  <2>4. ASSUME ~UNCHANGED built PROVE ManifestIsWhole'
    <3>1. Next
      BY <1>2, <2>4 DEF vars
    <3> QED
      BY <1>2, <2>4, <3>1, Returned
  <2> QED
    BY <2>1, <2>3, <2>4
<1> QED
  BY <1>1, <1>2, PTL DEF Spec

-----------------------------------------------------------------------------
(* A manifest is refused only if a file has changed                        *)

\* A manifest that was returned has its builder's shape, and the digests of the files as
\* they are when none has changed.
BuiltInv ==
  /\ LoopInv
  /\ stage \in Later => Shape(built, call) /\ (edits = 0 => OnDisk(built))

\* The digests stay those of the files as long as no file changes.
LEMMA DigestsStay ==
  ASSUME UNCHANGED <<call, disk, built>>, OnDisk(built)
  PROVE  OnDisk(built)'
  BY OnDiskStays

\* It holds at the start.
LEMMA BuiltInit == Init => BuiltInv
  BY LoopInit DEF BuiltInv, Later, Init

\* Every step keeps it.
LEMMA BuiltStep == ASSUME BuiltInv, [Next]_vars PROVE BuiltInv'
<1>1. LoopInv'
  BY LoopStep DEF BuiltInv
<1> SUFFICES ASSUME stage' \in Later PROVE Shape(built, call)' /\ (edits' = 0 => OnDisk(built)')
  BY <1>1 DEF BuiltInv
<1>2. CASE Next
  <2>1. CASE stage \in BuilderStages /\ stage' = "built"
    <3>1. UNCHANGED <<call, disk, edits>> /\ Shape(built', call) /\ (edits = 0 => OnDisk(built)')
      BY <1>2, <2>1, Returned DEF BuiltInv, BuilderStages, Later
    <3> QED
      BY <3>1 DEF Shape
  <2>2. CASE UNCHANGED built /\ stage \in Later
    <3>1. call' = call
      BY <1>2, EditsAreCounted DEF BuiltInv, LoopInv
    <3>2. Shape(built, call)'
      BY <2>2, <3>1 DEF BuiltInv
    <3>3. ASSUME edits' = 0 PROVE OnDisk(built)'
      <4>1. edits = 0 /\ disk' = disk
        BY <1>2, <3>3, EditsAreCounted DEF BuiltInv, LoopInv
      <4> QED
        BY <2>2, <3>1, <4>1, DigestsStay DEF BuiltInv
    <3> QED
      BY <3>2, <3>3
  <2> QED
    BY <1>2, <2>1, <2>2, Returned DEF BuiltInv
<1>3. CASE UNCHANGED vars
  <2>1. UNCHANGED <<call, disk, built, stage, edits>>
    BY <1>3 DEF vars
  <2> QED
    BY <2>1, DigestsStay DEF BuiltInv
<1> QED
  BY <1>2, <1>3

\* What the schema and the contract ask of a manifest, its builder has done, but for the
\* project's name and the text builder's workload.
LEMMA ContractOfShape ==
  ASSUME BaseInv, Shape(manifest, call), call.builder = "text" => call.workload \notin {"translation", "media_catalogue"}
  PROVE  ContractEnforced /\ Len(manifest.shards) \in 1 .. MaxShards
<1>1. CASE call.builder \in Cutters \cup {"longform"}
  <2>1. TextShape(manifest, call)
    BY <1>1 DEF Shape, Cutters
  <2>2. Len(manifest.shards) \in 1 .. MaxShards /\ DOMAIN manifest.shards = 1 .. Len(manifest.shards)
    BY <2>1 DEF TextShape
  <2>3. CASE call.builder = "translation"
    <3>1. manifest.workload = "translation" /\ manifest.processor = [type |-> "deepseek_batch"]
          /\ manifest.acceptance = "translation"
      BY <2>1, <2>3 DEF TextShape
    <3>2. TranslationContract(manifest)
      <4>1. DOMAIN manifest.sources = {1} /\ "sha256" \in DOMAIN manifest.sources[1]
        BY <2>1 DEF TextShape
      <4> QED
        BY <3>1, <4>1 DEF TranslationContract, Given
    <3>3. \A i \in DOMAIN manifest.shards : TranslationShard(manifest.shards[i])
      BY <2>1, <2>2, <2>3 DEF TextShape, TranslationShard, Given
    <3> QED
      BY <2>2, <3>1, <3>2, <3>3 DEF ContractEnforced, ContractHolds
  <2>4. CASE call.builder # "translation"
    <3>1. manifest.workload \notin {"translation", "media_catalogue"}
      BY <1>1, <2>1, <2>4 DEF TextShape, Cutters
    <3> QED
      BY <2>2, <3>1 DEF ContractEnforced
  <2> QED
    BY <2>3, <2>4
<1>2. CASE call.builder = "jsonl"
  BY <1>2 DEF Shape, JsonlShape, ContractEnforced, Cutters
<1>3. CASE call.builder = "ocr"
  BY <1>3 DEF Shape, OcrShape, ContractEnforced, Cutters
<1>4. CASE call.builder = "media"
  <2>1. MediaManifestShape(manifest)
    BY <1>4 DEF Shape, Cutters
  <2>2. /\ manifest.workload = "media_catalogue" /\ manifest.processor = [type |-> "copy_text"]
        /\ Len(manifest.shards) \in 1 .. MaxShards /\ DOMAIN manifest.shards = 1 .. Len(manifest.shards)
        /\ DOMAIN manifest.sources = 1 .. Len(manifest.shards)
        /\ \A i \in 1 .. Len(manifest.shards) : MediaShape(manifest.sources[i], manifest.shards[i], i)
    BY <2>1 DEF MediaManifestShape
  <2>3. \A i \in 1 .. Len(manifest.shards) :
          /\ DOMAIN manifest.sources[i] = {"type", "path", "sha256"}
          /\ manifest.sources[i].type \in {"audio", "video"}
          /\ DOMAIN manifest.shards[i].bounds = {"duration_seconds", "sha256", "sidecar_sha256"}
    <3> SUFFICES ASSUME NEW i \in 1 .. Len(manifest.shards)
                 PROVE  /\ DOMAIN manifest.sources[i] = {"type", "path", "sha256"}
                        /\ manifest.sources[i].type \in {"audio", "video"}
                        /\ DOMAIN manifest.shards[i].bounds = {"duration_seconds", "sha256", "sidecar_sha256"}
      OBVIOUS
    <3> DEFINE source == manifest.sources[i]
               shard  == manifest.shards[i]
    <3>1. MediaShape(source, shard, i)
      BY <2>2
    <3>2. source.type \in {"audio", "video"}
      BY <3>1 DEF MediaShape
    <3> HIDE DEF source, shard
    <3>3. DOMAIN source = {"type", "path", "sha256"} /\ DOMAIN shard.bounds = {"duration_seconds", "sha256", "sidecar_sha256"}
      BY <3>1, MediaFields
    <3> QED
      BY <3>2, <3>3 DEF source, shard
  <2>4. MediaContract(manifest)
    BY <2>2, <2>3 DEF MediaContract, Given
  <2>5. \A i \in DOMAIN manifest.shards : MediaShard(manifest.shards[i]) /\ MediaSidecar(manifest.shards[i])
    BY <2>2, <2>3 DEF MediaShard, MediaSidecar, Given
  <2> QED
    BY <2>2, <2>4, <2>5 DEF ContractEnforced, ContractHolds
<1> QED
  BY <1>1, <1>2, <1>3, <1>4, BuilderKinds

\* A source of a manifest as its builder returned it.
LEMMA SourcesOf ==
  ASSUME BaseInv, Shape(manifest, call), NEW i \in DOMAIN manifest.sources
  PROVE  /\ "sha256" \in DOMAIN manifest.sources[i]
         /\ call.builder # "media" => i = 1 /\ (Has(manifest.sources[i], "path") => manifest.sources[i].path = call.path)
         /\ call.builder \in {"text", "book", "translation", "longform"} =>
              (Has(manifest.sources[i], "path") <=> call.path # 0)
         /\ call.builder \in {"jsonl", "ocr", "media"} => Has(manifest.sources[i], "path")
<1>1. CASE call.builder \in Cutters \cup {"longform"}
  BY <1>1 DEF Shape, TextShape, Cutters, Has
<1>2. CASE call.builder = "jsonl"
  <2>1. manifest.sources = <<[type |-> "dataset", path |-> call.path, sha256 |-> manifest.sources[1].sha256]>>
    BY <1>2 DEF Shape, JsonlShape, Cutters
  <2> DEFINE sha == manifest.sources[1].sha256
  <2> HIDE DEF sha
  <2>2. manifest.sources = <<[type |-> "dataset", path |-> call.path, sha256 |-> sha]>>
    BY <2>1 DEF sha
  <2> QED
    BY <1>2, <2>2 DEF Has
<1>3. CASE call.builder = "ocr"
  <2> DEFINE sha == manifest.sources[1].sha256
             type == manifest.sources[1].type
  <2>1. manifest.sources = <<[type |-> type, path |-> call.path, sha256 |-> sha]>>
    BY <1>3 DEF Shape, OcrShape, Cutters
  <2> HIDE DEF sha, type
  <2> QED
    BY <1>3, <2>1 DEF Has
<1>4. CASE call.builder = "media"
  <2>1. MediaManifestShape(manifest)
    BY <1>4 DEF Shape, Cutters
  <2>2. MediaShape(manifest.sources[i], manifest.shards[i], i)
    BY <2>1 DEF MediaManifestShape
  <2>3. DOMAIN manifest.sources[i] = {"type", "path", "sha256"}
    BY <2>2, MediaFields
  <2> QED
    BY <1>4, <2>3 DEF Has
<1> QED
  BY <1>1, <1>2, <1>3, <1>4, BuilderKinds

\* A shard of a manifest as its builder returned it: the digests are those of its part and of
\* its source.
LEMMA ShardsOf ==
  ASSUME BaseInv, Shape(manifest, call), NEW i \in DOMAIN manifest.shards
  PROVE  LET shard == manifest.shards[i]
         IN  /\ i \in 1 .. Len(manifest.shards) /\ shard.source \in DOMAIN manifest.sources
             /\ call.builder # "media" => shard.source = 1
             /\ Has(shard, "path") <=> call.builder \in {"jsonl", "ocr"}
             /\ Has(shard, "text") <=> call.builder \notin {"jsonl", "ocr"}
             /\ Has(shard, "path") => shard.path = call.path
             /\ Has(shard, "text") =>
                  Declared(shard) = {shard.text} /\ DeclaredSource(shard) = {manifest.sources[shard.source].sha256}
             /\ call.builder = "jsonl" =>
                  /\ {"byte_start", "byte_end"} \subseteq DOMAIN shard.bounds
                  /\ Declared(shard) = {Slice(manifest.sources[1].sha256, shard.bounds)}
                  /\ DeclaredSource(shard) = {manifest.sources[1].sha256}
             /\ call.builder = "ocr" =>
                  shard.bounds = [page_number |-> i, page_start |-> i, page_end |-> i, page_count |-> Len(manifest.shards)]
<1> DEFINE shard == manifest.shards[i]
<1>1. CASE call.builder \in Cutters \cup {"longform"}
  <2>1. TextShape(manifest, call)
    BY <1>1 DEF Shape, Cutters
  <2>2. /\ i \in 1 .. Len(manifest.shards) /\ DOMAIN manifest.sources = {1}
        /\ DOMAIN shard = {"source", "text", "bounds"} /\ shard.source = 1
        /\ {"source_sha256", "shard_sha256"} \subseteq DOMAIN shard.bounds
        /\ shard.bounds.shard_sha256 = shard.text /\ shard.bounds.source_sha256 = manifest.sources[1].sha256
    BY <2>1 DEF TextShape
  <2> HIDE DEF shard
  <2>3. Declared(shard) = {shard.text} /\ DeclaredSource(shard) = {manifest.sources[1].sha256}
    BY <2>2 DEF Declared, DeclaredSource, Has
  <2> QED
    BY <1>1, <2>2, <2>3 DEF Has, Cutters, shard
<1>2. CASE call.builder = "jsonl"
  <2> DEFINE sha == manifest.sources[1].sha256
             b == shard.bounds
  <2>1. /\ i \in 1 .. Len(manifest.shards)
        /\ manifest.sources = <<[type |-> "dataset", path |-> call.path, sha256 |-> sha]>>
        /\ shard = [source |-> 1, path |-> call.path, bounds |-> b]
        /\ DOMAIN b = {"source_sha256", "byte_start", "byte_end", "row_start", "row_end", "row_count", "shard_sha256"}
        /\ b.source_sha256 = sha /\ b.shard_sha256 = Slice(sha, b)
    BY <1>2 DEF Shape, JsonlShape, Cutters
  <2>2. DOMAIN manifest.sources = {1}
    <3> HIDE DEF sha
    <3> QED
      BY <2>1
  <2>3. DOMAIN shard = {"source", "path", "bounds"} /\ shard.source = 1 /\ shard.path = call.path
    <3> HIDE DEF shard, b
    <3> QED
      BY <2>1
  <2> HIDE DEF shard
  <2>4. Declared(shard) = {Slice(sha, b)} /\ DeclaredSource(shard) = {sha}
    BY <2>1 DEF Declared, DeclaredSource, Has
  <2> QED
    BY <1>2, <2>1, <2>2, <2>3, <2>4 DEF Has, shard
<1>3. CASE call.builder = "ocr"
  <2> DEFINE sha == manifest.sources[1].sha256
             type == manifest.sources[1].type
             n == Len(manifest.shards)
             b == [page_number |-> i, page_start |-> i, page_end |-> i, page_count |-> n]
  <2>1. /\ i \in 1 .. Len(manifest.shards)
        /\ manifest.sources = <<[type |-> type, path |-> call.path, sha256 |-> sha]>>
        /\ shard = [source |-> 1, path |-> call.path, bounds |-> b]
    BY <1>3 DEF Shape, OcrShape, Cutters
  <2>2. DOMAIN manifest.sources = {1}
    <3> HIDE DEF sha, type
    <3> QED
      BY <2>1
  <2>3. DOMAIN shard = {"source", "path", "bounds"} /\ shard.source = 1 /\ shard.path = call.path /\ shard.bounds = b
    <3> HIDE DEF shard, b
    <3> QED
      BY <2>1
  <2> HIDE DEF shard
  <2> QED
    BY <1>3, <2>1, <2>2, <2>3 DEF Has, shard
<1>4. CASE call.builder = "media"
  <2>1. MediaManifestShape(manifest)
    BY <1>4 DEF Shape, Cutters
  <2>2. /\ i \in 1 .. Len(manifest.shards) /\ i \in DOMAIN manifest.sources
        /\ MediaShape(manifest.sources[i], shard, i) /\ manifest.workload = "media_catalogue"
    BY <2>1 DEF MediaManifestShape
  <2> HIDE DEF shard
  <2>3. /\ DOMAIN shard = {"source", "text", "bounds"} /\ shard.source = i
        /\ DOMAIN shard.bounds = {"duration_seconds", "sha256", "sidecar_sha256"}
        /\ shard.bounds.sha256 = manifest.sources[i].sha256 /\ shard.bounds.sidecar_sha256 = shard.text
    BY <2>2, MediaFields
  <2>4. Declared(shard) = {shard.text} /\ DeclaredSource(shard) = {manifest.sources[i].sha256}
    BY <2>2, <2>3 DEF Declared, DeclaredSource, Has
  <2> QED
    BY <1>4, <2>2, <2>3, <2>4 DEF Has, shard
<1> QED
  BY <1>1, <1>2, <1>3, <1>4, BuilderKinds

\* What start looks up in the files finds them as the builder left them: the paths, the
\* sources' digests and the digests of the shards that carry their text.
LEMMA InputsOfShape ==
  ASSUME BaseInv, Shape(manifest, call), edits = 0, OnDisk(manifest), built = manifest, ~NeverAdmitted
  PROVE  InputsSafe /\ SourcesDeclared /\ SourcesIntact /\ InlineIntact
<1>1. ASSUME NEW i \in DOMAIN manifest.sources, Has(manifest.sources[i], "path")
      PROVE  /\ manifest.sources[i].path \in DOMAIN disk
             /\ disk[manifest.sources[i].path].kind = "file"
             /\ manifest.sources[i].sha256 = disk[manifest.sources[i].path].bytes
  <2> DEFINE name == manifest.sources[i].path
  <2>1. /\ name \in DOMAIN disk
        /\ disk[name].kind \in {"file"} \cup (IF call.builder = "media" THEN {"barred"} ELSE {})
        /\ manifest.sources[i].sha256 = DigestOf(disk[name].bytes)
    BY <1>1 DEF OnDisk
  <2>2. disk[name].kind = "file"
    <3>1. call.builder = "media" => Safe(name)
      BY <1>1 DEF NeverAdmitted
    <3> QED
      BY <2>1, <3>1 DEF Safe, Barred
  <2>3. DigestOf(disk[name].bytes) = disk[name].bytes
    <3>1. CASE call.builder \in {"text", "translation"}
      <4>1. name = call.path /\ FromFile
        BY <1>1, <3>1, SourcesOf DEF FromFile
      <4>2. Source = disk[name].bytes
        BY <4>1 DEF Source
      <4>3. Source = Decoded(Source)
        BY <3>1, <4>1 DEF NeverAdmitted
      <4> QED
        BY <3>1, <4>2, <4>3 DEF DigestOf
    <3> QED
      BY <3>1 DEF DigestOf
  <2> QED
    BY <2>1, <2>2, <2>3
<1>2. \A i \in DOMAIN manifest.sources : "sha256" \in DOMAIN manifest.sources[i]
  BY SourcesOf
<1>3. SourcesIntact
  <2> SUFFICES ASSUME NEW i \in DOMAIN manifest.sources, Has(manifest.sources[i], "path")
               PROVE  /\ disk[manifest.sources[i].path].kind # "missing"
                      /\ i \in DOMAIN Verified /\ Has(manifest.sources[i], "sha256") => manifest.sources[i].sha256 = Verified[i]
    BY DEF SourcesIntact
  <2> QED
    BY <1>1 DEF Verified
<1>4. InputsSafe
  <2>1. \A i \in DOMAIN manifest.sources : SourceSafe(manifest.sources[i])
    BY <1>1, <1>2 DEF SourceSafe, Safe, Linked, Barred, Forbidden, Has
  <2>2. ASSUME NEW i \in DOMAIN manifest.shards PROVE ShardInputSafe(manifest.shards[i])
    <3> DEFINE shard == manifest.shards[i]
    <3> SUFFICES ASSUME Has(shard, "path")
                 PROVE  /\ shard.source \in DOMAIN manifest.sources
                        /\ Has(manifest.sources[shard.source], "path")
                        /\ manifest.sources[shard.source].path = shard.path
      BY DEF ShardInputSafe
    <3>1. shard.source \in DOMAIN manifest.sources /\ call.builder \in {"jsonl", "ocr"} /\ shard.path = call.path
      BY ShardsOf
    <3>2. Has(manifest.sources[shard.source], "path") /\ manifest.sources[shard.source].path = call.path
      BY <3>1, SourcesOf
    <3> QED
      BY <3>1, <3>2
  <2> QED
    BY <2>1, <2>2 DEF InputsSafe
<1>5. SourcesDeclared
  <2> SUFFICES ASSUME NEW i \in DOMAIN manifest.shards
               PROVE  LET shard == manifest.shards[i]
                      IN  /\ shard.source \in DOMAIN manifest.sources
                          /\ Has(manifest.sources[shard.source], "path") /\ manifest.workload # "ocr" => Declared(shard) # {}
    BY DEF SourcesDeclared
  <2> DEFINE shard == manifest.shards[i]
  <2>1. /\ shard.source \in DOMAIN manifest.sources
        /\ call.builder # "ocr" => Declared(shard) # {}
    BY ShardsOf
  <2>2. call.builder = "ocr" => manifest.workload = "ocr"
    BY DEF Shape, OcrShape, Cutters
  <2> QED
    BY <2>1, <2>2
<1>6. InlineIntact
  <2> SUFFICES ASSUME NEW i \in DOMAIN manifest.shards, Has(manifest.shards[i], "text")
               PROVE  InputIntact(manifest.shards[i], manifest.shards[i].text, Verified)
    BY DEF InlineIntact
  <2> DEFINE shard == manifest.shards[i]
  <2>1. /\ shard.source \in DOMAIN manifest.sources /\ Declared(shard) = {shard.text}
        /\ DeclaredSource(shard) = {manifest.sources[shard.source].sha256}
    BY ShardsOf
  <2>2. ASSUME shard.source \in DOMAIN Verified
        PROVE  Verified[shard.source] = manifest.sources[shard.source].sha256
    BY <1>1, <2>2 DEF Verified
  <2> QED
    BY <2>1, <2>2 DEF InputIntact
<1> QED
  BY <1>3, <1>4, <1>5, <1>6

\* Start's checks pass on every other manifest.
LEMMA RefusedStep == ASSUME BuiltInv, RefusedOnlyIfChanged, [Next]_vars PROVE RefusedOnlyIfChanged'
<1> SUFFICES ASSUME stage' = "turned_away", manifest' = built', edits' = 0
             PROVE  NeverAdmitted'
  BY DEF RefusedOnlyIfChanged
<1>1. CASE StartChecks \/ StartVerifies
  <2>1. UNCHANGED <<call, disk, edits, built, manifest>> /\ stage \in {"built", "checked"}
    BY <1>1 DEF StartChecks, StartVerifies, JobStep
  <2>2. ~(Parses /\ ContractEnforced /\ InputsSafe /\ SourcesDeclared /\ SourcesIntact /\ InlineIntact)
    BY <1>1 DEF StartChecks, StartVerifies, JobStep
  <2>3. NeverAdmitted
    <3> SUFFICES ASSUME ~NeverAdmitted PROVE FALSE
      OBVIOUS
    <3>1. BaseInv /\ Shape(manifest, call) /\ edits = 0 /\ OnDisk(manifest) /\ built = manifest
      BY <2>1 DEF BuiltInv, LoopInv, Later
    <3>2. InputsSafe /\ SourcesDeclared /\ SourcesIntact /\ InlineIntact
      BY <3>1, InputsOfShape
    <3>3. ContractEnforced /\ Len(manifest.shards) \in 1 .. MaxShards
      BY <3>1, ContractOfShape DEF NeverAdmitted
    <3>4. Parses
      BY <3>3 DEF Parses, NeverAdmitted
    <3> QED
      BY <2>2, <3>2, <3>3, <3>4
  <2> QED
    BY <2>1, <2>3 DEF NeverAdmitted, Source, Decoded, FromFile, Safe, Linked, Barred
<1>2. CASE ~(StartChecks \/ StartVerifies) /\ Next
  <2>1. stage' # "turned_away"
    <3>1. CASE TextNext \/ JsonlNext \/ ScanNext
      <4>1. stage \in BuilderStages
        BY <3>1, BuilderSteps
      <4>2. stage' \in Later => stage' = "built"
        BY <1>2, <4>1, Returned DEF BuiltInv, Later, BuilderStages
      <4> QED
        BY <4>2 DEF Later
    <3>2. CASE EditFile \/ HandEdit \/ Plan
      BY <3>2 DEF EditFile, HandEdit, Plan
    <3>3. CASE BeginPass \/ ProcessShard \/ Extract \/ Rehash
      BY <3>3 DEF BeginPass, ProcessShard, Extract, Rehash, Settle, JobStep
    <3> QED
      BY <1>2, <3>1, <3>2, <3>3 DEF Next
  <2> QED
    BY <2>1
<1>3. CASE UNCHANGED vars
  <2>1. NeverAdmitted
    BY <1>3 DEF vars, RefusedOnlyIfChanged
  <2> QED
    BY <1>3, <2>1 DEF vars, NeverAdmitted, Source, Decoded, FromFile, Safe, Linked, Barred
<1> QED
  BY <1>1, <1>2, <1>3

\* A manifest as its builder returned it is turned away only when a file has changed since the
\* builder began, or for a reason the builder shares with no other check: for every builder,
\* set of files and set of options (corpusStartSync).
THEOREM RefusalsAreExplained == Spec => []RefusedOnlyIfChanged
<1>1. Init => BuiltInv /\ RefusedOnlyIfChanged
  BY BuiltInit DEF Init, RefusedOnlyIfChanged
<1>2. BuiltInv /\ RefusedOnlyIfChanged /\ [Next]_vars => BuiltInv' /\ RefusedOnlyIfChanged'
  BY BuiltStep, RefusedStep
<1> QED
  BY <1>1, <1>2, PTL DEF Spec

-----------------------------------------------------------------------------
(* What is processed is what was declared                                  *)

\* The fields of a manifest.
Fields == {"workload", "processor", "acceptance", "sources", "shards"}

\* What one edit by hand leaves of the i-th shard: its path; its text, or the digests of it;
\* and of the bounds that are still there all but the ends and the page.
Kept(i) ==
  LET s == manifest.shards[i]
      b == built.shards[i]
  IN  /\ DOMAIN s = DOMAIN b
      /\ Has(b, "path") => s.path = b.path
      /\ Has(b, "text") => s.text = b.text \/ (s.bounds = b.bounds /\ manifest.workload = built.workload)
      /\ DOMAIN s.bounds \subseteq DOMAIN b.bounds
      /\ \A f \in DOMAIN s.bounds \ {"byte_end", "row_end", "page_number"} : s.bounds[f] = b.bounds[f]
      /\ Has(b.bounds, "page_start") => Has(s.bounds, "page_start")

\* And of a source: its path and, unless it is gone or that of no file, its digest.
SourceKept(i) ==
  LET s == manifest.sources[i]
      b == built.sources[i]
  IN  /\ Has(s, "path") <=> Has(b, "path")
      /\ Has(b, "path") => s.path = b.path
      /\ Has(s, "sha256") => s.sha256 = b.sha256 \/ (call.editable /\ s.sha256 = <<"x">>)

HandInv ==
  stage \in Later =>
    /\ DOMAIN built = Fields /\ DOMAIN manifest = Fields
    /\ manifest.workload \in {built.workload, "mixed"} /\ manifest.processor = built.processor
    /\ Len(manifest.shards) = Len(built.shards) /\ DOMAIN manifest.shards = DOMAIN built.shards
    /\ DOMAIN manifest.sources = DOMAIN built.sources
    /\ \A i \in DOMAIN built.shards : Kept(i)
    /\ \A i \in DOMAIN built.sources : SourceKept(i)

\* How far the pass has come.
PassInv ==
  /\ Listed(results)
  /\ stage \in BuilderStages \cup {"built", "checked", "admitted"} => results = <<>>
  /\ stage \in {"working", "extracted"} => SourcesDeclared /\ Len(results) < Len(built.shards)
  /\ stage = "working" => DOMAIN work = {"verified"}
  /\ stage = "extracted" => DOMAIN work = {"verified", "text"} /\ call.builder = "ocr"
  /\ stage = "done" => Len(results) = Len(built.shards)

\* With pdfinfo, the pages of a PDF have been counted once more.
Recounted ==
  built.sources[1].type = "pdf" /\ Installed("pdfinfo") /\ manifest = built => Len(built.shards) = Len(SourceAsRead)

\* The pages of a file that changes once at most: what was verified is what was digested, and
\* a text of other pages is not accepted, for the file has those still.
PagesInv ==
  call.builder = "ocr" /\ edits < 2 =>
    /\ stage \in Later /\ disk[call.path].bytes = SourceAsRead /\ disk[call.path].kind = "file" =>
         disk[call.path].type = built.sources[1].type
    /\ stage \in {"working", "extracted"} =>
         \/ 1 \in DOMAIN work.verified /\ work.verified[1] = SourceAsRead
         \/ edits = 1 /\ ~IsFile(call.path)
    /\ stage = "extracted" =>
         \/ edits = 1 /\ 1 \in DOMAIN work.verified /\ disk[call.path].bytes # work.verified[1]
         \/ work.text = Part(Len(results) + 1) /\ Recounted
    /\ (\E i \in DOMAIN results : results[i].ok) => Recounted

\* What has been committed.
CommittedInv ==
  \A i \in DOMAIN results : results[i].ok /\ (call.builder = "ocr" => edits < 2) => results[i].input = Part(i)

\* A field of a record is changed.
LEMMA FieldChanged ==
  ASSUME NEW r, NEW f \in DOMAIN r, NEW v, NEW t, t = [r EXCEPT ![f] = v]
  PROVE  DOMAIN t = DOMAIN r /\ t[f] = v /\ \A g \in DOMAIN r \ {f} : t[g] = r[g]
  OBVIOUS

\* A function on the first naturals is a sequence.
LEMMA FunctionIsSequence ==
  ASSUME NEW S, NEW n \in Nat, NEW t \in [1 .. n -> S]
  PROVE  t \in Seq(S) /\ Len(t) = n
  OBVIOUS

\* An element of a sequence is changed.
LEMMA ElementChanged ==
  ASSUME NEW s, DOMAIN s = 1 .. Len(s), Len(s) \in Nat, NEW i \in DOMAIN s, NEW v, NEW t, t = [s EXCEPT ![i] = v]
  PROVE  DOMAIN t = DOMAIN s /\ Len(t) = Len(s) /\ t[i] = v /\ \A j \in DOMAIN s \ {i} : t[j] = s[j]
<1> DEFINE n == Len(s)
           S == {s[j] : j \in 1 .. n} \cup {v}
<1>1. n \in Nat /\ DOMAIN s = 1 .. n
  OBVIOUS
<1>2. \A j \in 1 .. n : s[j] \in S
  OBVIOUS
<1>3. v \in S
  OBVIOUS
<1> HIDE DEF S, n
<1>4. DOMAIN t = 1 .. n /\ t[i] = v /\ \A j \in (1 .. n) \ {i} : t[j] = s[j]
  BY <1>1
<1>5. t = [j \in 1 .. n |-> t[j]]
  BY <1>1
<1>6. \A j \in 1 .. n : t[j] \in S
  BY <1>2, <1>3, <1>4
<1>7. t \in [1 .. n -> S]
  BY <1>5, <1>6
<1>8. Len(t) = n
  BY <1>1, <1>7, FunctionIsSequence
<1> QED
  BY <1>1, <1>4, <1>8 DEF n

\* What an edit by hand leaves of a shard.
LEMMA EditedShard ==
  ASSUME NEW shard, {"source", "bounds"} \subseteq DOMAIN shard, NEW edit \in ShardEdits(shard)
  PROVE  /\ DOMAIN edit = DOMAIN shard
         /\ Has(shard, "path") => edit.path = shard.path
         /\ Has(shard, "text") => edit.text = shard.text \/ edit.bounds = shard.bounds
         /\ DOMAIN edit.bounds \subseteq DOMAIN shard.bounds
         /\ \A f \in DOMAIN edit.bounds \ {"byte_end", "row_end", "page_number"} : edit.bounds[f] = shard.bounds[f]
         /\ Has(shard.bounds, "page_start") => Has(edit.bounds, "page_start")
<1> DEFINE bounds == shard.bounds
           Changed(b) == /\ DOMAIN b \subseteq DOMAIN bounds
                         /\ \A f \in DOMAIN b \ {"byte_end", "row_end", "page_number"} : b[f] = bounds[f]
                         /\ Has(bounds, "page_start") => Has(b, "page_start")
<1>1. ASSUME NEW b, Changed(b), edit = [shard EXCEPT !.bounds = b]
      PROVE  /\ DOMAIN edit = DOMAIN shard /\ edit.bounds = b
             /\ \A f \in DOMAIN shard \ {"bounds"} : edit[f] = shard[f]
  BY <1>1
<1>2. ASSUME NEW f \in {"source", "text"}, f \in DOMAIN shard, NEW v, edit = [shard EXCEPT ![f] = v]
      PROVE  /\ DOMAIN edit = DOMAIN shard /\ edit.bounds = bounds
             /\ \A g \in DOMAIN shard \ {f} : edit[g] = shard[g]
  BY <1>2
<1>3. \/ \E b : Changed(b) /\ edit = [shard EXCEPT !.bounds = b]
      \/ \E f \in {"source", "text"} : f \in DOMAIN shard /\ \E v : edit = [shard EXCEPT ![f] = v]
  <2>1. CASE \E field \in DOMAIN bounds \cap {"shard_sha256", "source_sha256", "sidecar_sha256", "page_count"} :
               edit = [shard EXCEPT !.bounds = Without(bounds, field)]
    <3>1. PICK field \in DOMAIN bounds \cap {"shard_sha256", "source_sha256", "sidecar_sha256", "page_count"} :
               edit = [shard EXCEPT !.bounds = Without(bounds, field)]
      BY <2>1
    <3>2. Changed(Without(bounds, field))
      BY DEF Without, Has
    <3> HIDE DEF Changed
    <3> QED
      BY <3>1, <3>2
  <2>2. CASE Has(shard, "text") /\ edit = [shard EXCEPT !.text = <<"w", "h", "w">>]
    BY <2>2 DEF Has
  <2>3. ASSUME NEW f \in {"byte_end", "row_end", "page_number"}, NEW v, edit = [shard EXCEPT !.bounds[f] = v]
        PROVE  \E b : Changed(b) /\ edit = [shard EXCEPT !.bounds = b]
    <3> DEFINE b == [bounds EXCEPT ![f] = v]
    <3>1. Changed(b)
      BY DEF Has
    <3>2. edit = [shard EXCEPT !.bounds = b]
      BY <2>3
    <3> HIDE DEF Changed, b
    <3> QED
      BY <3>1, <3>2
  <2>4. CASE edit = [shard EXCEPT !.bounds.byte_end = @ - 1]
    <3>1. edit = [shard EXCEPT !.bounds["byte_end"] = bounds["byte_end"] - 1]
      BY <2>4
    <3> HIDE DEF Changed
    <3> QED
      BY <2>3, <3>1
  <2>5. CASE edit = [shard EXCEPT !.bounds.row_end = @ + 1]
    <3>1. edit = [shard EXCEPT !.bounds["row_end"] = bounds["row_end"] + 1]
      BY <2>5
    <3> HIDE DEF Changed
    <3> QED
      BY <2>3, <3>1
  <2>6. CASE edit = [shard EXCEPT !.bounds.page_number = @ + 1]
    <3>1. edit = [shard EXCEPT !.bounds["page_number"] = bounds["page_number"] + 1]
      BY <2>6
    <3> HIDE DEF Changed
    <3> QED
      BY <2>3, <3>1
  <2>7. CASE edit = [shard EXCEPT !.source = Len(manifest.sources) + 1]
    BY <2>7
  <2> HIDE DEF Changed
  <2> QED
    BY <2>1, <2>2, <2>4, <2>5, <2>6, <2>7 DEF ShardEdits
<1>4. CASE \E b : Changed(b) /\ edit = [shard EXCEPT !.bounds = b]
  <2>1. PICK b : Changed(b) /\ edit = [shard EXCEPT !.bounds = b]
    BY <1>4
  <2>2. /\ DOMAIN edit = DOMAIN shard /\ edit.bounds = b
        /\ \A f \in DOMAIN shard \ {"bounds"} : edit[f] = shard[f]
    BY <1>1, <2>1
  <2> QED
    BY <2>1, <2>2 DEF Has
<1>5. CASE \E f \in {"source", "text"} : f \in DOMAIN shard /\ \E v : edit = [shard EXCEPT ![f] = v]
  <2>0. PICK f \in {"source", "text"} : f \in DOMAIN shard /\ \E v : edit = [shard EXCEPT ![f] = v]
    BY <1>5
  <2>1. PICK v : edit = [shard EXCEPT ![f] = v]
    BY <2>0
  <2>2. /\ DOMAIN edit = DOMAIN shard /\ edit.bounds = bounds
        /\ \A g \in DOMAIN shard \ {f} : edit[g] = shard[g]
    BY <1>2, <2>0, <2>1
  <2> QED
    BY <2>0, <2>2 DEF Has
<1> QED
  BY <1>3, <1>4, <1>5

\* A manifest that is returned has the fields of one.
LEMMA ReturnedFields ==
  ASSUME Next, stage' = "built", stage # "built", ~EditFile
  PROVE  DOMAIN built' = Fields
<1>0. \A w, p, a, so, sh :
         DOMAIN [workload |-> w, processor |-> p, acceptance |-> a, sources |-> so, shards |-> sh] = Fields
  BY DEF Fields
<1>1. CASE Cut
  <2>1. stage = "cutting" /\ call.builder \in Cutters
    BY <1>1 DEF Cut
  <2>2. PICK shards : built' = CutManifest(shards)
    BY <1>1, Zenon DEF Cut, Return, BuilderStep
  <2>3. \E w, p, a, so : CutManifest(shards) = [workload |-> w, processor |-> p, acceptance |-> a, sources |-> so, shards |-> shards]
    <3>1. \A w, p : \E u, q, a, so : ManifestOf(w, p, work.digest, shards)
                       = [workload |-> u, processor |-> q, acceptance |-> a, sources |-> so, shards |-> shards]
      BY Zenon DEF ManifestOf
    <3>2. PICK w, p : CutManifest(shards) = ManifestOf(w, p, work.digest, shards)
      BY <2>1 DEF CutManifest, TextManifest, BookManifest, TranslationManifest, Cutters
    <3>3. PICK u, q, a, so : ManifestOf(w, p, work.digest, shards)
                       = [workload |-> u, processor |-> q, acceptance |-> a, sources |-> so, shards |-> shards]
      BY <3>1
    <3>4. CutManifest(shards) = [workload |-> u, processor |-> q, acceptance |-> a, sources |-> so, shards |-> shards]
      BY <3>2, <3>3
    <3> QED
      BY <3>4, Zenon
  <2> QED
    BY <1>0, <2>2, <2>3
<1>2. CASE ReadOutline
  <2>1. built' = LongformManifest(Source, SectionShards(Decoded(Source), Source))
    BY <1>2 DEF ReadOutline, Return, Refuse, BuilderStep
  <2> QED
    BY <1>0, <2>1, Zenon DEF LongformManifest, ManifestOf
<1>3. CASE EndOfFile
  <2>1. built' = JsonlManifest(EndScan(work))
    BY <1>3 DEF EndOfFile, Return, Refuse, BuilderStep
  <2> QED
    BY <1>0, <2>1, Zenon DEF JsonlManifest
<1>4. CASE HashPages
  <2>1. built' = OcrManifest(work.pages, disk[call.path].bytes)
    BY <1>4 DEF HashPages, Return, Refuse, BuilderStep
  <2> QED
    BY <1>0, <2>1, Zenon DEF OcrManifest
<1>5. CASE Probe \/ AddMedia
  <2>1. \E c : built' = MediaManifest(c)
    BY <1>5 DEF Probe, AddMedia, Proceed, Return, Refuse, BuilderStep
  <2> QED
    BY <1>0, <2>1, Zenon DEF MediaManifest
<1>6. CASE ~(Cut \/ ReadOutline \/ EndOfFile \/ HashPages \/ Probe \/ AddMedia)
  <2> USE DEF BuilderStep, Refuse, JobStep
  <2>1. ~TextNext
    BY <1>6 DEF TextNext, OpenText, ReadText, RecheckPath
  <2>2. ~JsonlNext
    BY <1>6 DEF JsonlNext, OpenJsonl, ScanBlock
  <2>3. ~ScanNext
    BY <1>6 DEF ScanNext, OpenOcr, CountPages, OpenMedia, HashBefore, HashAfter
  <2>4. ~(HandEdit \/ Plan)
    BY DEF HandEdit, Plan
  <2>5. ~(StartChecks \/ StartVerifies \/ BeginPass \/ ProcessShard \/ Extract \/ Rehash)
    BY DEF StartChecks, StartVerifies, BeginPass, ProcessShard, Extract, Rehash, Settle
  <2> QED
    BY <2>1, <2>2, <2>3, <2>4, <2>5 DEF Next
<1> QED
  BY <1>1, <1>2, <1>3, <1>4, <1>5, <1>6

\* After it was returned, the manifest is changed by hand or not at all.
LEMMA ChangedByHand ==
  ASSUME Next, stage \in Later, stage' \in Later, ~HandEdit
  PROVE  UNCHANGED <<built, manifest>>
<1>1. ~(TextNext \/ JsonlNext \/ ScanNext)
  BY BuilderSteps DEF BuilderStages, Later
<1>2. EditFile \/ Plan => UNCHANGED <<built, manifest>>
  BY DEF EditFile, Plan
<1>3. StartChecks \/ StartVerifies \/ BeginPass \/ ProcessShard \/ Extract \/ Rehash => UNCHANGED <<built, manifest>>
  BY DEF StartChecks, StartVerifies, BeginPass, ProcessShard, Extract, Rehash, Settle, JobStep
<1> QED
  BY <1>1, <1>2, <1>3 DEF Next

\* One edit by hand leaves of the manifest what HandInv says.
LEMMA HandEditKeeps ==
  ASSUME BuiltInv, HandInv, HandEdit
  PROVE  HandInv'
<1> DEFINE m == manifest
           t == manifest'
<1>1. /\ stage = "built" /\ m = built /\ UNCHANGED <<call, stage, built>>
      /\ \/ \E i \in DOMAIN m.shards : \E shard \in ShardEdits(m.shards[i]) : t = [m EXCEPT !.shards[i] = shard]
         \/ \E source \in SourceEdits(m.sources[1]) : t = [m EXCEPT !.sources[1] = source]
         \/ t = [m EXCEPT !.workload = "mixed"]
      /\ call.editable
  BY DEF HandEdit
<1>2. DOMAIN m = Fields /\ Shape(m, call) /\ BaseInv
  BY <1>1 DEF HandInv, Later, BuiltInv, LoopInv
<1>3. /\ DOMAIN m.shards = 1 .. Len(m.shards) /\ Len(m.shards) \in Nat
      /\ \A i \in DOMAIN m.shards : {"source", "bounds"} \subseteq DOMAIN m.shards[i]
      /\ DOMAIN m.sources = 1 .. Len(m.sources) /\ Len(m.sources) \in Nat /\ 1 \in DOMAIN m.sources
  <2>1. CASE call.builder \in Cutters \cup {"longform"}
    <3>1. TextShape(m, call)
      BY <1>2, <2>1 DEF Shape, Cutters
    <3> QED
      BY <3>1, LimitsAssumption DEF TextShape
  <2>2. CASE call.builder = "jsonl"
    <3>1. JsonlShape(m, call)
      BY <1>2, <2>2 DEF Shape, Cutters
    <3> DEFINE sha == m.sources[1].sha256
               b(i) == m.shards[i].bounds
    <3>2. /\ DOMAIN m.shards = 1 .. Len(m.shards) /\ Len(m.shards) \in 1 .. MaxShards
          /\ \A i \in DOMAIN m.shards : m.shards[i] = [source |-> 1, path |-> call.path, bounds |-> b(i)]
          /\ m.sources = <<[type |-> "dataset", path |-> call.path, sha256 |-> sha]>>
      BY <3>1 DEF JsonlShape
    <3>3. DOMAIN m.sources = 1 .. Len(m.sources) /\ Len(m.sources) \in Nat /\ 1 \in DOMAIN m.sources
      <4> HIDE DEF sha
      <4> QED
        BY <3>2
    <3>4. ASSUME NEW i \in DOMAIN m.shards PROVE {"source", "bounds"} \subseteq DOMAIN m.shards[i]
      <4> DEFINE shard == m.shards[i]
                 bounds == b(i)
      <4>1. shard = [source |-> 1, path |-> call.path, bounds |-> bounds]
        BY <3>2
      <4> HIDE DEF shard, bounds
      <4>2. DOMAIN shard = {"source", "path", "bounds"}
        BY <4>1
      <4> QED
        BY <4>2 DEF shard
    <3> QED
      BY <3>2, <3>3, <3>4, LimitsAssumption
  <2>3. CASE call.builder = "ocr"
    <3>1. OcrShape(m, call)
      BY <1>2, <2>3 DEF Shape, Cutters
    <3> DEFINE sha == m.sources[1].sha256
               type == m.sources[1].type
               n == Len(m.shards)
    <3>2. /\ DOMAIN m.shards = 1 .. n /\ n \in 1 .. MaxShards
          /\ \A i \in DOMAIN m.shards :
               m.shards[i] = [source |-> 1, path |-> call.path,
                              bounds |-> [page_number |-> i, page_start |-> i, page_end |-> i, page_count |-> n]]
          /\ m.sources = <<[type |-> type, path |-> call.path, sha256 |-> sha]>>
      BY <3>1 DEF OcrShape
    <3>3. DOMAIN m.sources = 1 .. Len(m.sources) /\ Len(m.sources) \in Nat /\ 1 \in DOMAIN m.sources
      <4> HIDE DEF sha, type
      <4> QED
        BY <3>2
    <3>4. ASSUME NEW i \in DOMAIN m.shards PROVE {"source", "bounds"} \subseteq DOMAIN m.shards[i]
      <4> DEFINE shard == m.shards[i]
                 bounds == [page_number |-> i, page_start |-> i, page_end |-> i, page_count |-> n]
      <4>1. shard = [source |-> 1, path |-> call.path, bounds |-> bounds]
        BY <3>2
      <4> HIDE DEF shard, bounds
      <4>2. DOMAIN shard = {"source", "path", "bounds"}
        BY <4>1
      <4> QED
        BY <4>2 DEF shard
    <3> QED
      BY <3>2, <3>3, <3>4, LimitsAssumption
  <2>4. CASE call.builder = "media"
    <3>1. MediaManifestShape(m)
      BY <1>2, <2>4 DEF Shape, Cutters
    <3>2. /\ DOMAIN m.shards = 1 .. Len(m.shards) /\ Len(m.shards) \in 1 .. MaxShards
          /\ DOMAIN m.sources = 1 .. Len(m.sources) /\ Len(m.sources) = Len(m.shards)
          /\ \A i \in DOMAIN m.shards : MediaShape(m.sources[i], m.shards[i], i)
      BY <3>1 DEF MediaManifestShape
    <3>3. ASSUME NEW i \in DOMAIN m.shards PROVE {"source", "bounds"} \subseteq DOMAIN m.shards[i]
      <4> DEFINE source == m.sources[i]
                 shard  == m.shards[i]
      <4>1. MediaShape(source, shard, i)
        BY <3>2
      <4> HIDE DEF source, shard
      <4>2. DOMAIN shard = {"source", "text", "bounds"}
        BY <4>1, MediaFields
      <4> QED
        BY <4>2 DEF shard
    <3> QED
      BY <3>2, <3>3, LimitsAssumption
  <2> QED
    BY <1>2, <2>1, <2>2, <2>3, <2>4, BuilderKinds
<1>4. HandInv' <=>
        /\ DOMAIN built = Fields /\ DOMAIN t = Fields
        /\ t.workload \in {built.workload, "mixed"} /\ t.processor = built.processor
        /\ Len(t.shards) = Len(built.shards) /\ DOMAIN t.shards = DOMAIN built.shards
        /\ DOMAIN t.sources = DOMAIN built.sources
        /\ \A i \in DOMAIN built.shards : Kept(i)'
        /\ \A i \in DOMAIN built.sources : SourceKept(i)'
  BY <1>1 DEF HandInv, Later
<1>5. \A i : t.shards[i] = built.shards[i] => Kept(i)'
  BY <1>1 DEF Kept, Has
<1>6. \A i : t.sources[i] = built.sources[i] => SourceKept(i)'
  BY <1>1 DEF SourceKept, Has
<1>7. CASE \E i \in DOMAIN m.shards : \E shard \in ShardEdits(m.shards[i]) : t = [m EXCEPT !.shards[i] = shard]
  <2>0. PICK i \in DOMAIN m.shards : \E shard \in ShardEdits(m.shards[i]) : t = [m EXCEPT !.shards[i] = shard]
    BY <1>7
  <2>1. PICK shard \in ShardEdits(m.shards[i]) : t = [m EXCEPT !.shards[i] = shard]
    BY <2>0
  <2> DEFINE shards == [m.shards EXCEPT ![i] = shard]
  <2>2. t = [m EXCEPT !["shards"] = shards]
    BY <2>1
  <2>3. DOMAIN t = Fields /\ t.shards = shards /\ \A g \in Fields \ {"shards"} : t[g] = m[g]
    <3> HIDE DEF shards
    <3>1. "shards" \in DOMAIN m
      BY <1>2 DEF Fields
    <3>2. DOMAIN t = DOMAIN m /\ t["shards"] = shards /\ \A g \in DOMAIN m \ {"shards"} : t[g] = m[g]
      BY <2>2, <3>1, FieldChanged
    <3> QED
      BY <1>2, <3>2
  <2>4. /\ DOMAIN t.shards = DOMAIN m.shards /\ Len(t.shards) = Len(m.shards) /\ t.shards[i] = shard
        /\ \A j \in DOMAIN m.shards \ {i} : t.shards[j] = m.shards[j]
    BY <1>3, <2>3, ElementChanged
  <2>5. t.workload = built.workload /\ t.processor = built.processor /\ t.sources = built.sources
    BY <1>1, <2>3 DEF Fields
  <2>6. Kept(i)'
    <3> DEFINE b == m.shards[i]
    <3>1. {"source", "bounds"} \subseteq DOMAIN b
      BY <1>3
    <3>2. /\ DOMAIN shard = DOMAIN b
          /\ Has(b, "path") => shard.path = b.path
          /\ Has(b, "text") => shard.text = b.text \/ shard.bounds = b.bounds
          /\ DOMAIN shard.bounds \subseteq DOMAIN b.bounds
          /\ \A f \in DOMAIN shard.bounds \ {"byte_end", "row_end", "page_number"} : shard.bounds[f] = b.bounds[f]
          /\ Has(b.bounds, "page_start") => Has(shard.bounds, "page_start")
      BY <3>1, EditedShard
    <3> QED
      BY <1>1, <2>4, <2>5, <3>2 DEF Kept, Has
  <2> QED
    BY <1>1, <1>2, <1>4, <1>5, <1>6, <2>3, <2>4, <2>5, <2>6
<1>8. CASE \E source \in SourceEdits(m.sources[1]) : t = [m EXCEPT !.sources[1] = source]
  <2>1. PICK source \in SourceEdits(m.sources[1]) : t = [m EXCEPT !.sources[1] = source]
    BY <1>8
  <2> DEFINE sources == [m.sources EXCEPT ![1] = source]
  <2>2. t = [m EXCEPT !["sources"] = sources]
    BY <2>1
  <2>3. DOMAIN t = Fields /\ t.sources = sources /\ \A g \in Fields \ {"sources"} : t[g] = m[g]
    <3> HIDE DEF sources
    <3>1. "sources" \in DOMAIN m
      BY <1>2 DEF Fields
    <3>2. DOMAIN t = DOMAIN m /\ t["sources"] = sources /\ \A g \in DOMAIN m \ {"sources"} : t[g] = m[g]
      BY <2>2, <3>1, FieldChanged
    <3> QED
      BY <1>2, <3>2
  <2>4. /\ DOMAIN t.sources = DOMAIN m.sources /\ t.sources[1] = source
        /\ \A j \in DOMAIN m.sources \ {1} : t.sources[j] = m.sources[j]
    BY <1>3, <2>3, ElementChanged
  <2>5. t.workload = built.workload /\ t.processor = built.processor /\ t.shards = built.shards
    BY <1>1, <2>3 DEF Fields
  <2>6. SourceKept(1)'
    <3> DEFINE b == m.sources[1]
    <3>1. "sha256" \in DOMAIN b
      BY <1>2, <1>3, SourcesOf
    <3>2. source = Without(b, "sha256") \/ source = [b EXCEPT !["sha256"] = <<"x">>]
      BY <2>1 DEF SourceEdits
    <3>3. /\ Has(source, "path") <=> Has(b, "path")
          /\ Has(b, "path") => source.path = b.path
          /\ Has(source, "sha256") => source.sha256 = <<"x">>
      <4> HIDE DEF b
      <4>1. CASE source = Without(b, "sha256")
        BY <4>1 DEF Without, Has
      <4>2. CASE source = [b EXCEPT !["sha256"] = <<"x">>]
        <5>1. DOMAIN source = DOMAIN b /\ source["sha256"] = <<"x">> /\ \A g \in DOMAIN b \ {"sha256"} : source[g] = b[g]
          BY <3>1, <4>2, FieldChanged
        <5> QED
          BY <5>1 DEF Has
      <4> QED
        BY <3>2, <4>1, <4>2
    <3> QED
      BY <1>1, <2>4, <3>3 DEF SourceKept
  <2> QED
    BY <1>1, <1>2, <1>4, <1>5, <1>6, <2>3, <2>4, <2>5, <2>6
<1>9. CASE t = [m EXCEPT !.workload = "mixed"]
  <2>1. "workload" \in DOMAIN m /\ t = [m EXCEPT !["workload"] = "mixed"]
    BY <1>2, <1>9 DEF Fields
  <2>2. DOMAIN t = Fields /\ t["workload"] = "mixed" /\ \A g \in Fields \ {"workload"} : t[g] = m[g]
    BY <1>2, <2>1, FieldChanged
  <2>3. t.workload = "mixed" /\ t.processor = built.processor /\ t.shards = built.shards /\ t.sources = built.sources
    BY <1>1, <2>2 DEF Fields
  <2> QED
    BY <1>1, <1>2, <1>4, <1>5, <1>6, <2>2, <2>3
<1> QED
  BY <1>1, <1>7, <1>8, <1>9

\* Every step keeps it.
LEMMA HandStep == ASSUME BuiltInv, HandInv, [Next]_vars PROVE HandInv'
<1> SUFFICES ASSUME stage' \in Later PROVE HandInv'
  BY DEF HandInv
<1>1. CASE UNCHANGED vars
  BY <1>1 DEF vars, HandInv, Kept, SourceKept
<1>2. CASE HandEdit
  BY <1>2, HandEditKeeps
<1>3. CASE Next /\ ~HandEdit /\ stage \in Later
  <2>1. UNCHANGED <<built, manifest>>
    BY <1>3, ChangedByHand
  <2>2. call' = call
    BY <1>3, EditsAreCounted DEF BuiltInv, LoopInv
  <2> QED
    BY <1>3, <2>1, <2>2 DEF HandInv, Kept, SourceKept
<1>4. CASE Next /\ stage \notin Later
  <2>1. stage' = "built" /\ manifest' = built'
    BY <1>4, Returned DEF BuiltInv
  <2>2. ~EditFile
    BY <1>4 DEF EditFile
  <2>3. DOMAIN built' = Fields
    BY <1>4, <2>1, <2>2, ReturnedFields DEF Later
  <2>4. \A i : Kept(i)' /\ SourceKept(i)'
    BY <2>1 DEF Kept, SourceKept, Has
  <2> QED
    BY <2>1, <2>3, <2>4 DEF HandInv
<1> QED
  BY <1>1, <1>2, <1>3, <1>4

\* The shards that a builder declared.
LEMMA BuiltShards ==
  ASSUME BaseInv, Shape(built, call)
  PROVE  /\ Len(built.shards) \in Nat \ {0} /\ DOMAIN built.shards = 1 .. Len(built.shards)
         /\ \A i \in DOMAIN built.shards :
              LET b == built.shards[i]
              IN  /\ Has(b, "text") <=> call.builder \notin {"jsonl", "ocr"}
                  /\ Has(b, "path") <=> call.builder \in {"jsonl", "ocr"}
                  /\ Has(b, "path") => b.path = call.path
                  /\ call.builder \in Cutters \cup {"longform"} =>
                       Has(b.bounds, "shard_sha256") /\ b.bounds.shard_sha256 = b.text
                  /\ call.builder = "media" =>
                       /\ ~Has(b.bounds, "shard_sha256") /\ Has(b.bounds, "sidecar_sha256")
                       /\ b.bounds.sidecar_sha256 = b.text
                  /\ call.builder = "jsonl" =>
                       /\ Has(b.bounds, "byte_end") /\ b.bounds.shard_sha256 = Slice(SourceAsRead, b.bounds)
                  /\ call.builder = "ocr" =>
                       b.bounds = [page_number |-> i, page_start |-> i, page_end |-> i, page_count |-> Len(built.shards)]
         /\ call.builder \in {"jsonl", "ocr"} =>
              DOMAIN built.sources = {1} /\ Has(built.sources[1], "path") /\ built.sources[1].path = call.path
         /\ call.builder = "media" => built.workload = "media_catalogue"
         /\ call.builder = "jsonl" => built.workload = "dataset_transform"
         /\ call.builder = "ocr" => built.workload = "ocr"
         /\ built.processor.type = "local_ocr" <=> call.builder = "ocr"
<1> DEFINE n == Len(built.shards)
           shard(i) == built.shards[i]
<1>1. CASE call.builder \in Cutters \cup {"longform"}
  <2>1. TextShape(built, call)
    BY <1>1 DEF Shape, Cutters
  <2>2. /\ n \in Nat \ {0} /\ DOMAIN built.shards = 1 .. n
        /\ \A i \in DOMAIN built.shards :
             /\ DOMAIN shard(i) = {"source", "text", "bounds"}
             /\ "shard_sha256" \in DOMAIN shard(i).bounds
             /\ shard(i).bounds.shard_sha256 = shard(i).text
        /\ built.processor = [type |-> IF call.builder = "text" THEN "copy_text" ELSE "deepseek_batch"]
    BY <2>1, LimitsAssumption DEF TextShape
  <2> QED
    BY <1>1, <2>2 DEF Has, Cutters
<1>2. CASE call.builder = "jsonl"
  <2> DEFINE sha == built.sources[1].sha256
             b(i) == built.shards[i].bounds
  <2>1. JsonlShape(built, call)
    BY <1>2 DEF Shape, Cutters
  <2>2. /\ n \in Nat \ {0} /\ DOMAIN built.shards = 1 .. n
        /\ built.workload = "dataset_transform" /\ built.processor = [type |-> "copy_text"]
        /\ built.sources = <<[type |-> "dataset", path |-> call.path, sha256 |-> sha]>>
        /\ \A i \in DOMAIN built.shards :
             /\ shard(i) = [source |-> 1, path |-> call.path, bounds |-> b(i)]
             /\ "byte_end" \in DOMAIN b(i) /\ b(i).shard_sha256 = Slice(sha, b(i))
    BY <2>1, LimitsAssumption DEF JsonlShape
  <2>3. DOMAIN built.sources = {1} /\ Has(built.sources[1], "path") /\ built.sources[1].path = call.path
    <3> HIDE DEF sha
    <3> QED
      BY <2>2 DEF Has
  <2>4. ASSUME NEW i \in DOMAIN built.shards
        PROVE  /\ ~Has(shard(i), "text") /\ Has(shard(i), "path") /\ shard(i).path = call.path
    <3> DEFINE s == built.shards[i]
               c == b(i)
    <3>1. s = [source |-> 1, path |-> call.path, bounds |-> c]
      BY <2>2
    <3> HIDE DEF s, c
    <3>2. DOMAIN s = {"source", "path", "bounds"} /\ s.path = call.path
      BY <3>1
    <3> QED
      BY <3>2 DEF s, Has
  <2>5. ASSUME NEW i \in DOMAIN built.shards
        PROVE  Has(shard(i).bounds, "byte_end") /\ shard(i).bounds.shard_sha256 = Slice(SourceAsRead, shard(i).bounds)
    BY <2>2 DEF Has, SourceAsRead
  <2>6. /\ n \in Nat \ {0} /\ DOMAIN built.shards = 1 .. n /\ built.workload = "dataset_transform"
        /\ built.processor.type = "copy_text"
    BY <2>2
  <2> QED
    BY <1>2, <2>3, <2>4, <2>5, <2>6 DEF Cutters
<1>3. CASE call.builder = "ocr"
  <2> DEFINE sha == built.sources[1].sha256
             type == built.sources[1].type
             b(i) == [page_number |-> i, page_start |-> i, page_end |-> i, page_count |-> n]
  <2>1. OcrShape(built, call)
    BY <1>3 DEF Shape, Cutters
  <2>2. /\ n \in Nat \ {0} /\ DOMAIN built.shards = 1 .. n
        /\ built.workload = "ocr" /\ built.processor = [type |-> "local_ocr", engine |-> call.engine]
        /\ built.sources = <<[type |-> type, path |-> call.path, sha256 |-> sha]>>
        /\ \A i \in DOMAIN built.shards : shard(i) = [source |-> 1, path |-> call.path, bounds |-> b(i)]
    BY <2>1, LimitsAssumption DEF OcrShape
  <2>3. DOMAIN built.sources = {1} /\ Has(built.sources[1], "path") /\ built.sources[1].path = call.path
    <3> HIDE DEF sha, type
    <3> QED
      BY <2>2 DEF Has
  <2>4. ASSUME NEW i \in DOMAIN built.shards
        PROVE  /\ ~Has(shard(i), "text") /\ Has(shard(i), "path") /\ shard(i).path = call.path
               /\ shard(i).bounds = b(i)
    <3> DEFINE s == shard(i)
               c == b(i)
    <3>1. s = [source |-> 1, path |-> call.path, bounds |-> c]
      BY <2>2
    <3> HIDE DEF s, c
    <3>2. DOMAIN s = {"source", "path", "bounds"} /\ s.path = call.path /\ s.bounds = c
      BY <3>1
    <3> QED
      BY <3>2 DEF s, c, Has
  <2>5. built.processor.type = "local_ocr"
    <3> DEFINE e == call.engine
    <3> HIDE DEF e
    <3>1. built.processor = [type |-> "local_ocr", engine |-> e]
      BY <2>2 DEF e
    <3> QED
      BY <3>1
  <2>6. n \in Nat \ {0} /\ DOMAIN built.shards = 1 .. n /\ built.workload = "ocr"
    BY <2>2
  <2>7. ASSUME NEW i \in DOMAIN built.shards
        PROVE  shard(i).bounds
                 = [page_number |-> i, page_start |-> i, page_end |-> i, page_count |-> Len(built.shards)]
    BY <2>4
  <2> HIDE DEF b
  <2> QED
    BY <1>3, <2>3, <2>4, <2>5, <2>6, <2>7 DEF Cutters
<1>4. CASE call.builder = "media"
  <2>1. MediaManifestShape(built)
    BY <1>4 DEF Shape, Cutters
  <2>2. /\ n \in Nat \ {0} /\ DOMAIN built.shards = 1 .. n
        /\ built.workload = "media_catalogue" /\ built.processor = [type |-> "copy_text"]
        /\ \A i \in DOMAIN built.shards : MediaShape(built.sources[i], shard(i), i)
    BY <2>1, LimitsAssumption DEF MediaManifestShape
  <2>3. ASSUME NEW i \in DOMAIN built.shards
        PROVE  /\ DOMAIN shard(i) = {"source", "text", "bounds"}
               /\ DOMAIN shard(i).bounds = {"duration_seconds", "sha256", "sidecar_sha256"}
               /\ shard(i).bounds.sidecar_sha256 = shard(i).text
    <3> DEFINE source == built.sources[i]
               s == shard(i)
    <3>1. MediaShape(source, s, i)
      BY <2>2
    <3> HIDE DEF source, s
    <3>2. /\ DOMAIN s = {"source", "text", "bounds"}
          /\ DOMAIN s.bounds = {"duration_seconds", "sha256", "sidecar_sha256"}
          /\ s.bounds.sidecar_sha256 = s.text
      BY <3>1, MediaFields
    <3> QED
      BY <3>2 DEF s
  <2> QED
    BY <1>4, <2>2, <2>3 DEF Has, Cutters
<1> QED
  BY <1>1, <1>2, <1>3, <1>4, BuilderKinds

\* The shard under way is settled: its result is the last.
LEMMA SettleKeeps ==
  ASSUME BuiltInv, HandInv, PassInv, stage \in {"working", "extracted"}, NEW ok, NEW input, Settle(ok, input)
  PROVE  /\ UNCHANGED <<call, disk, edits, built, manifest, planned>>
         /\ Listed(results') /\ Len(results') = Len(results) + 1
         /\ results'[Len(results) + 1].ok = ok /\ results'[Len(results) + 1].input = input
         /\ \A i \in DOMAIN results : results'[i] = results[i]
         /\ DOMAIN results' = DOMAIN results \cup {Len(results) + 1}
         /\ (stage' = "working" /\ Len(results') < Len(built.shards)) \/ (stage' = "done" /\ Len(results') = Len(built.shards))
         /\ work' = [verified |-> work.verified]
<1> DEFINE new == [ok |-> ok, input |-> input]
           n == Len(results)
           max == Len(built.shards)
<1>1. /\ UNCHANGED <<call, disk, edits, built, manifest, planned>>
      /\ results' = Append(results, new)
      /\ stage' = (IF Len(results') = Len(manifest.shards) THEN "done" ELSE "working")
      /\ work' = [verified |-> work.verified]
  BY DEF Settle, JobStep
<1>2. new.ok = ok /\ new.input = input
  OBVIOUS
<1>3. Len(manifest.shards) = max /\ max \in Nat /\ n < max /\ Listed(results)
  BY BuiltShards DEF HandInv, PassInv, BuiltInv, LoopInv, Later
<1> HIDE DEF new
<1>4. /\ Listed(results') /\ Len(results') = n + 1
      /\ \A i \in 1 .. n : results'[i] = results[i]
      /\ results'[n + 1] = new
  BY <1>1, <1>3, AppendListed
<1>5. n \in Nat /\ DOMAIN results = 1 .. n /\ DOMAIN results' = 1 .. n + 1
  BY <1>3, <1>4 DEF Listed
<1> HIDE DEF n, max
<1>6. DOMAIN results' = DOMAIN results \cup {n + 1}
  BY <1>5
<1>7. n + 1 # max => n + 1 < max
  BY <1>3, <1>5
<1> QED
  BY <1>1, <1>2, <1>3, <1>4, <1>5, <1>6, <1>7 DEF n, max

\* Every step keeps what a pass keeps.
LEMMA PassStep == ASSUME BuiltInv, HandInv, PassInv, [Next]_vars PROVE PassInv'
<1>1. CASE UNCHANGED vars
  BY <1>1 DEF vars, PassInv, SourcesDeclared, Declared
<1>2. CASE TextNext \/ JsonlNext \/ ScanNext
  <2>1. stage \in BuilderStages
    BY <1>2, BuilderSteps
  <2>2. results' = results
    <3> USE DEF BuilderStep, Refuse, Return
    <3>1. TextNext => results' = results
      BY DEF TextNext, OpenText, ReadText, RecheckPath, Cut, ReadOutline
    <3>2. JsonlNext => results' = results
      BY DEF JsonlNext, OpenJsonl, ScanBlock, EndOfFile
    <3>3. ScanNext => results' = results
      BY DEF ScanNext, OpenOcr, CountPages, HashPages, OpenMedia, HashBefore, Probe, HashAfter, AddMedia, Proceed
    <3> QED
      BY <1>2, <3>1, <3>2, <3>3
  <2>3. stage' \in Later => stage' = "built"
    BY <1>2, <2>1, Returned DEF BuiltInv, Next, Later, BuilderStages
  <2> QED
    BY <2>1, <2>2, <2>3 DEF PassInv, Later
<1>3. CASE EditFile \/ HandEdit \/ Plan
  <2>1. UNCHANGED <<call, stage, work, built, results>> /\ (HandEdit => stage = "built")
        /\ (EditFile \/ Plan => manifest' = manifest)
    BY <1>3 DEF EditFile, HandEdit, Plan
  <2> QED
    BY <1>3, <2>1 DEF PassInv, SourcesDeclared, Declared
<1>4. CASE StartChecks \/ StartVerifies
  <2>1. results' = results /\ stage \in {"built", "checked"} /\ stage' \in {"checked", "admitted", "turned_away"}
    BY <1>4 DEF StartChecks, StartVerifies, JobStep
  <2> QED
    BY <2>1 DEF PassInv, BuilderStages
<1>5. CASE BeginPass
  <2>1. /\ results' = results /\ stage = "admitted" /\ stage' = "working" /\ UNCHANGED <<manifest, built>>
        /\ work' = [verified |-> Verified] /\ SourcesDeclared
    BY <1>5 DEF BeginPass, JobStep
  <2>2. results = <<>> /\ Len(built.shards) > 0 /\ Listed(results)
    BY <2>1, BuiltShards DEF PassInv, BuiltInv, LoopInv, Later
  <2>3. SourcesDeclared'
    BY <2>1 DEF SourcesDeclared, Declared
  <2>4. DOMAIN work' = {"verified"}
    BY <2>1
  <2> QED
    BY <2>1, <2>2, <2>3, <2>4 DEF PassInv, BuilderStages
<1>6. ASSUME NEW ok, NEW input, stage \in {"working", "extracted"}, Settle(ok, input) PROVE PassInv'
  <2>1. /\ Listed(results') /\ UNCHANGED <<built, manifest>> /\ work' = [verified |-> work.verified]
        /\ (stage' = "working" /\ Len(results') < Len(built.shards)) \/ (stage' = "done" /\ Len(results') = Len(built.shards))
    BY <1>6, SettleKeeps
  <2>2. SourcesDeclared'
    BY <1>6, <2>1 DEF PassInv, SourcesDeclared, Declared
  <2>3. DOMAIN work' = {"verified"}
    BY <2>1
  <2> QED
    BY <2>1, <2>2, <2>3 DEF PassInv, BuilderStages
<1>7. CASE ProcessShard \/ Rehash
  <2>1. stage \in {"working", "extracted"}
    BY <1>7 DEF ProcessShard, Rehash
  <2>2. PICK ok, input : Settle(ok, input)
    BY <1>7, Zenon DEF ProcessShard, Rehash
  <2> QED
    BY <1>6, <2>1, <2>2
<1>8. CASE Extract
  <2>1. CASE Settle(FALSE, <<>>)
    <3>1. stage \in {"working", "extracted"}
      BY <1>8 DEF Extract
    <3>2. PICK ok, input : Settle(ok, input)
      BY <2>1, Zenon
    <3> QED
      BY <1>6, <3>1, <3>2
  <2>2. CASE ~Settle(FALSE, <<>>)
    <3> DEFINE text == PageText(Shard.path, Shard.bounds.page_number)
               more == [text |-> text]
    <3>1. /\ stage = "working" /\ stage' = "extracted" /\ UNCHANGED <<call, built, manifest, results>>
          /\ work' = Joined(work, more) /\ manifest.processor.type = "local_ocr"
      BY <1>8, <2>2 DEF Extract, JobStep
    <3>2. DOMAIN more = {"text"}
      OBVIOUS
    <3> HIDE DEF more
    <3>3. DOMAIN work' = {"verified", "text"}
      BY <3>1, <3>2 DEF Joined, PassInv
    <3>4. call.builder = "ocr"
      BY <3>1, BuiltShards DEF HandInv, BuiltInv, LoopInv, Later
    <3>5. SourcesDeclared'
      BY <3>1 DEF PassInv, SourcesDeclared, Declared
    <3> QED
      BY <3>1, <3>3, <3>4, <3>5 DEF PassInv, BuilderStages
  <2> QED
    BY <2>1, <2>2
<1> QED
  BY <1>1, <1>2, <1>3, <1>4, <1>5, <1>7, <1>8 DEF Next

\* The shard under way is one of the manifest's.
LEMMA ShardUnderWay ==
  ASSUME BuiltInv, HandInv, PassInv, stage \in {"working", "extracted"}
  PROVE  /\ Len(results) + 1 \in DOMAIN built.shards /\ DOMAIN manifest.shards = DOMAIN built.shards
         /\ Kept(Len(results) + 1) /\ BaseInv /\ Shape(built, call)
<1>1. Len(results) \in Nat /\ Len(results) < Len(built.shards)
  BY DEF PassInv, Listed
<1>2. BaseInv /\ Shape(built, call)
  BY DEF BuiltInv, LoopInv, Later
<1>3. DOMAIN built.shards = 1 .. Len(built.shards) /\ Len(built.shards) \in Nat
  BY <1>2, BuiltShards
<1> QED
  BY <1>1, <1>2, <1>3 DEF HandInv, Later

\* A page that is under way is one of the first source, at the call's path.
LEMMA PageUnderWay ==
  ASSUME BuiltInv, HandInv, PassInv, stage \in {"working", "extracted"}, call.builder = "ocr"
  PROVE  Shard.source = 1 /\ Shard.path = call.path /\ manifest.workload = "ocr"
<1> DEFINE i == Len(results) + 1
           s == manifest.shards[i]
           b == built.shards[i]
<1>1. /\ i \in DOMAIN built.shards /\ i \in DOMAIN manifest.shards /\ Kept(i) /\ BaseInv /\ Shape(built, call)
      /\ Shard = s
  BY ShardUnderWay DEF Shard
<1>2. /\ Has(b, "path") /\ b.path = call.path
      /\ b.bounds = [page_number |-> i, page_start |-> i, page_end |-> i, page_count |-> Len(built.shards)]
      /\ DOMAIN built.sources = {1} /\ Has(built.sources[1], "path") /\ built.workload = "ocr"
  BY <1>1, BuiltShards
<1>3. s.path = call.path /\ DOMAIN s.bounds \subseteq DOMAIN b.bounds
  BY <1>1, <1>2 DEF Kept
<1>4. DOMAIN manifest.sources = {1} /\ Has(manifest.sources[1], "path") /\ manifest.workload \in {"ocr", "mixed"}
  BY <1>2 DEF HandInv, SourceKept, Later
<1>5. s.source = 1 /\ (manifest.workload # "ocr" => Declared(s) # {})
  BY <1>1, <1>4 DEF PassInv, SourcesDeclared
<1>6. Declared(s) = {}
  <2> DEFINE n == Len(built.shards)
             c == b.bounds
  <2>1. c = [page_number |-> i, page_start |-> i, page_end |-> i, page_count |-> n]
    BY <1>2
  <2> HIDE DEF n, c, i
  <2>2. DOMAIN c = {"page_number", "page_start", "page_end", "page_count"}
    BY <2>1
  <2>3. "shard_sha256" \notin DOMAIN s.bounds
    BY <1>3, <2>2 DEF c
  <2> QED
    BY <1>4, <2>3 DEF Declared, Has
<1> QED
  BY <1>1, <1>3, <1>4, <1>5, <1>6

\* What is read of a shard that is accepted is what its builder declared, for one edit of the
\* manifest leaves either the part itself or a digest of it.
LEMMA InputIsPart ==
  ASSUME BuiltInv, HandInv, PassInv, stage = "working", manifest.processor.type # "local_ocr", InputAccepted(Shard)
  PROVE  call.builder # "ocr" /\ ShardInput(Shard) = Part(Len(results) + 1)
<1> DEFINE i == Len(results) + 1
           s == manifest.shards[i]
           b == built.shards[i]
           input == ShardInput(s)
<1>1. /\ i \in DOMAIN built.shards /\ i \in DOMAIN manifest.shards /\ Kept(i) /\ BaseInv /\ Shape(built, call)
      /\ Shard = s
  BY ShardUnderWay DEF Shard
<1>2. call.builder # "ocr"
  BY <1>1, BuiltShards DEF HandInv, Later
<1>3. Declared(s) \subseteq {input}
  BY <1>1 DEF InputAccepted, InputIntact
<1>4. /\ DOMAIN s = DOMAIN b
      /\ Has(b, "text") => s.text = b.text \/ (s.bounds = b.bounds /\ manifest.workload = built.workload)
      /\ DOMAIN s.bounds \subseteq DOMAIN b.bounds
      /\ \A f \in DOMAIN s.bounds \ {"byte_end", "row_end", "page_number"} : s.bounds[f] = b.bounds[f]
  BY <1>1 DEF Kept
<1>5. CASE call.builder # "jsonl"
  <2>1. Has(b, "text") /\ Has(s, "text")
    BY <1>1, <1>2, <1>4, <1>5, BuiltShards DEF Has
  <2>2. Part(i) = b.text /\ input = s.text
    <3>1. Part(i) = b.text
      <4>1. Has(built.shards[i], "text")
        BY <2>1
      <4> HIDE DEF i, b
      <4>2. Part(i) = built.shards[i].text
        BY <4>1 DEF Part
      <4> QED
        BY <4>2 DEF b
    <3>2. input = s.text
      BY <2>1 DEF ShardInput
    <3> QED
      BY <3>1, <3>2
  <2>3. CASE s.text # b.text
    <3>1. s.bounds = b.bounds /\ manifest.workload = built.workload
      BY <1>4, <2>1, <2>3
    <3>2. Declared(s) = {b.text}
      <4>1. CASE call.builder \in Cutters \cup {"longform"}
        <5>1. Has(b.bounds, "shard_sha256") /\ b.bounds.shard_sha256 = b.text
          BY <1>1, <4>1, BuiltShards
        <5> QED
          BY <3>1, <5>1 DEF Declared
      <4>2. CASE call.builder = "media"
        <5>1. /\ ~Has(b.bounds, "shard_sha256") /\ Has(b.bounds, "sidecar_sha256")
              /\ b.bounds.sidecar_sha256 = b.text /\ built.workload = "media_catalogue"
          BY <1>1, <4>2, BuiltShards
        <5> QED
          BY <3>1, <5>1 DEF Declared
      <4> QED
        BY <1>1, <1>2, <1>5, <4>1, <4>2, BuilderKinds
    <3> QED
      BY <1>1, <1>2, <1>3, <2>2, <3>2
  <2> QED
    BY <1>1, <1>2, <2>2, <2>3
<1>6. CASE call.builder = "jsonl"
  <2>1. /\ ~Has(b, "text") /\ Has(b.bounds, "byte_end")
        /\ b.bounds.shard_sha256 = Slice(SourceAsRead, b.bounds)
        /\ DOMAIN built.sources = {1} /\ Has(built.sources[1], "path") /\ built.workload = "dataset_transform"
    BY <1>1, <1>6, BuiltShards
  <2>2. Part(i) = b.bounds.shard_sha256
    BY <2>1 DEF Part
  <2>3. DOMAIN manifest.sources = {1} /\ Has(manifest.sources[1], "path") /\ manifest.workload \in {"dataset_transform", "mixed"}
    BY <2>1 DEF HandInv, SourceKept, Later
  <2>4. Declared(s) # {}
    BY <1>1, <2>3 DEF PassInv, SourcesDeclared
  <2>5. Declared(s) = {Part(i)}
    <3>1. Has(s.bounds, "shard_sha256")
      BY <2>3, <2>4 DEF Declared
    <3>2. s.bounds.shard_sha256 = b.bounds.shard_sha256
      BY <1>4, <3>1 DEF Has
    <3> QED
      BY <2>2, <3>1, <3>2 DEF Declared
  <2> QED
    BY <1>1, <1>2, <1>3, <2>5
<1> QED
  BY <1>5, <1>6

\* A builder commits nothing.
LEMMA BuilderResults == ASSUME TextNext \/ JsonlNext \/ ScanNext PROVE results' = results
<1> USE DEF BuilderStep, Refuse, Return
<1>1. TextNext => results' = results
  BY DEF TextNext, OpenText, ReadText, RecheckPath, Cut, ReadOutline
<1>2. JsonlNext => results' = results
  BY DEF JsonlNext, OpenJsonl, ScanBlock, EndOfFile
<1>3. ScanNext => results' = results
  BY DEF ScanNext, OpenOcr, CountPages, HashPages, OpenMedia, HashBefore, Probe, HashAfter, AddMedia, Proceed
<1> QED
  BY <1>1, <1>2, <1>3

\* The parts that were declared stay.
LEMMA PartsStay == ASSUME UNCHANGED built PROVE \A i : Part(i)' = Part(i)
  BY DEF Part, SourceAsRead

\* Every step keeps what has been committed: a shard that is committed is its part.
LEMMA CommittedStep ==
  ASSUME BuiltInv, HandInv, PassInv, PagesInv, CommittedInv, [Next]_vars
  PROVE  CommittedInv'
<1> DEFINE UnderWay == stage \in {"working", "extracted"}
<1>1. call' = call
  BY EditsAreCounted DEF BuiltInv, LoopInv
<1>2. edits' < 2 => edits < 2
  <2>1. edits' = edits \/ (EditFile /\ edits' = edits + 1 /\ edits \in Nat)
    BY EditsAreCounted DEF BuiltInv, LoopInv, EditFile, BaseInv
  <2> QED
    BY <2>1
<1>3. ASSUME UNCHANGED <<built, results>> PROVE CommittedInv'
  BY <1>1, <1>2, <1>3, PartsStay DEF CommittedInv
<1>4. ASSUME results = <<>>, results' = results PROVE CommittedInv'
  BY <1>4 DEF CommittedInv
<1>5. ASSUME NEW ok, NEW input, UnderWay, Settle(ok, input),
             (call.builder = "ocr" => edits < 2) => input = Part(Len(results) + 1)
      PROVE  CommittedInv'
  <2>1. /\ UNCHANGED <<call, disk, edits, built, manifest, planned>>
        /\ results'[Len(results) + 1].ok = ok /\ results'[Len(results) + 1].input = input
        /\ \A i \in DOMAIN results : results'[i] = results[i]
        /\ DOMAIN results' = DOMAIN results \cup {Len(results) + 1}
    BY <1>5, SettleKeeps
  <2> QED
    BY <1>5, <2>1, PartsStay DEF CommittedInv
<1>6. ASSUME NEW ok, NEW input, UnderWay, Settle(ok, input),
             ok = FALSE
      PROVE  CommittedInv'
  <2>1. /\ UNCHANGED <<call, disk, edits, built, manifest, planned>>
        /\ results'[Len(results) + 1].ok = ok /\ results'[Len(results) + 1].input = input
        /\ \A i \in DOMAIN results : results'[i] = results[i]
        /\ DOMAIN results' = DOMAIN results \cup {Len(results) + 1}
    BY <1>6, SettleKeeps
  <2> QED
    BY <1>6, <2>1, PartsStay DEF CommittedInv
<1> HIDE DEF UnderWay
<1>7. CASE ProcessShard
  <2>1. stage = "working" /\ manifest.processor.type # "local_ocr"
    BY <1>7 DEF ProcessShard
  <2>4. UnderWay
    BY <2>1 DEF UnderWay
  <2>2. CASE InputAccepted(Shard)
    <3>1. PICK ok, input : ok = TRUE /\ input = ShardInput(Shard) /\ Settle(ok, input)
      BY <1>7, <2>2, Zenon DEF ProcessShard
    <3>2. input = Part(Len(results) + 1)
      BY <2>1, <2>2, <3>1, InputIsPart
    <3> QED
      BY <1>5, <2>4, <3>1, <3>2
  <2>3. CASE ~InputAccepted(Shard)
    <3>1. PICK ok, input : ok = FALSE /\ Settle(ok, input)
      BY <1>7, <2>3, Zenon DEF ProcessShard
    <3> QED
      BY <1>6, <2>4, <3>1
  <2> QED
    BY <2>2, <2>3
<1>8. CASE Extract
  <2>1. CASE Settle(FALSE, <<>>)
    <3>1. PICK ok, input : ok = FALSE /\ Settle(ok, input)
      BY <2>1, Zenon
    <3>2. UnderWay
      BY <1>8 DEF Extract, UnderWay
    <3> QED
      BY <1>6, <3>1, <3>2
  <2>2. CASE ~Settle(FALSE, <<>>)
    <3>1. UNCHANGED <<built, results>>
      BY <1>8, <2>2 DEF Extract, JobStep
    <3> QED
      BY <1>3, <3>1
  <2> QED
    BY <2>1, <2>2
<1>9. CASE Rehash
  <2>1. stage = "extracted"
    BY <1>9 DEF Rehash
  <2>4. UnderWay
    BY <2>1 DEF UnderWay
  <2> DEFINE Same == /\ IsFile(Shard.path)
                     /\ Shard.source \in DOMAIN work.verified => disk[Shard.path].bytes = work.verified[Shard.source]
  <2>2. CASE Same
    <3>1. PICK ok, input : ok = TRUE /\ input = work.text /\ Settle(ok, input)
      BY <1>9, <2>2, Zenon DEF Rehash
    <3>2. ASSUME edits < 2 PROVE input = Part(Len(results) + 1)
      <4>1. call.builder = "ocr"
        BY <2>1 DEF PassInv
      <4>2. Shard.source = 1 /\ Shard.path = call.path
        BY <2>1, <4>1, PageUnderWay
      <4> QED
        BY <2>1, <2>2, <3>1, <3>2, <4>1, <4>2 DEF PagesInv
    <3>3. call.builder = "ocr"
      BY <2>1 DEF PassInv
    <3> QED
      BY <1>5, <2>4, <3>1, <3>2, <3>3
  <2>3. CASE ~Same
    <3>1. PICK ok, input : ok = FALSE /\ Settle(ok, input)
      BY <1>9, <2>3, Zenon DEF Rehash
    <3> QED
      BY <1>6, <2>4, <3>1
  <2> QED
    BY <2>2, <2>3
<1>10. CASE UNCHANGED vars
  BY <1>3, <1>10 DEF vars
<1>11. CASE TextNext \/ JsonlNext \/ ScanNext \/ StartChecks \/ StartVerifies \/ BeginPass \/ EditFile \/ HandEdit \/ Plan
  <2>1. CASE EditFile \/ HandEdit \/ Plan \/ StartChecks \/ StartVerifies \/ BeginPass
    <3>1. UNCHANGED <<built, results>>
      BY <2>1 DEF EditFile, HandEdit, Plan, StartChecks, StartVerifies, BeginPass, JobStep
    <3> QED
      BY <1>3, <3>1
  <2>2. CASE TextNext \/ JsonlNext \/ ScanNext
    <3>1. stage \in BuilderStages
      BY <2>2, BuilderSteps
    <3>2. results = <<>>
      BY <3>1 DEF PassInv
    <3>3. results' = results
      BY <2>2, BuilderResults
    <3> QED
      BY <1>4, <3>2, <3>3
  <2> QED
    BY <1>11, <2>1, <2>2
<1> QED
  BY <1>7, <1>8, <1>9, <1>10, <1>11 DEF Next

\* Until a file changes, the pages are those that were digested.
LEMMA PagesOnDisk ==
  ASSUME BuiltInv, stage \in Later, call.builder = "ocr", edits = 0
  PROVE  disk[call.path].kind = "file" /\ disk[call.path].bytes = SourceAsRead
<1>1. BaseInv /\ Shape(built, call) /\ OnDisk(built)
  BY DEF BuiltInv, LoopInv
<1>2. DOMAIN built.sources = {1} /\ Has(built.sources[1], "path") /\ built.sources[1].path = call.path
  BY <1>1, BuiltShards
<1> QED
  BY <1>1, <1>2 DEF OnDisk, DigestOf, SourceAsRead

\* A pass begins with the pages that were digested, or with no file after a first edit.
LEMMA PassBegins ==
  ASSUME BuiltInv, HandInv, BeginPass, call.builder = "ocr", edits < 2
  PROVE  \/ 1 \in DOMAIN work'.verified /\ work'.verified[1] = SourceAsRead
         \/ edits = 1 /\ ~IsFile(call.path)
<1> DEFINE m == manifest.sources[1]
<1>1. stage \in Later /\ BaseInv /\ Shape(built, call) /\ work' = [verified |-> Verified] /\ InputsSafe /\ SourcesIntact
  BY DEF BuiltInv, LoopInv, BeginPass, JobStep, Later
<1>2. DOMAIN built.sources = {1} /\ Has(built.sources[1], "path") /\ built.sources[1].path = call.path
  BY <1>1, BuiltShards
<1>3. /\ DOMAIN manifest.sources = {1} /\ Has(m, "path") /\ m.path = call.path
      /\ Has(m, "sha256") => m.sha256 = SourceAsRead \/ (call.editable /\ m.sha256 = <<"x">>)
  BY <1>1, <1>2 DEF HandInv, SourceKept, SourceAsRead
<1>4. CASE IsFile(call.path)
  <2>1. 1 \in DOMAIN Verified /\ Verified[1] = disk[call.path].bytes
    BY <1>3, <1>4 DEF Verified
  <2>2. Has(m, "sha256")
    BY <1>1, <1>3, <1>4 DEF InputsSafe, SourceSafe
  <2>3. m.sha256 = Verified[1]
    BY <1>1, <1>3, <2>1, <2>2 DEF SourcesIntact
  <2>4. ~(call.editable /\ disk[call.path].bytes = <<"x">>)
    <3>1. call.path \in DOMAIN disk
      BY <1>1, PathInDisk
    <3>2. PICK file \in Range(call.files) \cup call.others : file.bytes = disk[call.path].bytes
      BY <1>1, <3>1 DEF BaseInv
    <3> QED
      BY <1>1, <3>2, CallsAssumption DEF BaseInv
  <2> QED
    BY <1>1, <1>3, <2>1, <2>2, <2>3, <2>4
<1>5. CASE ~IsFile(call.path)
  <2>1. edits # 0
    BY <1>1, <1>5, PagesOnDisk DEF IsFile
  <2> QED
    BY <1>1, <1>5, <2>1 DEF BaseInv
<1> QED
  BY <1>4, <1>5

\* The page that is read is the part under way as long as the file has the pages that were
\* digested, and with pdfinfo their count is right.
LEMMA PageIsRead ==
  ASSUME BuiltInv, HandInv, PassInv, PagesInv, stage = "working", call.builder = "ocr", edits < 2,
         OcrSource(Shard.path), PageValid(Shard.bounds), disk[call.path].bytes = SourceAsRead
  PROVE  PageText(Shard.path, Shard.bounds.page_number) = Part(Len(results) + 1) /\ Recounted
<1> DEFINE i == Len(results) + 1
           b == built.shards[i]
           n == Len(built.shards)
<1>1. /\ i \in DOMAIN built.shards /\ Kept(i) /\ BaseInv /\ Shape(built, call)
      /\ Shard = manifest.shards[i] /\ Shard.path = call.path
  BY ShardUnderWay, PageUnderWay DEF Shard
<1>2. /\ ~Has(b, "text") /\ b.bounds = [page_number |-> i, page_start |-> i, page_end |-> i, page_count |-> n]
      /\ n \in Nat \ {0}
  BY <1>1, BuiltShards
<1>3. Shard.bounds.page_number = i
  <2> HIDE DEF i, n
  <2>1. Has(b.bounds, "page_start") /\ b.bounds.page_start = i
    BY <1>2 DEF Has
  <2>2. Has(Shard.bounds, "page_start") /\ Shard.bounds.page_start = i
    BY <1>1, <2>1 DEF Kept, Has
  <2> QED
    BY <2>2 DEF PageValid
<1>4. PageText(Shard.path, Shard.bounds.page_number) = Part(i)
  <2> HIDE DEF i, n
  <2>1. ~Has(b.bounds, "byte_end") /\ b.bounds.page_number = i
    BY <1>2 DEF Has
  <2>2. Part(i) = <<SourceAsRead[b.bounds.page_number]>>
    BY <1>2, <2>1 DEF Part
  <2> QED
    BY <1>1, <1>3, <2>1, <2>2 DEF PageText
<1>5. ASSUME built.sources[1].type = "pdf", Installed("pdfinfo"), manifest = built
      PROVE  n = Len(SourceAsRead)
  <2>1. disk[call.path].kind = "file" /\ Size(call.path) > 0
    BY <1>1, OpenedFile DEF OcrSource
  <2>2. disk[call.path].type = "pdf"
    BY <1>5, <2>1 DEF PagesInv, Later
  <2>3. Has(Shard.bounds, "page_count") /\ Shard.bounds.page_count = n
    <3> HIDE DEF i, n
    <3> QED
      BY <1>1, <1>2, <1>5 DEF Has
  <2>4. CountAgrees(call.path, n)
    BY <1>1, <2>2, <2>3 DEF PageValid
  <2>5. Detected(call.path, n) = Size(call.path)
    BY <1>5, <2>1 DEF Detected, IsFile, CountsPages
  <2> QED
    BY <1>2, <2>1, <2>4, <2>5 DEF CountAgrees, Size
<1> QED
  BY <1>4, <1>5 DEF Recounted

\* Only the builder of OCR manifests returns one of an OCR call.
LEMMA OcrIsHashed ==
  ASSUME BuiltInv, call.builder = "ocr", Next, stage \in BuilderStages, stage' \in Later
  PROVE  /\ built'.sources[1].type = disk[call.path].type /\ built'.sources[1].sha256 = disk[call.path].bytes
         /\ UNCHANGED <<call, disk, edits>>
<1>1. stage' = "built" /\ ~UNCHANGED stage /\ UNCHANGED <<call, disk, edits>>
  BY Returned DEF BuiltInv, BuilderStages, Later
<1>2. ~EditFile
  BY <1>1 DEF EditFile
<1>3. ~(TextNext \/ JsonlNext)
  <2>1. ~Cut /\ ~ReadOutline /\ ~EndOfFile
    BY <1>1, CutReturns, OutlineReturns, JsonlReturns DEF BuiltInv, LoopInv, Cutters
  <2>2. OpenText \/ ReadText \/ RecheckPath \/ OpenJsonl \/ ScanBlock => stage' # "built"
    BY DEF OpenText, ReadText, RecheckPath, OpenJsonl, ScanBlock, BuilderStep, Refuse
  <2> QED
    BY <1>1, <2>1, <2>2 DEF TextNext, JsonlNext
<1>4. ~(Probe \/ AddMedia)
  <2>1. Probe \/ AddMedia => stage \in {"probing", "sizing"}
    BY DEF Probe, AddMedia
  <2> QED
    BY <2>1 DEF BuiltInv, LoopInv, CataloguingInv
<1>5. OpenOcr \/ CountPages \/ OpenMedia \/ HashBefore \/ HashAfter => stage' # "built"
  BY DEF OpenOcr, CountPages, OpenMedia, HashBefore, HashAfter, BuilderStep, Refuse
<1>6. HandEdit \/ Plan \/ StartChecks \/ StartVerifies \/ BeginPass \/ ProcessShard \/ Extract \/ Rehash =>
        stage \notin BuilderStages
  BY DEF HandEdit, Plan, StartChecks, StartVerifies, BeginPass, ProcessShard, Extract, Rehash, BuilderStages
<1>7. HashPages
  BY <1>1, <1>2, <1>3, <1>4, <1>5, <1>6 DEF Next, ScanNext
<1> QED
  BY <1>1, <1>7, OcrReturns DEF BuiltInv, LoopInv

\* The pages stay as they were when neither the files nor the job changes.
LEMMA PagesStay ==
  ASSUME PagesInv, UNCHANGED <<call, disk, edits, stage, work, built, results>>,
         UNCHANGED manifest \/ stage \in BuilderStages \cup {"built", "checked", "admitted"}, PassInv
  PROVE  PagesInv'
<1>1. CASE UNCHANGED manifest
  BY <1>1, PartsStay DEF PagesInv, Recounted, Installed, SourceAsRead, IsFile
<1>2. CASE stage \in BuilderStages \cup {"built", "checked", "admitted"}
  <2>1. results = <<>> /\ stage \notin {"working", "extracted"}
    BY <1>2 DEF PassInv, BuilderStages
  <2> QED
    BY <2>1 DEF PagesInv, SourceAsRead
<1> QED
  BY <1>1, <1>2

\* Another program changes a file.
LEMMA PagesEdited ==
  ASSUME BuiltInv, PagesInv, EditFile, call.builder = "ocr", edits' < 2
  PROVE  PagesInv'
<1>1. PICK name \in DOMAIN disk, file \in call.others :
        /\ <<file.kind, file.bytes>> # <<disk[name].kind, disk[name].bytes>>
        /\ disk' = [disk EXCEPT ![name] = [file EXCEPT !.mtime = disk[name].mtime + 1]]
  BY DEF EditFile
<1>2. /\ edits = 0 /\ edits' = 1 /\ BaseInv
      /\ UNCHANGED <<call, stage, work, built, manifest, results>>
  BY DEF EditFile, BuiltInv, LoopInv, BaseInv
<1>3. file \in FileRecord
  BY <1>2, CallsAssumption DEF BaseInv, CallRecord
<1>4. Recounted' <=> Recounted
  BY <1>2 DEF Recounted, Installed, SourceAsRead
<1>5. ASSUME stage \in Later, disk'[call.path].bytes = SourceAsRead, disk'[call.path].kind = "file"
      PROVE  disk'[call.path].type = built.sources[1].type
  <2>1. disk[call.path].kind = "file" /\ disk[call.path].bytes = SourceAsRead
    BY <1>2, <1>5, PagesOnDisk
  <2>2. name # call.path
    <3>1. ASSUME name = call.path PROVE FALSE
      <4>1. disk'[call.path].kind = file.kind /\ disk'[call.path].bytes = file.bytes
        BY <1>1, <1>3, <3>1 DEF FileRecord
      <4> QED
        BY <1>1, <1>5, <2>1, <3>1, <4>1
    <3> QED
      BY <3>1
  <2>3. disk'[call.path] = disk[call.path]
    BY <1>1, <2>2
  <2> QED
    BY <1>2, <1>5, <2>1, <2>3 DEF PagesInv
<1>6. ASSUME stage \in {"working", "extracted"} PROVE 1 \in DOMAIN work.verified /\ work.verified[1] = SourceAsRead
  BY <1>2, <1>6 DEF PagesInv
<1>7. ASSUME stage = "extracted" PROVE work.text = Part(Len(results) + 1) /\ Recounted
  BY <1>2, <1>7 DEF PagesInv
<1>8. (\E i \in DOMAIN results : results[i].ok) => Recounted
  BY <1>2 DEF PagesInv
<1>9. SourceAsRead' = SourceAsRead
  BY <1>2 DEF SourceAsRead
<1> QED
  BY <1>2, <1>4, <1>5, <1>6, <1>7, <1>8, <1>9, PartsStay DEF PagesInv

\* The steps of a pass over pages.
LEMMA PagesPass ==
  ASSUME BuiltInv, HandInv, PassInv, PagesInv, BeginPass \/ ProcessShard \/ Extract \/ Rehash,
         call.builder = "ocr", edits < 2
  PROVE  PagesInv'
<1>1. UNCHANGED <<call, disk, edits, built, manifest>> /\ stage \in Later
  BY DEF BeginPass, ProcessShard, Extract, Rehash, Settle, JobStep, Later
<1>2. /\ SourceAsRead' = SourceAsRead /\ (Recounted' <=> Recounted) /\ IsFile(call.path)' = IsFile(call.path)
      /\ disk[call.path].bytes = SourceAsRead /\ disk[call.path].kind = "file" =>
           disk[call.path].type = built.sources[1].type
  BY <1>1 DEF Recounted, Installed, SourceAsRead, IsFile, PagesInv
<1>3. (\E i \in DOMAIN results : results[i].ok) => Recounted
  BY DEF PagesInv
<1>4. ASSUME stage' \in {"working", "done"}, UNCHANGED results \/ Recounted,
             stage' = "working" => \/ 1 \in DOMAIN work'.verified /\ work'.verified[1] = SourceAsRead
                                   \/ edits = 1 /\ ~IsFile(call.path)
      PROVE  PagesInv'
  BY <1>1, <1>2, <1>3, <1>4 DEF PagesInv
<1>5. stage \in {"working", "extracted"} =>
        \/ 1 \in DOMAIN work.verified /\ work.verified[1] = SourceAsRead
        \/ edits = 1 /\ ~IsFile(call.path)
  BY DEF PagesInv
<1>6. ASSUME NEW ok, NEW input, Settle(ok, input), stage \in {"working", "extracted"}
      PROVE  stage' \in {"working", "done"} /\ work'.verified = work.verified /\ Listed(results')
  BY <1>6, SettleKeeps
<1>7. ASSUME NEW ok, NEW input, Settle(ok, input), stage \in {"working", "extracted"}, ok = FALSE
      PROVE  (\E i \in DOMAIN results' : results'[i].ok) => \E i \in DOMAIN results : results[i].ok
  BY <1>7, SettleKeeps
<1>8. ASSUME NEW ok, NEW input, Settle(ok, input), stage \in {"working", "extracted"}, ok = FALSE
      PROVE  PagesInv'
  BY <1>1, <1>2, <1>3, <1>5, <1>6, <1>7, <1>8 DEF PagesInv
<1>9. CASE BeginPass
  <2>1. stage' = "working" /\ UNCHANGED results
    BY <1>9 DEF BeginPass, JobStep
  <2> QED
    BY <1>4, <1>9, <2>1, PassBegins
<1>10. CASE Extract
  <2>1. stage = "working"
    BY <1>10 DEF Extract
  <2>2. CASE Settle(FALSE, <<>>)
    <3>1. PICK ok, input : ok = FALSE /\ Settle(ok, input)
      BY <2>2, Zenon
    <3>2. stage \in {"working", "extracted"}
      BY <2>1
    <3> QED
      BY <1>8, <3>1, <3>2
  <2>3. CASE ~Settle(FALSE, <<>>)
    <3> DEFINE text == PageText(Shard.path, Shard.bounds.page_number)
               more == [text |-> text]
    <3>1. /\ OcrSource(Shard.path) /\ PageValid(Shard.bounds)
          /\ stage' = "extracted" /\ work' = Joined(work, more) /\ UNCHANGED results
      BY <1>10, <2>3 DEF Extract, JobStep
    <3>2. DOMAIN more = {"text"} /\ more.text = text
      OBVIOUS
    <3> HIDE DEF more, text
    <3>3. work'.verified = work.verified /\ work'.text = text
      BY <2>1, <3>1, <3>2 DEF Joined, PassInv
    <3>4. Shard.path = call.path
      BY <2>1, PageUnderWay
    <3>5. CASE disk[call.path].bytes = SourceAsRead
      <4>1. text = Part(Len(results) + 1) /\ Recounted
        BY <2>1, <3>1, <3>5, PageIsRead DEF text
      <4> QED
        BY <1>1, <1>2, <1>3, <1>5, <2>1, <3>1, <3>3, <4>1, PartsStay DEF PagesInv
    <3>6. CASE disk[call.path].bytes # SourceAsRead
      <4>1. edits = 1
        BY <1>1, <3>6, PagesOnDisk DEF BuiltInv, LoopInv, BaseInv
      <4>2. 1 \in DOMAIN work.verified /\ work.verified[1] = SourceAsRead
        BY <1>5, <2>1, <3>1, <3>4 DEF OcrSource
      <4> QED
        BY <1>1, <1>2, <1>3, <3>1, <3>3, <3>6, <4>1, <4>2 DEF PagesInv
    <3> QED
      BY <3>5, <3>6
  <2> QED
    BY <2>2, <2>3
<1>11. CASE Rehash
  <2>1. stage = "extracted"
    BY <1>11 DEF Rehash
  <2>2. stage \in {"working", "extracted"}
    BY <2>1
  <2> DEFINE Same == /\ IsFile(Shard.path)
                     /\ Shard.source \in DOMAIN work.verified => disk[Shard.path].bytes = work.verified[Shard.source]
  <2>3. CASE Same
    <3>1. PICK ok, input : Settle(ok, input)
      BY <1>11, <2>3, Zenon DEF Rehash
    <3>2. Shard.source = 1 /\ Shard.path = call.path
      BY <2>1, PageUnderWay
    <3>3. Recounted
      BY <2>1, <2>3, <3>2 DEF PagesInv
    <3>4. stage' \in {"working", "done"} /\ work'.verified = work.verified
      BY <1>6, <2>2, <3>1
    <3> QED
      BY <1>4, <1>5, <2>2, <3>3, <3>4
  <2>4. CASE ~Same
    <3>1. PICK ok, input : ok = FALSE /\ Settle(ok, input)
      BY <1>11, <2>4, Zenon DEF Rehash
    <3> QED
      BY <1>8, <2>2, <3>1
  <2> QED
    BY <2>3, <2>4
<1>12. ~ProcessShard
  <2>1. ProcessShard => manifest.processor.type # "local_ocr"
    BY DEF ProcessShard
  <2> QED
    BY <1>1, <2>1, BuiltShards DEF HandInv, BuiltInv, LoopInv
<1> QED
  BY <1>9, <1>10, <1>11, <1>12

\* Every step keeps the invariant of the pages.
LEMMA PagesStep == ASSUME BuiltInv, HandInv, PassInv, PagesInv, [Next]_vars PROVE PagesInv'
<1> SUFFICES ASSUME call'.builder = "ocr", edits' < 2 PROVE PagesInv'
  BY DEF PagesInv
<1>1. /\ call' = call /\ edits \in Nat
      /\ ~EditFile => disk' = disk /\ edits' = edits
      /\ EditFile => edits' = edits + 1
  BY EditsAreCounted DEF BuiltInv, LoopInv, BaseInv
<1>2. call.builder = "ocr" /\ edits < 2
  BY <1>1
<1>3. CASE EditFile
  BY <1>2, <1>3, PagesEdited
<1>4. CASE BeginPass \/ ProcessShard \/ Extract \/ Rehash
  BY <1>2, <1>4, PagesPass
<1>5. CASE TextNext \/ JsonlNext \/ ScanNext
  <2>1. stage \in BuilderStages /\ results' = results
    BY <1>5, BuilderSteps, BuilderResults
  <2>2. results' = <<>>
    BY <2>1 DEF PassInv
  <2>3. stage' \in Later => stage' = "built"
    BY <1>5, <2>1, Returned DEF BuiltInv, Next, Later, BuilderStages
  <2>4. ASSUME stage' \in Later PROVE built'.sources[1].type = disk'[call.path].type
    BY <1>2, <1>5, <2>1, <2>4, OcrIsHashed DEF Next
  <2> QED
    BY <1>1, <1>2, <2>2, <2>3, <2>4 DEF PagesInv, Later
<1>6. CASE HandEdit \/ Plan \/ UNCHANGED vars
  <2>1. /\ UNCHANGED <<call, disk, edits, stage, work, built, results>>
        /\ UNCHANGED manifest \/ stage = "built"
    BY <1>6 DEF HandEdit, Plan, vars
  <2> QED
    BY <2>1, PagesStay
<1>7. CASE StartChecks \/ StartVerifies
  <2>1. /\ UNCHANGED <<call, disk, edits, built, results>>
        /\ stage \in {"built", "checked"} /\ stage' \in {"checked", "admitted", "turned_away"}
    BY <1>7 DEF StartChecks, StartVerifies, JobStep
  <2>2. results' = <<>>
    BY <2>1 DEF PassInv
  <2> QED
    BY <2>1, <2>2 DEF PagesInv, SourceAsRead, Later
<1> QED
  BY <1>3, <1>4, <1>5, <1>6, <1>7 DEF Next

\* What is processed is what was declared, for every call, every file and every field that
\* may be edited: a shard that is committed is its part of the source that was digested, and
\* a PDF whose pages are all committed has been read to the last of them.
THEOREM PartsAreProcessed == Spec => []ProcessedIsDeclared
<1> DEFINE Inv == BuiltInv /\ HandInv /\ PassInv /\ PagesInv /\ CommittedInv
<1>1. Init => Inv
  <2> SUFFICES ASSUME Init PROVE Inv
    OBVIOUS
  <2>1. stage = "called" /\ results = <<>>
    BY DEF Init
  <2>2. Listed(results)
    BY <2>1 DEF Listed
  <2> QED
    BY <2>1, <2>2, BuiltInit DEF HandInv, PassInv, PagesInv, CommittedInv, Later
<1>2. Inv /\ [Next]_vars => Inv'
  BY BuiltStep, HandStep, PassStep, PagesStep, CommittedStep
<1>3. Inv => ProcessedIsDeclared
  <2> SUFFICES ASSUME Inv PROVE ProcessedIsDeclared
    OBVIOUS
  <2>1. ASSUME stage = "done", call.builder = "ocr", edits < 2, \A i \in DOMAIN results : results[i].ok,
               built.sources[1].type = "pdf", Installed("pdfinfo"), manifest = built
        PROVE  Len(results) = Len(SourceAsRead)
    <3>1. Len(results) = Len(built.shards) /\ DOMAIN results = 1 .. Len(results)
      BY <2>1 DEF PassInv, Listed
    <3>2. Len(built.shards) \in Nat \ {0}
      BY <2>1, BuiltShards DEF BuiltInv, LoopInv, Later
    <3>3. 1 \in DOMAIN results /\ results[1].ok
      BY <2>1, <3>1, <3>2
    <3>4. Recounted
      BY <2>1, <3>3 DEF PagesInv
    <3> QED
      BY <2>1, <3>1, <3>4 DEF Recounted
  <2> QED
    BY <2>1 DEF ProcessedIsDeclared, CommittedInv
<1> QED
  BY <1>1, <1>2, <1>3, PTL DEF Spec

-----------------------------------------------------------------------------
(* Types                                                                   *)

\* What there is at each stage: a manifest once it is returned, results once a pass has begun.
StageInv ==
  /\ edits \in 0 .. MaxEdits
  /\ stage \in BuilderStages \cup {"refused"} \cup Later
  /\ stage \notin Later => built = NoManifest /\ manifest = NoManifest
  /\ stage \notin {"working", "extracted", "done"} => results = <<>>

\* A step of a builder goes on, refuses or returns.
LEMMA BuildersGoOn ==
  ASSUME TextNext \/ JsonlNext \/ ScanNext
  PROVE  \/ stage' \in BuilderStages \cup {"refused"} /\ UNCHANGED <<built, manifest, results>>
         \/ stage' = "built" /\ UNCHANGED results
<1> USE DEF BuilderStep, Refuse, Return, BuilderStages
<1>1. CASE TextNext
  BY <1>1 DEF TextNext, OpenText, ReadText, RecheckPath, Cut, ReadOutline
<1>2. CASE JsonlNext
  BY <1>2 DEF JsonlNext, OpenJsonl, ScanBlock, EndOfFile
<1>3. CASE ScanNext
  BY <1>3 DEF ScanNext, OpenOcr, CountPages, HashPages, OpenMedia, HashBefore, Probe, HashAfter, AddMedia, Proceed
<1> QED
  BY <1>1, <1>2, <1>3

\* Every step keeps it.
LEMMA StageStep == ASSUME StageInv, [Next]_vars PROVE StageInv'
<1>1. CASE TextNext \/ JsonlNext \/ ScanNext
  <2>1. stage \in BuilderStages /\ UNCHANGED edits
    BY <1>1, BuilderSteps
  <2> QED
    BY <1>1, <2>1, BuildersGoOn DEF StageInv, Later, BuilderStages
<1>2. CASE EditFile
  <2>1. edits < MaxEdits /\ edits' = edits + 1 /\ UNCHANGED <<stage, built, manifest, results>>
    BY <1>2 DEF EditFile
  <2> QED
    BY <2>1, LimitsAssumption DEF StageInv
<1>3. CASE HandEdit \/ Plan
  <2>1. stage = "built" /\ UNCHANGED <<edits, stage, built, results>>
    BY <1>3 DEF HandEdit, Plan
  <2> QED
    BY <2>1 DEF StageInv, Later
<1>4. CASE StartChecks \/ StartVerifies \/ BeginPass
  <2>1. /\ stage \in Later /\ UNCHANGED <<edits, built, manifest, results>>
        /\ stage \notin {"working", "extracted", "done"}
        /\ stage' \in {"checked", "turned_away", "admitted", "working"}
    BY <1>4 DEF StartChecks, StartVerifies, BeginPass, JobStep, Later
  <2> QED
    BY <2>1 DEF StageInv, Later
<1>5. CASE ProcessShard \/ Extract \/ Rehash
  <2>1. stage \in Later /\ UNCHANGED <<edits, built, manifest>> /\ stage' \in {"working", "extracted", "done"}
    BY <1>5 DEF ProcessShard, Extract, Rehash, Settle, JobStep, Later
  <2> QED
    BY <2>1 DEF StageInv, Later
<1>6. CASE UNCHANGED vars
  BY <1>6 DEF vars, StageInv
<1> QED
  BY <1>1, <1>2, <1>3, <1>4, <1>5, <1>6 DEF Next

\* No manifest has more shards than the limit.
LEMMA ShapeBounded ==
  ASSUME BaseInv, Shape(built, call)
  PROVE  Len(built.shards) <= MaxShards
<1>1. CASE call.builder \in Cutters \cup {"longform"}
  BY <1>1 DEF Shape, TextShape, Cutters
<1>2. CASE call.builder = "jsonl"
  BY <1>2 DEF Shape, JsonlShape, Cutters
<1>3. CASE call.builder = "ocr"
  BY <1>3 DEF Shape, OcrShape, Cutters
<1>4. CASE call.builder = "media"
  BY <1>4 DEF Shape, MediaManifestShape, Cutters
<1> QED
  BY <1>1, <1>2, <1>3, <1>4, BuilderKinds

\* The state keeps its type, whatever the builder, the limits and the edits: among others a
\* manifest has no more shards than the limit, and a pass no more results than shards.
THEOREM TypeCorrect == Spec => []TypeOK
<1> DEFINE Inv == BuiltInv /\ HandInv /\ PassInv /\ PlanInv /\ StageInv
<1>1. Init => Inv
  <2> SUFFICES ASSUME Init PROVE Inv
    OBVIOUS
  <2>1. /\ stage = "called" /\ results = <<>> /\ edits = 0 /\ planned = [verdict |-> "none", edits |-> 0]
        /\ built = NoManifest /\ manifest = NoManifest
    BY DEF Init
  <2>2. Listed(results)
    BY <2>1 DEF Listed
  <2>3. PlanInv
    BY <2>1 DEF PlanInv
  <2>4. StageInv
    BY <2>1, LimitsAssumption DEF StageInv, BuilderStages
  <2> QED
    BY <2>1, <2>2, <2>3, <2>4, BuiltInit DEF HandInv, PassInv, Later
<1>2. Inv /\ [Next]_vars => Inv'
  BY BuiltStep, HandStep, PassStep, StepPlan, StageStep
<1>3. Inv => TypeOK
  <2> SUFFICES ASSUME Inv PROVE TypeOK
    OBVIOUS
  <2>1. DOMAIN disk = DOMAIN call.files /\ edits \in 0 .. MaxEdits
    BY DEF BuiltInv, LoopInv, BaseInv, StageInv
  <2>2. planned.verdict \in {"none", "ok", "blocked", "throws"} /\ planned.edits \in 0 .. edits
    BY DEF PlanInv
  <2>3. Len(results) <= Len(manifest.shards) /\ Len(built.shards) <= MaxShards
    <3>1. CASE stage \in Later
      <4>1. Shape(built, call) /\ Len(manifest.shards) = Len(built.shards)
        BY <3>1 DEF BuiltInv, HandInv
      <4>2. Len(built.shards) <= MaxShards /\ Len(built.shards) \in Nat
        BY <4>1, ShapeBounded, BuiltShards DEF BuiltInv, LoopInv
      <4>3. stage \notin {"working", "extracted", "done"} => Len(results) = 0
        BY DEF StageInv
      <4>4. stage \in {"working", "extracted", "done"} => Len(results) \in Nat /\ Len(results) <= Len(built.shards)
        BY <4>2 DEF PassInv, Listed
      <4> QED
        BY <4>1, <4>2, <4>3, <4>4
    <3>2. CASE stage \notin Later
      <4>1. results = <<>> /\ manifest.shards = <<>> /\ built.shards = <<>>
        BY <3>2 DEF StageInv, Later, NoManifest
      <4> QED
        BY <4>1, LimitsAssumption
    <3> QED
      BY <3>1, <3>2
  <2>4. stage \in BuilderStages \cup {"refused"} \cup Later
    BY DEF StageInv
  <2> QED
    BY <2>1, <2>2, <2>3, <2>4 DEF TypeOK, BuilderStages, Later
<1> QED
  BY <1>1, <1>2, <1>3, PTL DEF Spec

=============================================================================
