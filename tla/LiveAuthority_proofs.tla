------------------------ MODULE LiveAuthority_proofs ------------------------
(* Theorems about LiveAuthority, for every set of runs, receipts and processes. *)
EXTENDS LiveAuthority, FiniteSetTheorems, WellFoundedInduction, TLAPS

Past(w) == pc[w] \in {"authorised", "cleared", "calling", "concluded"}

(* The types the argument needs.  The charged amounts are sums over the items, *)
(* about which nothing is used.                                                *)
GateTypes ==
  /\ receiptOf \in [Runs -> Receipts]
  /\ consumedBy \in [Receipts -> Runs \cup {NoRun}]
  /\ ledger = [r \in Runs |-> [status |-> ledger[r].status, charged |-> ledger[r].charged,
                               at |-> ledger[r].at]]
  /\ billed \in [Runs -> [Items -> Nat]]
  /\ pc \in [Workers -> Places]
  /\ job \in [Workers -> Runs \cup {NoRun}]
  /\ \A w \in Workers : pc[w] = "idle" <=> job[w] = NoRun
  /\ call \in [Workers -> Items \cup {NoItem}]

\* A process is past the gate with a run whose receipt it consumed and whose
\* reservation nobody has settled.
PastIsReserved ==
  \A w \in Workers : Past(w) => /\ consumedBy[receiptOf[job[w]]] = job[w]
                                /\ ledger[job[w]].status = "reserved"

GateInv ==
  /\ GateTypes
  /\ ReceiptsMatchLedger
  /\ PastIsReserved
  /\ OneProcessPastTheGate
  /\ SpendIsAuthorised

LEMMA InitGateInv == Init => GateInv
<1> SUFFICES ASSUME Init PROVE GateInv
  OBVIOUS
<1> USE RunsAssumption, ItemsAssumption DEF Init
<1>1. GateTypes
  BY DEF GateTypes, Places, NoRow
<1>2. ReceiptsMatchLedger
  BY DEF ReceiptsMatchLedger, NoRow
<1>3. PastIsReserved /\ OneProcessPastTheGate
  BY DEF PastIsReserved, OneProcessPastTheGate, Past
<1>4. SpendIsAuthorised
  BY DEF SpendIsAuthorised
<1> QED
  BY <1>1, <1>2, <1>3, <1>4 DEF GateInv

\* Steps that leave the store's gate alone and move no process past it.
LEMMA QuietStep ==
  ASSUME GateInv, UNCHANGED <<receiptOf, consumedBy, ledger, billed>>, GateTypes',
         \A w \in Workers : Past(w)' => Past(w) /\ job'[w] = job[w]
  PROVE  GateInv'
<1>1. ReceiptsMatchLedger' /\ SpendIsAuthorised'
  BY DEF GateInv, ReceiptsMatchLedger, SpendIsAuthorised
<1>2. PastIsReserved'
  BY DEF GateInv, PastIsReserved
<1>3. OneProcessPastTheGate'
  BY DEF GateInv, OneProcessPastTheGate, Past
<1> QED
  BY <1>1, <1>2, <1>3 DEF GateInv

\* The transaction writes the store of a run nobody is past the gate with.
LEMMA StepAuthorise ==
  ASSUME GateInv, NEW w \in Workers, Authorise(w)
  PROVE  GateInv'
<1> DEFINE r == job[w]
           c == receiptOf[r]
<1>1. r \in Runs /\ c \in Receipts /\ pc[w] = "planned" /\ UNCHANGED receiptOf
  BY RunsAssumption DEF manifest, Authorise, GateInv, GateTypes
<1>2. /\ UNCHANGED <<billed, job, call>>
      /\ pc' \in [Workers -> Places]
      /\ \A v \in Workers : v # w => pc'[v] = pc[v]
      /\ pc'[w] # "idle"
  BY <1>1 DEF Authorise, Consume, Goto, GateInv, GateTypes, Places
<1>3. CASE pc'[w] # "authorised"
  <2>1. UNCHANGED <<consumedBy, ledger>> /\ ~Past(w)'
    BY <1>1, <1>3 DEF Authorise, Consume, Goto, GateInv, GateTypes, Past, Places
  <2>2. GateTypes'
    BY <1>2, <1>1, <2>1 DEF GateInv, GateTypes
  <2>3. \A v \in Workers : Past(v)' => Past(v) /\ job'[v] = job[v]
    BY <1>2, <2>1 DEF Past
  <2> QED
    BY <1>1, <1>2, <2>1, <2>2, <2>3, QuietStep
<1>4. CASE pc'[w] = "authorised"
  <2>10. \A q \in Runs : receiptOf'[q] = receiptOf[q] /\ receiptOf[q] \in Receipts
    BY <1>1 DEF GateInv, GateTypes
  <2>1. /\ consumedBy[c] = NoRun
        /\ consumedBy' = [consumedBy EXCEPT ![c] = r]
        /\ ledger' = [ledger EXCEPT ![r] = [status |-> "reserved", charged |-> Reserve[r], at |-> now]]
    BY <1>1, <1>4 DEF Authorise, Consume, Goto, GateInv, GateTypes
  <2>2. /\ consumedBy'[c] = r /\ \A d \in Receipts : d # c => consumedBy'[d] = consumedBy[d]
        /\ ledger'[r].status = "reserved" /\ \A q \in Runs : q # r => ledger'[q] = ledger[q]
    BY <1>1, <2>1 DEF GateInv, GateTypes
  <2>3. GateTypes'
    BY <1>1, <1>2, <2>1 DEF GateInv, GateTypes
  <2>4. ledger[r].status = "none" /\ \A q \in Runs : receiptOf[q] = c => ledger[q].status = "none"
    BY <1>1, <2>1, RunsAssumption DEF GateInv, ReceiptsMatchLedger
  <2>5. ReceiptsMatchLedger'
    BY <1>1, <2>2, <2>4, <2>10 DEF GateInv, ReceiptsMatchLedger
  <2>6. \A v \in Workers : Past(v) => job[v] \in Runs /\ receiptOf[job[v]] # c /\ job[v] # r
    <3> SUFFICES ASSUME NEW v \in Workers, Past(v)
                 PROVE  job[v] \in Runs /\ receiptOf[job[v]] # c
      OBVIOUS
    <3>1. job[v] \in Runs
      BY DEF GateInv, GateTypes, Past
    <3>2. consumedBy[receiptOf[job[v]]] = job[v]
      BY DEF GateInv, PastIsReserved
    <3> QED
      BY <2>1, <3>1, <3>2, RunsAssumption DEF GateInv, GateTypes
  <2>7. PastIsReserved'
    <3>1. consumedBy'[receiptOf'[job'[w]]] = job'[w] /\ ledger'[job'[w]].status = "reserved"
      BY <1>1, <1>2, <2>2
    <3>2. ASSUME NEW v \in Workers, v # w, Past(v)'
          PROVE  consumedBy'[receiptOf'[job'[v]]] = job'[v] /\ ledger'[job'[v]].status = "reserved"
      <4>1. Past(v) /\ job'[v] = job[v]
        BY <1>2, <3>2 DEF Past
      <4>2. consumedBy[receiptOf[job[v]]] = job[v] /\ ledger[job[v]].status = "reserved"
        BY <4>1 DEF GateInv, PastIsReserved
      <4> QED
        BY <2>2, <2>6, <2>10, <4>1, <4>2
    <3> QED
      BY <3>1, <3>2 DEF PastIsReserved
  <2>8. OneProcessPastTheGate'
    BY <1>2, <2>6 DEF GateInv, OneProcessPastTheGate, Past
  <2>9. SpendIsAuthorised'
    BY <1>1, <1>2, <2>2, <2>4, <2>10 DEF GateInv, SpendIsAuthorised
  <2> QED
    BY <2>3, <2>5, <2>7, <2>8, <2>9 DEF GateInv
<1> QED
  BY <1>3, <1>4

\* A call is billed to a run whose process is past the gate.
LEMMA StepCall ==
  ASSUME GateInv, NEW w \in Workers, NEW i \in Items, Call(w, i)
  PROVE  GateInv'
<1>1. job[w] \in Runs /\ UNCHANGED <<receiptOf, consumedBy, ledger, pc, job>>
  BY DEF manifest, Call, GateInv, GateTypes
<1>2. billed' = billed \/ \E cost \in Nat : billed' = [billed EXCEPT ![job[w]][i] = @ + cost]
  BY NumbersAssumption DEF Call
<1>3. \A q \in Runs : q # job[w] => billed'[q] = billed[q]
  BY <1>1, <1>2 DEF GateInv, GateTypes
<1>4. billed' \in [Runs -> [Items -> Nat]]
  <2>1. CASE billed' = billed
    BY <2>1 DEF GateInv, GateTypes
  <2>2. ASSUME NEW cost \in Nat, billed' = [billed EXCEPT ![job[w]][i] = @ + cost]
        PROVE  billed' \in [Runs -> [Items -> Nat]]
    <3>1. billed[job[w]] \in [Items -> Nat] /\ billed[job[w]][i] + cost \in Nat
      BY <1>1 DEF GateInv, GateTypes
    <3>2. [billed[job[w]] EXCEPT ![i] = @ + cost] \in [Items -> Nat]
      BY <3>1
    <3> QED
      BY <1>1, <2>2, <3>2 DEF GateInv, GateTypes
  <2> QED
    BY <1>2, <2>1, <2>2
<1>5. GateTypes'
  <2>1. call' \in [Workers -> Items \cup {NoItem}]
    BY SMTT(40) DEF Call, GateInv, GateTypes
  <2> QED
    BY <1>1, <1>4, <2>1 DEF GateInv, GateTypes
<1>6. ReceiptsMatchLedger' /\ PastIsReserved' /\ OneProcessPastTheGate'
  BY <1>1 DEF GateInv, ReceiptsMatchLedger, PastIsReserved, OneProcessPastTheGate, Past
<1>7. consumedBy[receiptOf[job[w]]] = job[w] /\ ledger[job[w]].status # "none"
  BY DEF Call, GateInv, PastIsReserved, Past
<1>8. SpendIsAuthorised'
  BY <1>1, <1>3, <1>7 DEF GateInv, SpendIsAuthorised
<1> QED
  BY <1>5, <1>6, <1>8 DEF GateInv

\* Reconciliation settles the row of a run no other process is past the gate with.
LEMMA StepReconcile ==
  ASSUME GateInv, NEW w \in Workers, Reconcile(w)
  PROVE  /\ GateInv'
         /\ ledger[job[w]].status = "reserved"
         /\ ledger'[job[w]].status # "reserved" /\ ledger'[job[w]].at = ledger[job[w]].at
         /\ \A q \in Runs : q # job[w] => ledger'[q] = ledger[q]
<1> DEFINE r == job[w]
<1>1. r \in Runs /\ Past(w) /\ UNCHANGED <<receiptOf, consumedBy, billed>>
  BY DEF manifest, Reconcile, GateInv, GateTypes, Past
<1>2. ledger[r].status = "reserved" /\ consumedBy[receiptOf[r]] = r
  BY <1>1 DEF GateInv, PastIsReserved
<1>3. PICK st \in {"retained_conservative", "overrun", "reconciled"}, x \in {Reserve[r], observed[w]} :
        ledger' = [ledger EXCEPT ![r] = [status |-> st, charged |-> x, at |-> ledger[r].at]]
  BY DEF Reconcile, Settled
<1>4. /\ ledger'[r].status = st /\ ledger'[r].at = ledger[r].at
      /\ \A q \in Runs : q # r => ledger'[q] = ledger[q]
  BY <1>1, <1>3 DEF GateInv, GateTypes
<1>5. /\ pc' = [pc EXCEPT ![w] = "idle"] /\ job' = [job EXCEPT ![w] = NoRun]
      /\ call' = [call EXCEPT ![w] = NoItem]
  BY DEF Reconcile, Leave, Goto
<1>6. GateTypes'
  <2>1. ledger' = [q \in Runs |-> [status |-> ledger'[q].status, charged |-> ledger'[q].charged,
                                   at |-> ledger'[q].at]]
    BY <1>1, <1>3 DEF GateInv, GateTypes
  <2> QED
    BY <1>1, <1>5, <2>1, RunsAssumption DEF GateInv, GateTypes, Places
<1>7. \A v \in Workers : Past(v)' => v # w /\ Past(v) /\ job'[v] = job[v] /\ job[v] # r /\ job[v] \in Runs
  BY <1>1, <1>5 DEF GateInv, GateTypes, Past, OneProcessPastTheGate
<1>8. PastIsReserved'
  BY <1>1, <1>4, <1>7 DEF GateInv, PastIsReserved
<1>9. OneProcessPastTheGate'
  BY <1>7 DEF GateInv, OneProcessPastTheGate, Past
<1>10. ReceiptsMatchLedger' /\ SpendIsAuthorised'
  BY <1>1, <1>2, <1>4 DEF GateInv, ReceiptsMatchLedger, SpendIsAuthorised
<1> QED
  BY <1>2, <1>4, <1>6, <1>8, <1>9, <1>10 DEF GateInv

\* The steps that touch neither receipts nor ledger nor bills.
Quiet ==
  \/ \E r \in Runs : Submit(r) \/ Cancel(r)
  \/ \E w \in Workers, r \in Runs : Plan(w, r)
  \/ \E w \in Workers : \/ Refuse(w) \/ Exhaust(w) \/ Redact(w) \/ Start(w)
                        \/ Answer(w) \/ AnswerWithoutUsage(w) \/ CallFails(w)
                        \/ Conclude(w) \/ Crash(w) \/ GateFault(w)
  \/ Tick
  \/ UNCHANGED vars

LEMMA StepQuiet ==
  ASSUME GateInv, Quiet
  PROVE  GateInv' /\ ledger' = ledger
<1> DEFINE Stays == \A v \in Workers : Past(v)' => Past(v) /\ job'[v] = job[v]
           Same  == UNCHANGED <<receiptOf, consumedBy, ledger, billed>>
<1> SUFFICES Same /\ GateTypes' /\ Stays
  BY QuietStep
<1> USE RunsAssumption, ItemsAssumption
<1> USE DEF GateInv, GateTypes, Places, Past, Goto, manifest, storeVars, procVars
<1>1. ASSUME NEW r \in Runs, Submit(r) \/ Cancel(r) PROVE Same /\ GateTypes' /\ Stays
  BY <1>1 DEF Submit, Cancel
<1>2. ASSUME NEW w \in Workers, NEW r \in Runs, Plan(w, r) PROVE Same /\ GateTypes' /\ Stays
  BY <1>2 DEF Plan
<1>3. ASSUME NEW w \in Workers, Leave(w), Same PROVE GateTypes' /\ Stays
  <2>1. GateTypes'
    BY <1>3 DEF Leave
  <2>2. Stays
    BY <1>3 DEF Leave
  <2> QED
    BY <2>1, <2>2
<1>4. ASSUME NEW w \in Workers, Refuse(w) \/ Exhaust(w) \/ Crash(w) PROVE Same /\ GateTypes' /\ Stays
  <2>1. Leave(w) /\ Same
    BY <1>4 DEF Refuse, Exhaust, Crash
  <2> QED
    BY <1>3, <2>1
<1>5. ASSUME NEW w \in Workers, Redact(w) \/ Start(w) \/ Conclude(w) \/ GateFault(w)
      PROVE  Same /\ GateTypes' /\ Stays
  BY ZenonT(40), <1>5 DEF Redact, Start, Conclude, GateFault
<1>6. ASSUME NEW w \in Workers, Answer(w) \/ AnswerWithoutUsage(w) \/ CallFails(w)
      PROVE  Same /\ GateTypes' /\ Stays
  BY <1>6 DEF Answer, AnswerWithoutUsage, CallFails, Outcome
<1>7. CASE Tick
  BY <1>7 DEF Tick
<1>8. CASE UNCHANGED vars
  BY <1>8 DEF vars
<1> QED
  BY <1>1, <1>2, <1>4, <1>5, <1>6, <1>7, <1>8 DEF Quiet

LEMMA NextSplits ==
  ASSUME [Next]_vars
  PROVE  \/ Quiet
         \/ \E w \in Workers : Authorise(w) \/ Reconcile(w) \/ \E i \in Items : Call(w, i)
  BY DEF Next, Quiet

LEMMA StepGateInv == GateInv /\ [Next]_vars => GateInv'
  BY NextSplits, StepQuiet, StepAuthorise, StepReconcile, StepCall

-----------------------------------------------------------------------------
(* Theorems *)

\* Whatever crashes, reruns, replays and cancels happen, no run is billed before
\* it has consumed its own receipt and reserved its worst-case cost
\* (runner.ts 253-281, store.ts 318-389).
THEOREM SpendIsAlwaysAuthorised == Spec => []SpendIsAuthorised
<1>1. GateInv => SpendIsAuthorised
  BY DEF GateInv
<1> QED
  BY <1>1, InitGateInv, StepGateInv, PTL DEF Spec

\* Consumption and reservation are in the store together or not at all.
THEOREM ReceiptsAlwaysMatchLedger == Spec => []ReceiptsMatchLedger
<1>1. GateInv => ReceiptsMatchLedger
  BY DEF GateInv
<1> QED
  BY <1>1, InitGateInv, StepGateInv, PTL DEF Spec

\* No run is executed by two processes, at once or one after the other's crash.
THEOREM OnlyOneProcessPastTheGate == Spec => []OneProcessPastTheGate
<1>1. GateInv => OneProcessPastTheGate
  BY DEF GateInv
<1> QED
  BY <1>1, InitGateInv, StepGateInv, PTL DEF Spec

\* A reservation is written once, settled once, and keeps its time: no rerun, replay
\* or crash reopens or refunds it (store.ts 353-373, 415-434).
THEOREM LedgerSettledOnce == Spec => LedgerIsSettledOnce
<1> DEFINE SettlesOnce ==
      \A r \in Runs : ledger[r].status # "none" =>
        /\ ledger'[r].at = ledger[r].at
        /\ ledger'[r] # ledger[r] => ledger[r].status = "reserved" /\ ledger'[r].status # "reserved"
<1>1. GateInv /\ [Next]_vars => [SettlesOnce]_vars
  <2> SUFFICES ASSUME GateInv, [Next]_vars PROVE SettlesOnce
    OBVIOUS
  <2>1. CASE Quiet
    BY <2>1, StepQuiet
  <2>2. ASSUME NEW w \in Workers, Authorise(w) PROVE SettlesOnce
    <3>1. job[w] \in Runs
      BY <2>2 DEF Authorise, GateInv, GateTypes
    <3>2. \/ ledger' = ledger
          \/ /\ consumedBy[receiptOf[job[w]]] = NoRun
             /\ \A q \in Runs : q # job[w] => ledger'[q] = ledger[q]
      BY <2>2, <3>1 DEF Authorise, Consume, GateInv, GateTypes
    <3>3. consumedBy[receiptOf[job[w]]] = NoRun => ledger[job[w]].status = "none"
      BY <3>1, RunsAssumption DEF GateInv, ReceiptsMatchLedger
    <3> QED
      BY <3>2, <3>3
  <2>3. ASSUME NEW w \in Workers, Reconcile(w) PROVE SettlesOnce
    BY <2>3, StepReconcile
  <2>4. ASSUME NEW w \in Workers, NEW i \in Items, Call(w, i) PROVE SettlesOnce
    BY <2>4 DEF Call
  <2> QED
    BY <2>1, <2>2, <2>3, <2>4, NextSplits
<1> QED
  BY <1>1, InitGateInv, StepGateInv, PTL DEF Spec, LedgerIsSettledOnce

-----------------------------------------------------------------------------
(* Sums over finite sets.  FiniteSetsExt folds over the elements in the order CHOOSE takes them; *)
(* what is needed of a sum does not depend on it.                                                *)

Pick(s) == CHOOSE x \in s : TRUE

\* g gives every subset of S the sum of f over it.
IsSum(g, f, S) == g = [s \in SUBSET S |-> IF s = {} THEN 0 ELSE f[Pick(s)] + g[s \ {Pick(s)}]]

Total(f, S) == (CHOOSE g : IsSum(g, f, S))[S]

LEMMA PickIsMember == ASSUME NEW s, s # {} PROVE Pick(s) \in s
  BY DEF Pick

LEMMA TotalIsSum == ASSUME NEW S, NEW f PROVE MapThenSumSet(LAMBDA x : f[x], S) = Total(f, S)
  BY DEF MapThenSumSet, MapThenFoldSet, IsSum, Pick, Total

\* A nonempty set of finite sets has a minimal member.
LEMMA MinimalSet ==
  ASSUME NEW S, IsFiniteSet(S), NEW B, B \subseteq SUBSET S, B # {}
  PROVE  \E T \in B : \A U \in B : U \subseteq T => U = T
<1>1. PICK T \in B : \A U \in B : ~(<<U, T>> \in StrictSubsetOrdering(S))
  <2>1. IsWellFoundedOn(StrictSubsetOrdering(S), SUBSET S)
    BY FS_StrictSubsetOrderingWellFounded, FS_FiniteSubsetsOfFinite
  <2> QED
    BY <2>1, WFMin
<1>2. \A U \in B : U \subseteq T => U = T
  BY <1>1 DEF StrictSubsetOrdering
<1> QED
  BY <1>2

LEMMA SumUnique ==
  ASSUME NEW S, IsFiniteSet(S), NEW f, NEW g, NEW h, IsSum(g, f, S), IsSum(h, f, S)
  PROVE  g = h
<1> DEFINE B == {s \in SUBSET S : g[s] # h[s]}
<1>0. B \subseteq SUBSET S
  OBVIOUS
<1>1. ASSUME B # {} PROVE FALSE
  <2>1. PICK s \in B : \A u \in B : u \subseteq s => u = s
    <3> HIDE DEF B
    <3> QED
      BY <1>0, <1>1, MinimalSet
  <2>2. s # {}
    BY <2>1 DEF IsSum
  <2>3. Pick(s) \in s
    BY <2>2, PickIsMember
  <2>4. g[s \ {Pick(s)}] = h[s \ {Pick(s)}]
    BY <2>1, <2>3
  <2> QED
    BY <2>1, <2>2, <2>4 DEF IsSum
<1>2. \A s \in SUBSET S : g[s] = h[s]
  BY <1>1
<1> QED
  BY <1>2 DEF IsSum

LEMMA SumRestricted ==
  ASSUME NEW S, NEW T \in SUBSET S, NEW f, NEW g, IsSum(g, f, S)
  PROVE  IsSum([s \in SUBSET T |-> g[s]], f, T)
<1> DEFINE h == [s \in SUBSET T |-> g[s]]
<1>1. ASSUME NEW s \in SUBSET T
      PROVE  h[s] = IF s = {} THEN 0 ELSE f[Pick(s)] + h[s \ {Pick(s)}]
  <2>1. s \in SUBSET S /\ s \ {Pick(s)} \in SUBSET T
    OBVIOUS
  <2>2. g[s] = IF s = {} THEN 0 ELSE f[Pick(s)] + g[s \ {Pick(s)}]
    BY <2>1 DEF IsSum
  <2> QED
    BY <2>1, <2>2
<1>2. h = [s \in SUBSET T |-> IF s = {} THEN 0 ELSE f[Pick(s)] + h[s \ {Pick(s)}]]
  BY <1>1
<1> QED
  BY <1>2 DEF IsSum

\* The sum over S once it is known of the subsets of S.
LEMMA TotalUnfolds ==
  ASSUME NEW S, IsFiniteSet(S), NEW f, \E g : IsSum(g, f, S)
  PROVE  /\ S = {} => Total(f, S) = 0
         /\ S # {} => Total(f, S) = f[Pick(S)] + Total(f, S \ {Pick(S)})
<1> DEFINE g == CHOOSE g : IsSum(g, f, S)
           T == S \ {Pick(S)}
           h == CHOOSE h : IsSum(h, f, T)
           k == [s \in SUBSET T |-> g[s]]
<1>1. IsSum(g, f, S)
  OBVIOUS
<1>2. T \in SUBSET S /\ IsFiniteSet(T)
  BY FS_Subset
<1>3. IsSum(k, f, T)
  <2> HIDE DEF g, T
  <2> QED
    BY <1>1, <1>2, SumRestricted
<1>4. IsSum(h, f, T)
  BY <1>3
<1>5. h = k
  BY <1>2, <1>3, <1>4, SumUnique
<1>6. h[T] = g[T]
  BY <1>5
<1>7. S \in SUBSET S
  OBVIOUS
<1>8. g[S] = IF S = {} THEN 0 ELSE f[Pick(S)] + g[T]
  BY <1>1, <1>7 DEF IsSum
<1> QED
  BY <1>6, <1>8 DEF Total

LEMMA SumExists ==
  ASSUME NEW S, IsFiniteSet(S), NEW f PROVE \E g : IsSum(g, f, S)
<1> DEFINE B == {T \in SUBSET S : ~ \E g : IsSum(g, f, T)}
<1>0. B \subseteq SUBSET S
  OBVIOUS
<1>1. ASSUME B # {} PROVE FALSE
  <2>1. PICK T \in B : \A U \in B : U \subseteq T => U = T
    <3> HIDE DEF B
    <3> QED
      BY <1>0, <1>1, MinimalSet
  <2>2. ASSUME NEW U \in SUBSET T, U # T PROVE IsFiniteSet(U) /\ \E g : IsSum(g, f, U)
    BY <2>1, <2>2, FS_Subset
  <2> DEFINE g == [s \in SUBSET T |-> IF s = {} THEN 0 ELSE f[Pick(s)] + Total(f, s \ {Pick(s)})]
  <2>3. ASSUME NEW s \in SUBSET T, s # {} PROVE g[s \ {Pick(s)}] = Total(f, s \ {Pick(s)})
    <3> DEFINE u == s \ {Pick(s)}
    <3>1. u \in SUBSET T /\ u # T
      BY <2>3, PickIsMember
    <3>2. /\ u = {} => Total(f, u) = 0
          /\ u # {} => Total(f, u) = f[Pick(u)] + Total(f, u \ {Pick(u)})
      BY <2>2, <3>1, TotalUnfolds
    <3> HIDE DEF u
    <3>3. g[u] = IF u = {} THEN 0 ELSE f[Pick(u)] + Total(f, u \ {Pick(u)})
      BY <3>1
    <3>4. g[u] = Total(f, u)
      BY <3>2, <3>3
    <3> QED
      BY <3>4 DEF u
  <2>4. g = [s \in SUBSET T |-> IF s = {} THEN 0 ELSE f[Pick(s)] + g[s \ {Pick(s)}]]
    <3>1. ASSUME NEW s \in SUBSET T
          PROVE  (IF s = {} THEN 0 ELSE f[Pick(s)] + Total(f, s \ {Pick(s)}))
                   = (IF s = {} THEN 0 ELSE f[Pick(s)] + g[s \ {Pick(s)}])
      BY <2>3
    <3> QED
      BY <3>1, Zenon
  <2> HIDE DEF g
  <2>5. IsSum(g, f, T)
    BY <2>4 DEF IsSum
  <2> QED
    BY <2>1, <2>5
<1> QED
  BY <1>1

LEMMA TotalEmpty == ASSUME NEW f PROVE Total(f, {}) = 0
  BY FS_EmptySet, SumExists, TotalUnfolds

LEMMA TotalPicks ==
  ASSUME NEW S, IsFiniteSet(S), S # {}, NEW f
  PROVE  Total(f, S) = f[Pick(S)] + Total(f, S \ {Pick(S)})
  BY SumExists, TotalUnfolds

LEMMA TotalType ==
  ASSUME NEW S, IsFiniteSet(S), NEW f, \A x \in S : f[x] \in Nat PROVE Total(f, S) \in Nat
<1> DEFINE B == {T \in SUBSET S : Total(f, T) \notin Nat}
<1>0. B \subseteq SUBSET S
  OBVIOUS
<1>1. ASSUME B # {} PROVE FALSE
  <2>1. PICK T \in B : \A U \in B : U \subseteq T => U = T
    <3> HIDE DEF B
    <3> QED
      BY <1>0, <1>1, MinimalSet
  <2>2. T # {} /\ IsFiniteSet(T)
    <3>1. Total(f, {}) \in Nat
      BY TotalEmpty
    <3>2. T \in SUBSET S /\ Total(f, T) \notin Nat
      BY <2>1
    <3> QED
      BY <3>1, <3>2, FS_Subset
  <2>3. Pick(T) \in T /\ f[Pick(T)] \in Nat
    BY <2>2, PickIsMember
  <2>4. Total(f, T \ {Pick(T)}) \in Nat
    BY <2>1, <2>3
  <2>5. Total(f, T) = f[Pick(T)] + Total(f, T \ {Pick(T)})
    BY <2>2, TotalPicks
  <2> QED
    BY <2>1, <2>3, <2>4, <2>5
<1> QED
  BY <1>1

\* A sum takes its elements in any order.
LEMMA TotalRemoves ==
  ASSUME NEW S, IsFiniteSet(S), NEW f, \A x \in S : f[x] \in Nat, NEW a \in S
  PROVE  Total(f, S) = f[a] + Total(f, S \ {a})
<1> DEFINE B == {T \in SUBSET S : \E x \in T : Total(f, T) # f[x] + Total(f, T \ {x})}
<1>0. B \subseteq SUBSET S
  OBVIOUS
<1>1. ASSUME B # {} PROVE FALSE
  <2>1. PICK T \in B : \A U \in B : U \subseteq T => U = T
    <3> HIDE DEF B
    <3> QED
      BY <1>0, <1>1, MinimalSet
  <2>2. PICK x \in T : Total(f, T) # f[x] + Total(f, T \ {x})
    BY <2>1
  <2> DEFINE p == Pick(T)
             U == T \ {p}
             V == T \ {x}
             W == T \ {p, x}
  <2>3. p \in T /\ IsFiniteSet(T) /\ IsFiniteSet(U) /\ IsFiniteSet(V) /\ IsFiniteSet(W)
    BY <2>1, <2>2, PickIsMember, FS_Subset
  <2>4. Total(f, T) = f[p] + Total(f, U)
    BY <2>2, <2>3, TotalPicks
  <2>5. x # p /\ x \in U /\ p \in V /\ U \ {x} = W /\ V \ {p} = W
    BY <2>2, <2>3, <2>4
  <2>6. U \notin B /\ V \notin B
    BY <2>1, <2>2, <2>3
  <2>7. Total(f, U) = f[x] + Total(f, W) /\ Total(f, V) = f[p] + Total(f, W)
    <3> HIDE DEF p, U, V, W
    <3>1. U \in SUBSET S /\ V \in SUBSET S
      BY <2>1 DEF U, V
    <3> QED
      BY <2>5, <2>6, <3>1
  <2>8. f[p] \in Nat /\ f[x] \in Nat /\ Total(f, W) \in Nat
    <3>1. \A y \in W : f[y] \in Nat
      BY <2>1
    <3> QED
      BY <2>1, <2>2, <2>3, <3>1, TotalType
  <2> HIDE DEF p, U, V, W
  <2>9. Total(f, T) = f[x] + Total(f, V)
    BY <2>4, <2>7, <2>8
  <2> QED
    BY <2>2, <2>9 DEF V
<1>2. S \notin B
  BY <1>1
<1> QED
  BY <1>2

\* Larger amounts have a larger sum.
LEMMA TotalMonotone ==
  ASSUME NEW S, IsFiniteSet(S), NEW f, NEW g,
         \A x \in S : f[x] \in Nat /\ g[x] \in Nat /\ f[x] <= g[x]
  PROVE  Total(f, S) <= Total(g, S)
<1> DEFINE B == {T \in SUBSET S : ~(Total(f, T) <= Total(g, T))}
<1>0. B \subseteq SUBSET S
  OBVIOUS
<1>1. ASSUME B # {} PROVE FALSE
  <2>1. PICK T \in B : \A U \in B : U \subseteq T => U = T
    <3> HIDE DEF B
    <3> QED
      BY <1>0, <1>1, MinimalSet
  <2>2. T # {} /\ IsFiniteSet(T)
    <3>1. Total(f, T) = 0 /\ Total(g, T) = 0 => Total(f, T) <= Total(g, T)
      OBVIOUS
    <3> QED
      BY <2>1, <3>1, TotalEmpty, FS_Subset
  <2> DEFINE p == Pick(T)
             U == T \ {p}
  <2>3. p \in T /\ f[p] \in Nat /\ g[p] \in Nat /\ f[p] <= g[p]
    BY <2>1, <2>2, PickIsMember
  <2>4. Total(f, U) <= Total(g, U)
    BY <2>1, <2>3
  <2>5. Total(f, U) \in Nat /\ Total(g, U) \in Nat
    <3>1. IsFiniteSet(U) /\ \A x \in U : f[x] \in Nat /\ g[x] \in Nat
      BY <2>1, <2>2, FS_Subset
    <3> QED
      BY <3>1, TotalType
  <2>6. Total(f, T) = f[p] + Total(f, U) /\ Total(g, T) = g[p] + Total(g, U)
    BY <2>2, TotalPicks
  <2> HIDE DEF p, U
  <2>7. Total(f, T) <= Total(g, T)
    BY <2>3, <2>4, <2>5, <2>6
  <2> QED
    BY <2>1, <2>7
<1>2. S \notin B
  BY <1>1
<1> QED
  BY <1>2

\* Fewer elements have a smaller sum.
LEMMA TotalSubset ==
  ASSUME NEW S, IsFiniteSet(S), NEW f, \A x \in S : f[x] \in Nat, NEW T \in SUBSET S
  PROVE  Total(f, T) <= Total(f, S)
<1> DEFINE B == {U \in SUBSET S : T \subseteq U /\ ~(Total(f, T) <= Total(f, U))}
<1>0. B \subseteq SUBSET S
  OBVIOUS
<1>1. ASSUME B # {} PROVE FALSE
  <2>1. PICK U \in B : \A V \in B : V \subseteq U => V = U
    <3> HIDE DEF B
    <3> QED
      BY <1>0, <1>1, MinimalSet
  <2>2. IsFiniteSet(U) /\ IsFiniteSet(T) /\ \A x \in U : f[x] \in Nat
    BY <2>1, FS_Subset
  <2>3. Total(f, T) \in Nat
    BY <2>2, TotalType
  <2>4. U # T
    BY <2>1, <2>3
  <2>5. PICK x \in U : x \notin T
    BY <2>1, <2>4
  <2> DEFINE V == U \ {x}
  <2>6. Total(f, U) = f[x] + Total(f, V)
    BY <2>2, TotalRemoves
  <2>7. Total(f, T) <= Total(f, V)
    BY <2>1, <2>5
  <2>8. Total(f, V) \in Nat /\ f[x] \in Nat
    <3>1. IsFiniteSet(V) /\ \A y \in V : f[y] \in Nat
      BY <2>2, FS_Subset
    <3> QED
      BY <2>2, <3>1, TotalType
  <2> HIDE DEF V
  <2>9. Total(f, T) <= Total(f, U)
    BY <2>3, <2>6, <2>7, <2>8
  <2> QED
    BY <2>1, <2>9
<1>2. S \notin B
  BY <1>1
<1> QED
  BY <1>2

\* Equal amounts have the same sum.
LEMMA TotalSame ==
  ASSUME NEW S, IsFiniteSet(S), NEW f, NEW g, \A x \in S : f[x] \in Nat /\ g[x] = f[x]
  PROVE  Total(f, S) = Total(g, S)
<1>1. \A x \in S : f[x] \in Nat /\ g[x] \in Nat /\ f[x] <= g[x] /\ g[x] <= f[x]
  OBVIOUS
<1>2. Total(f, S) <= Total(g, S) /\ Total(g, S) <= Total(f, S)
  BY <1>1, TotalMonotone
<1>3. Total(f, S) \in Nat /\ Total(g, S) \in Nat
  BY <1>1, TotalType
<1> QED
  BY <1>2, <1>3

LEMMA TotalOfZeros ==
  ASSUME NEW S, IsFiniteSet(S), NEW f, \A x \in S : f[x] = 0 PROVE Total(f, S) = 0
<1> DEFINE B == {T \in SUBSET S : Total(f, T) # 0}
<1>0. B \subseteq SUBSET S
  OBVIOUS
<1>1. ASSUME B # {} PROVE FALSE
  <2>1. PICK T \in B : \A U \in B : U \subseteq T => U = T
    <3> HIDE DEF B
    <3> QED
      BY <1>0, <1>1, MinimalSet
  <2>2. T \in SUBSET S /\ Total(f, T) # 0 /\ IsFiniteSet(T)
    BY <2>1, FS_Subset
  <2>3. T # {}
    BY <2>2, TotalEmpty
  <2>4. Pick(T) \in T /\ f[Pick(T)] = 0
    BY <2>2, <2>3, PickIsMember
  <2>5. Total(f, T \ {Pick(T)}) = 0
    BY <2>1, <2>4
  <2>6. Total(f, T) = f[Pick(T)] + Total(f, T \ {Pick(T)})
    BY <2>2, <2>3, TotalPicks
  <2> QED
    BY <2>2, <2>4, <2>5, <2>6
<1> QED
  BY <1>1

CommittedOf == [r \in Runs |-> Committed(r)]

LEMMA CommittedIsSum ==
  ASSUME NEW S \in SUBSET Runs PROVE MapThenSumSet(Committed, S) = Total(CommittedOf, S)
<1> DEFINE IsSumC(g) == g = [s \in SUBSET S |-> IF s = {} THEN 0 ELSE Committed(Pick(s)) + g[s \ {Pick(s)}]]
           g == CHOOSE g : IsSumC(g)
<1>1. MapThenSumSet(Committed, S) = g[S]
  BY DEF MapThenSumSet, MapThenFoldSet, Pick
<1>2. ASSUME NEW h, IsSum(h, CommittedOf, S) PROVE IsSumC(h)
  <2>1. ASSUME NEW s \in SUBSET S
        PROVE  (IF s = {} THEN 0 ELSE CommittedOf[Pick(s)] + h[s \ {Pick(s)}])
                 = (IF s = {} THEN 0 ELSE Committed(Pick(s)) + h[s \ {Pick(s)}])
    BY PickIsMember DEF CommittedOf
  <2> QED
    BY <1>2, <2>1, Zenon DEF IsSum
<1>3. ASSUME NEW h, IsSumC(h) PROVE IsSum(h, CommittedOf, S)
  <2>1. ASSUME NEW s \in SUBSET S
        PROVE  (IF s = {} THEN 0 ELSE CommittedOf[Pick(s)] + h[s \ {Pick(s)}])
                 = (IF s = {} THEN 0 ELSE Committed(Pick(s)) + h[s \ {Pick(s)}])
    BY PickIsMember DEF CommittedOf
  <2> QED
    BY <1>3, <2>1, Zenon DEF IsSum
<1>4. PICK h : IsSum(h, CommittedOf, S)
  BY RunsAssumption, FS_Subset, SumExists
<1> HIDE DEF IsSumC
<1>5. IsSumC(g)
  BY <1>2, <1>4
<1>6. IsSum(g, CommittedOf, S)
  BY <1>3, <1>5
<1> DEFINE k == CHOOSE k : IsSum(k, CommittedOf, S)
<1>7. IsSum(k, CommittedOf, S)
  BY <1>4
<1> HIDE DEF g
<1>8. g = k
  <2> HIDE DEF k
  <2> QED BY <1>6, <1>7, RunsAssumption, FS_Subset, SumUnique
<1> QED
  BY <1>1, <1>8 DEF Total

-----------------------------------------------------------------------------
(* Types *)

LEMMA ObservedType ==
  ASSUME TypeOK, NEW r \in Runs
  PROVE  /\ ObservedCost(r) \in Nat \cup {NoUsage}
         /\ ObservedCost(r) # NoUsage =>
              ObservedCost(r) = Total(usage[r], Items) /\ \A i \in Items : usage[r][i] \in Nat
<1>1. MapThenSumSet(LAMBDA i : usage[r][i], Items) = Total(usage[r], Items)
  BY TotalIsSum
<1>2. CASE \A i \in Items : usage[r][i] # NoUsage
  <2>1. \A i \in Items : usage[r][i] \in Nat
    BY <1>2 DEF TypeOK
  <2>2. Total(usage[r], Items) \in Nat
    BY <2>1, ItemsAssumption, TotalType
  <2> QED
    BY <1>1, <1>2, <2>1, <2>2 DEF ObservedCost
<1>3. CASE ~ \A i \in Items : usage[r][i] # NoUsage
  BY <1>3, Zenon DEF ObservedCost
<1> QED
  BY <1>2, <1>3

LEMMA InitTypeOK == Init => TypeOK
  BY RunsAssumption, ItemsAssumption, NumbersAssumption
     DEF Init, TypeOK, Statuses, Places, LedgerRows, LedgerStatuses, NoRow

LEMMA StepTypeOK == TypeOK /\ [Next]_vars => TypeOK'
<1> SUFFICES ASSUME TypeOK, [Next]_vars PROVE TypeOK'
  OBVIOUS
<1> USE RunsAssumption, ItemsAssumption, NumbersAssumption, ReceiptsAssumption
<1> USE DEF TypeOK, Statuses, Places, LedgerRows, LedgerStatuses, manifest, storeVars, procVars, Goto
<1>1. ASSUME NEW r \in Runs, Submit(r) PROVE TypeOK'
  BY <1>1 DEF Submit
<1>2. ASSUME NEW r \in Runs, Cancel(r) PROVE TypeOK'
  BY <1>2 DEF Cancel
<1>3. ASSUME NEW w \in Workers, NEW r \in Runs, Plan(w, r) PROVE TypeOK'
  BY <1>3 DEF Plan
<1>4. ASSUME NEW w \in Workers, Authorise(w) PROVE TypeOK'
  <2>1. job[w] \in Runs /\ Reserve[job[w]] \in Nat /\ receiptOf[job[w]] \in Receipts /\ now \in Nat
    BY <1>4 DEF Authorise
  <2>2. /\ UNCHANGED <<now, status, manifest, itemStatus, usage, billed, job, todo, call, observed, failures>>
        /\ pc[w] = "planned"
        /\ \/ /\ pc' = [pc EXCEPT ![w] = "refused"] \/ pc' = [pc EXCEPT ![w] = "exhausted"]
              /\ UNCHANGED <<consumedBy, ledger>>
           \/ Consume(w)
    BY <1>4 DEF Authorise
  <2>3. pc' \in [Workers -> Places] /\ \A v \in Workers : pc'[v] = "idle" <=> job'[v] = NoRun
    BY <2>1, <2>2 DEF Consume
  <2>4. consumedBy' \in [Receipts -> Runs \cup {NoRun}]
    BY <2>1, <2>2 DEF Consume
  <2>5. ledger' \in [Runs -> LedgerRows]
    <3> DEFINE row == [status |-> "reserved", charged |-> Reserve[job[w]], at |-> now]
    <3>1. row \in LedgerRows
      BY <2>1
    <3>2. ledger' = ledger \/ ledger' = [ledger EXCEPT ![job[w]] = row]
      BY <2>2 DEF Consume
    <3> HIDE DEF row
    <3> QED
      BY <3>1, <3>2
  <2> QED
    BY <2>2, <2>3, <2>4, <2>5
<1>5. ASSUME NEW w \in Workers, Leave(w)
      PROVE  /\ pc' \in [Workers -> Places]
             /\ job' \in [Workers -> Runs \cup {NoRun}]
             /\ \A v \in Workers : pc'[v] = "idle" <=> job'[v] = NoRun
             /\ todo' \in [Workers -> SUBSET Items]
             /\ call' \in [Workers -> Items \cup {NoItem}]
             /\ observed' \in [Workers -> Nat \cup {NoUsage}]
  BY <1>5 DEF Leave
<1>6. ASSUME NEW w \in Workers, Refuse(w) PROVE TypeOK'
  BY <1>5, <1>6 DEF Refuse
<1>7. ASSUME NEW w \in Workers, Exhaust(w) PROVE TypeOK'
  BY <1>5, <1>7 DEF Exhaust
<1>8. ASSUME NEW w \in Workers, Redact(w) PROVE TypeOK'
  BY <1>8 DEF Redact
<1>9. ASSUME NEW w \in Workers, Start(w) PROVE TypeOK'
  BY <1>9 DEF Start
<1>10. ASSUME NEW w \in Workers, NEW i \in Items, Call(w, i) PROVE TypeOK'
  <2>1. job[w] \in Runs
    BY <1>10 DEF Call
  <2>2. billed' \in [Runs -> [Items -> Nat]]
    <3>1. billed' = billed \/ \E cost \in Nat : billed' = [billed EXCEPT ![job[w]][i] = @ + cost]
      BY <1>10 DEF Call
    <3>2. ASSUME NEW cost \in Nat, billed' = [billed EXCEPT ![job[w]][i] = @ + cost]
          PROVE  billed' \in [Runs -> [Items -> Nat]]
      <4>1. billed[job[w]] \in [Items -> Nat] /\ billed[job[w]][i] + cost \in Nat
        BY <2>1
      <4>2. [billed[job[w]] EXCEPT ![i] = billed[job[w]][i] + cost] \in [Items -> Nat]
        BY <4>1
      <4> QED
        BY <2>1, <3>2, <4>2
    <3>3. billed \in [Runs -> [Items -> Nat]]
      OBVIOUS
    <3> QED
      BY <3>1, <3>2, <3>3
  <2>3. itemStatus' \in [Runs -> [Items -> Statuses]]
    <3>1. itemStatus' = itemStatus \/ itemStatus' = [itemStatus EXCEPT ![job[w]][i] = "running"]
      BY <1>10 DEF Call
    <3>2. [itemStatus[job[w]] EXCEPT ![i] = "running"] \in [Items -> Statuses]
      BY <2>1
    <3> QED
      BY <2>1, <3>1, <3>2
  <2>4. todo' \in [Workers -> SUBSET Items] /\ call' \in [Workers -> Items \cup {NoItem}]
    <3>1. call' = call \/ call' = [call EXCEPT ![w] = i]
      BY <1>10 DEF Call
    <3>2. todo' = [todo EXCEPT ![w] = @ \ {i}]
      BY <1>10 DEF Call
    <3> QED
      BY <3>1, <3>2
  <2> QED
    BY <1>10, <2>2, <2>3, <2>4 DEF Call
<1>11. ASSUME NEW w \in Workers, NEW st \in Statuses, NEW cost \in Nat \cup {NoUsage}, Outcome(w, st, cost)
       PROVE  TypeOK'
  BY <1>11 DEF Outcome
<1>12. ASSUME NEW w \in Workers, Answer(w) \/ AnswerWithoutUsage(w) \/ CallFails(w) PROVE TypeOK'
  <2>1. pc[w] = "calling" /\ call[w] # NoItem
    BY <1>12 DEF Answer, AnswerWithoutUsage, CallFails, Outcome
  <2>2. billed[job[w]][call[w]] \in Nat
    BY <2>1
  <2> QED
    BY <1>11, <1>12, <2>2 DEF Answer, AnswerWithoutUsage, CallFails
<1>13. ASSUME NEW w \in Workers, Conclude(w) PROVE TypeOK'
  BY <1>13, ObservedType DEF Conclude, FinalStatus
<1>14. ASSUME NEW w \in Workers, Reconcile(w) PROVE TypeOK'
  BY <1>5, <1>14 DEF Reconcile, Settled
<1>15. ASSUME NEW w \in Workers, Crash(w) PROVE TypeOK'
  BY <1>5, <1>15 DEF Crash
<1>16. ASSUME NEW w \in Workers, GateFault(w) PROVE TypeOK'
  BY <1>16 DEF GateFault
<1>17. CASE Tick
  BY <1>17 DEF Tick
<1>18. CASE UNCHANGED vars
  BY <1>18 DEF vars
<1> QED
  BY <1>1, <1>2, <1>3, <1>4, <1>6, <1>7, <1>8, <1>9, <1>10, <1>12, <1>13, <1>14, <1>15, <1>16, <1>17, <1>18
     DEF Next

-----------------------------------------------------------------------------
(* The books: what is billed, what is recorded of it, what the ledger says *)

Blank(r) == \A i \in Items : usage[r][i] = NoUsage /\ billed[r][i] = 0

\* Nothing is billed before the receipt is consumed, nor between that and the first call.
UnstartedIsBlank ==
  /\ \A r \in Runs : ledger[r].status = "none" => Blank(r)
  /\ \A w \in Workers : pc[w] \in {"authorised", "cleared"} => Blank(job[w])

\* Usage that is recorded is all that was billed: no item is called again after its answer.
UsageIsBill == \A r \in Runs, i \in Items : usage[r][i] # NoUsage => usage[r][i] = billed[r][i]

CallsAhead ==
  \A w \in Workers :
    IF pc[w] = "calling"
    THEN /\ \A i \in todo[w] : usage[job[w]][i] = NoUsage
         /\ call[w] # NoItem => call[w] \notin todo[w] /\ usage[job[w]][call[w]] = NoUsage
    ELSE call[w] = NoItem

\* A process that is about to reconcile knows what the whole run cost, or that it does not know.
ObservedIsSpent ==
  \A w \in Workers : pc[w] = "concluded" /\ observed[w] # NoUsage => observed[w] = Total(billed[job[w]], Items)

SettledIsSpent ==
  \A r \in Runs :
    /\ ledger[r].status \in {"reconciled", "overrun"} => ledger[r].charged = Total(billed[r], Items)
    /\ ledger[r].status = "retained_conservative" => ledger[r].charged = Reserve[r]

Books == UnstartedIsBlank /\ UsageIsBill /\ CallsAhead /\ ObservedIsSpent /\ SettledIsSpent

LEMMA InitBooks == Init => Books
  BY DEF Init, Books, UnstartedIsBlank, Blank, UsageIsBill, CallsAhead, ObservedIsSpent, SettledIsSpent, NoRow

\* Steps that leave bills and ledger alone and bring no process nearer to a call.
LEMMA BooksFrame ==
  ASSUME Books, UNCHANGED <<usage, billed, ledger>>,
         \A v \in Workers :
           /\ pc'[v] \in {"authorised", "cleared"} => pc[v] \in {"authorised", "cleared"} /\ job'[v] = job[v]
           /\ pc'[v] \in {"calling", "concluded"} =>
                pc'[v] = pc[v] /\ job'[v] = job[v] /\ todo'[v] = todo[v] /\ observed'[v] = observed[v]
                  /\ call'[v] = call[v]
           /\ pc'[v] # "calling" => call'[v] = NoItem
  PROVE  Books'
<1>1. UnstartedIsBlank' /\ UsageIsBill' /\ SettledIsSpent'
  BY DEF Books, UnstartedIsBlank, Blank, UsageIsBill, SettledIsSpent
<1>2. CallsAhead'
  BY DEF Books, CallsAhead
<1>3. ObservedIsSpent'
  BY DEF Books, ObservedIsSpent
<1> QED
  BY <1>1, <1>2, <1>3 DEF Books

LEMMA StepBooks == ASSUME TypeOK, GateInv, Books, [Next]_vars PROVE Books'
<1> USE RunsAssumption, ItemsAssumption, NumbersAssumption
<1> DEFINE Calm == /\ UNCHANGED <<usage, billed, ledger>>
                   /\ \A v \in Workers :
                        /\ pc'[v] \in {"authorised", "cleared"} =>
                             pc[v] \in {"authorised", "cleared"} /\ job'[v] = job[v]
                        /\ pc'[v] \in {"calling", "concluded"} =>
                             pc'[v] = pc[v] /\ job'[v] = job[v] /\ todo'[v] = todo[v] /\ observed'[v] = observed[v]
                               /\ call'[v] = call[v]
                        /\ pc'[v] # "calling" => call'[v] = NoItem
<1>0. /\ \A v \in Workers : pc[v] # "calling" => call[v] = NoItem
      /\ \A v, w \in Workers : Past(v) /\ Past(w) /\ v # w => job[v] # job[w]
      /\ \A w \in Workers : Past(w) => job[w] \in Runs /\ ledger[job[w]].status = "reserved"
  BY DEF TypeOK, Books, CallsAhead, GateInv, GateTypes, OneProcessPastTheGate, PastIsReserved, Past
<1>1. ASSUME NEW r \in Runs, Submit(r) \/ Cancel(r) PROVE Calm
  BY <1>0, <1>1 DEF Submit, Cancel, procVars
<1>2. ASSUME NEW w \in Workers, NEW r \in Runs, Plan(w, r) PROVE Calm
  BY <1>0, <1>2 DEF Plan, storeVars, Goto, TypeOK, Places
<1>3. ASSUME NEW w \in Workers, Leave(w), UNCHANGED <<usage, billed, ledger>> PROVE Calm
  BY <1>0, <1>3 DEF Leave, Goto, TypeOK
<1>4. ASSUME NEW w \in Workers, Refuse(w) \/ Exhaust(w) \/ Crash(w) PROVE Calm
  <2>1. Leave(w) /\ UNCHANGED <<usage, billed, ledger>>
    BY <1>4 DEF Refuse, Exhaust, Crash, storeVars
  <2> QED
    BY <1>3, <2>1
<1>5. ASSUME NEW w \in Workers, Redact(w) \/ GateFault(w) PROVE Calm
  BY <1>0, <1>5 DEF Redact, GateFault, storeVars, Goto, TypeOK
<1>6. ASSUME Tick \/ UNCHANGED vars PROVE Calm
  <2>1. UNCHANGED <<usage, billed, ledger, pc, job, todo, call, observed>>
    BY <1>6 DEF Tick, vars, storeVars, procVars
  <2> QED
    BY <1>0, <2>1
<1>7. ASSUME NEW w \in Workers, Authorise(w) PROVE Books'
  <2>1. /\ job[w] \in Runs /\ receiptOf[job[w]] \in Receipts /\ pc[w] = "planned"
        /\ UNCHANGED <<usage, billed, job, todo, call, observed>>
    BY <1>7 DEF Authorise, TypeOK
  <2>2. CASE ~Consume(w)
    <3>1. /\ UNCHANGED ledger /\ pc'[w] \in {"refused", "exhausted"}
          /\ \A v \in Workers : v # w => pc'[v] = pc[v]
      BY <1>7, <2>2 DEF Authorise, Goto, TypeOK
    <3>2. Calm
      BY <1>0, <2>1, <3>1
    <3> QED
      BY <3>2, BooksFrame
  <2>3. CASE Consume(w)
    <3>1. consumedBy[receiptOf[job[w]]] = NoRun
      BY <1>7, <2>3 DEF Authorise, Consume, Goto, TypeOK, Places
    <3>2. ledger[job[w]].status = "none"
      BY <2>1, <3>1 DEF GateInv, ReceiptsMatchLedger
    <3>3. Blank(job[w])
      BY <2>1, <3>2 DEF Books, UnstartedIsBlank
    <3>4. /\ ledger'[job[w]].status = "reserved" /\ \A q \in Runs : q # job[w] => ledger'[q] = ledger[q]
          /\ pc'[w] = "authorised" /\ \A v \in Workers : v # w => pc'[v] = pc[v]
      BY <2>1, <2>3 DEF Consume, Goto, TypeOK
    <3>5. UnstartedIsBlank' /\ UsageIsBill'
      BY <2>1, <3>3, <3>4 DEF Books, UnstartedIsBlank, Blank, UsageIsBill
    <3>6. CallsAhead' /\ ObservedIsSpent' /\ SettledIsSpent'
      BY <1>0, <2>1, <3>4 DEF Books, CallsAhead, ObservedIsSpent, SettledIsSpent
    <3> QED
      BY <3>5, <3>6 DEF Books
  <2> QED
    BY <2>2, <2>3
<1>8. ASSUME NEW w \in Workers, Start(w) PROVE Books'
  <2>1. /\ UNCHANGED <<usage, billed, ledger, job, call, observed>>
        /\ pc[w] = "cleared" /\ pc'[w] = "calling" /\ todo'[w] \subseteq Items
        /\ \A v \in Workers : v # w => pc'[v] = pc[v] /\ todo'[v] = todo[v]
    BY <1>8 DEF Start, Goto, TypeOK
  <2>2. Blank(job[w]) /\ call[w] = NoItem
    BY <1>0, <2>1 DEF Books, UnstartedIsBlank
  <2>3. UnstartedIsBlank' /\ UsageIsBill' /\ ObservedIsSpent' /\ SettledIsSpent'
    BY <2>1 DEF Books, UnstartedIsBlank, Blank, UsageIsBill, ObservedIsSpent, SettledIsSpent
  <2>4. CallsAhead'
    BY <2>1, <2>2 DEF Books, CallsAhead, Blank
  <2> QED
    BY <2>3, <2>4 DEF Books
<1>9. ASSUME NEW w \in Workers, NEW i \in Items, Call(w, i) PROVE Books'
  <2>1. /\ UNCHANGED <<usage, ledger, pc, job, observed>>
        /\ pc[w] = "calling" /\ job[w] \in Runs /\ i \in todo[w] /\ todo'[w] = todo[w] \ {i}
        /\ \A v \in Workers : v # w => todo'[v] = todo[v]
    BY <1>9 DEF Call, TypeOK
  <2>2. /\ call'[w] \in {call[w], i} /\ \A v \in Workers : v # w => call'[v] = call[v]
        /\ call[w] = NoItem
    <3>1. call' = call \/ call' = [call EXCEPT ![w] = i]
      BY <1>9 DEF Call
    <3> QED
      BY <1>9, <3>1 DEF Call, TypeOK
  <2>3. \A q \in Runs, j \in Items : q # job[w] \/ j # i => billed'[q][j] = billed[q][j]
    <3>1. billed' = billed \/ \E cost \in Nat : billed' = [billed EXCEPT ![job[w]][i] = @ + cost]
      BY <1>9 DEF Call
    <3>2. ASSUME NEW cost \in Nat, billed' = [billed EXCEPT ![job[w]][i] = @ + cost]
          PROVE  \A q \in Runs, j \in Items : q # job[w] \/ j # i => billed'[q][j] = billed[q][j]
      <4>1. /\ billed'[job[w]] = [billed[job[w]] EXCEPT ![i] = @ + cost]
            /\ \A q \in Runs : q # job[w] => billed'[q] = billed[q]
        BY <2>1, <3>2 DEF TypeOK
      <4>2. \A j \in Items : j # i => billed'[job[w]][j] = billed[job[w]][j]
        BY <2>1, <4>1 DEF TypeOK
      <4> QED
        BY <4>1, <4>2
    <3> QED
      BY <3>1, <3>2
  <2>4. \A q \in Runs : q # job[w] => billed'[q] = billed[q]
    <3>1. billed' = billed \/ \E cost \in Nat : billed' = [billed EXCEPT ![job[w]][i] = @ + cost]
      BY <1>9 DEF Call
    <3> QED
      BY <2>1, <3>1 DEF TypeOK
  <2>5. ledger[job[w]].status = "reserved" /\ usage[job[w]][i] = NoUsage
    BY <1>0, <2>1 DEF Past, Books, CallsAhead
  <2>6. \A v \in Workers : Past(v) /\ v # w => job[v] # job[w] /\ job[v] \in Runs
    BY <1>0, <2>1 DEF Past
  <2>7. UnstartedIsBlank'
    BY <2>1, <2>4, <2>5, <2>6 DEF Books, UnstartedIsBlank, Blank, Past
  <2>8. UsageIsBill'
    BY <2>1, <2>3, <2>5 DEF Books, UsageIsBill
  <2>9. CallsAhead'
    BY <2>1, <2>2, <2>5 DEF Books, CallsAhead
  <2>10. ObservedIsSpent'
    BY <2>1, <2>4, <2>6 DEF Books, ObservedIsSpent, Past
  <2>11. SettledIsSpent'
    BY <2>1, <2>4, <2>5 DEF Books, SettledIsSpent
  <2> QED
    BY <2>7, <2>8, <2>9, <2>10, <2>11 DEF Books
<1>10. ASSUME NEW w \in Workers, Answer(w) \/ AnswerWithoutUsage(w) \/ CallFails(w) PROVE Books'
  <2>1. PICK cost \in {NoUsage, billed[job[w]][call[w]]} :
          /\ usage' = [usage EXCEPT ![job[w]][call[w]] = cost]
          /\ call' = [call EXCEPT ![w] = NoItem]
          /\ pc[w] = "calling" /\ call[w] # NoItem
          /\ UNCHANGED <<billed, ledger, pc, job, todo, observed>>
    BY <1>10 DEF Answer, AnswerWithoutUsage, CallFails, Outcome
  <2>2. /\ job[w] \in Runs /\ call[w] \in Items /\ call[w] \notin todo[w]
        /\ call'[w] = NoItem /\ \A v \in Workers : v # w => call'[v] = call[v]
        /\ todo[w] \subseteq Items /\ \A v \in Workers : call[v] # NoItem => call[v] \in Items
    BY <2>1 DEF TypeOK, Books, CallsAhead
  <2>3. /\ usage'[job[w]][call[w]] = cost
        /\ \A q \in Runs, j \in Items : q # job[w] \/ j # call[w] => usage'[q][j] = usage[q][j]
    BY <2>1, <2>2 DEF TypeOK
  <2>4. \A v \in Workers : Past(v) /\ v # w => job[v] # job[w] /\ job[v] \in Runs /\ todo[v] \subseteq Items
    BY <1>0, <2>1 DEF Past, TypeOK
  <2>5. ledger[job[w]].status = "reserved"
    BY <1>0, <2>1 DEF Past
  <2>6. UnstartedIsBlank'
    BY <2>1, <2>3, <2>4, <2>5 DEF Books, UnstartedIsBlank, Blank, Past
  <2>7. UsageIsBill'
    BY <2>1, <2>3 DEF Books, UsageIsBill
  <2>8. CallsAhead'
    <3>1. ASSUME NEW v \in Workers, pc[v] = "calling", NEW j \in todo[v]
          PROVE  usage'[job[v]][j] = NoUsage
      <4>1. usage[job[v]][j] = NoUsage /\ job[v] \in Runs /\ j \in Items
        BY <3>1, <1>0 DEF Books, CallsAhead, Past, TypeOK
      <4>2. job[v] # job[w] \/ j # call[w]
        BY <2>2, <2>4, <3>1 DEF Past
      <4> QED
        BY <2>3, <4>1, <4>2
    <3>2. ASSUME NEW v \in Workers, pc[v] = "calling", call'[v] # NoItem
          PROVE  call'[v] \notin todo[v] /\ usage'[job[v]][call'[v]] = NoUsage
      <4>1. v # w /\ call'[v] = call[v]
        BY <2>2, <3>2
      <4>2. call[v] \notin todo[v] /\ usage[job[v]][call[v]] = NoUsage
        BY <3>2, <4>1 DEF Books, CallsAhead
      <4> QED
        BY <2>2, <2>3, <2>4, <3>2, <4>1, <4>2 DEF Past
    <3>3. \A v \in Workers : pc[v] # "calling" => call'[v] = NoItem
      BY <1>0, <2>2
    <3> QED
      BY <2>1, <3>1, <3>2, <3>3 DEF CallsAhead
  <2>9. ObservedIsSpent' /\ SettledIsSpent'
    BY <2>1 DEF Books, ObservedIsSpent, SettledIsSpent
  <2> QED
    BY <2>6, <2>7, <2>8, <2>9 DEF Books
<1>11. ASSUME NEW w \in Workers, Conclude(w) PROVE Books'
  <2>1. /\ UNCHANGED <<usage, billed, ledger, job, todo, call>>
        /\ pc[w] = "calling" /\ call[w] = NoItem /\ job[w] \in Runs
        /\ pc'[w] = "concluded" /\ \A v \in Workers : v # w => pc'[v] = pc[v] /\ observed'[v] = observed[v]
        /\ observed'[w] = ObservedCost(job[w])
    BY <1>11 DEF Conclude, Goto, TypeOK
  <2>2. ObservedCost(job[w]) # NoUsage => ObservedCost(job[w]) = Total(billed[job[w]], Items)
    <3> SUFFICES ASSUME ObservedCost(job[w]) # NoUsage
                 PROVE  Total(usage[job[w]], Items) = Total(billed[job[w]], Items)
      BY <2>1, ObservedType
    <3>1. \A i \in Items : usage[job[w]][i] \in Nat /\ billed[job[w]][i] = usage[job[w]][i]
      BY <2>1, ObservedType DEF Books, UsageIsBill
    <3> QED
      BY <3>1, TotalSame
  <2>3. UnstartedIsBlank' /\ UsageIsBill' /\ CallsAhead' /\ SettledIsSpent'
    BY <1>0, <2>1 DEF Books, UnstartedIsBlank, Blank, UsageIsBill, CallsAhead, SettledIsSpent
  <2>4. ObservedIsSpent'
    BY <2>1, <2>2 DEF Books, ObservedIsSpent
  <2> QED
    BY <2>3, <2>4 DEF Books
<1>12. ASSUME NEW w \in Workers, Reconcile(w) PROVE Books'
  <2>1. Leave(w) /\ UNCHANGED <<usage, billed>> /\ pc[w] = "concluded" /\ job[w] \in Runs
    BY <1>12 DEF Reconcile, TypeOK
  <2>2. \/ /\ observed[w] = NoUsage
           /\ ledger'[job[w]].status = "retained_conservative" /\ ledger'[job[w]].charged = Reserve[job[w]]
        \/ /\ observed[w] # NoUsage
           /\ ledger'[job[w]].status \in {"reconciled", "overrun"} /\ ledger'[job[w]].charged = observed[w]
    BY <1>12, <2>1 DEF Reconcile, Settled, TypeOK
  <2>3. \A q \in Runs : q # job[w] => ledger'[q] = ledger[q]
    BY <1>12, StepReconcile
  <2>4. /\ pc'[w] = "idle" /\ call'[w] = NoItem
        /\ \A v \in Workers : v # w => pc'[v] = pc[v] /\ job'[v] = job[v] /\ todo'[v] = todo[v]
                                   /\ call'[v] = call[v] /\ observed'[v] = observed[v]
    BY <2>1 DEF Leave, Goto, TypeOK
  <2>5. UnstartedIsBlank' /\ UsageIsBill'
    BY <2>1, <2>2, <2>3, <2>4 DEF Books, UnstartedIsBlank, Blank, UsageIsBill
  <2>6. CallsAhead' /\ ObservedIsSpent'
    BY <2>1, <2>4 DEF Books, CallsAhead, ObservedIsSpent
  <2>7. SettledIsSpent'
    BY <2>1, <2>2, <2>3 DEF Books, SettledIsSpent, ObservedIsSpent
  <2> QED
    BY <2>5, <2>6, <2>7 DEF Books
<1>13. Calm => Books'
  BY BooksFrame
<1> QED
  BY <1>1, <1>2, <1>4, <1>5, <1>6, <1>7, <1>8, <1>9, <1>10, <1>11, <1>12, <1>13 DEF Next

-----------------------------------------------------------------------------
(* The daily ceiling *)

Recent == {r \in Runs : ledger[r].status # "none" /\ now <= ledger[r].at + Window}

NoOverrun == \A r \in Runs : ledger[r].status # "overrun"

LedgerIsPast == \A r \in Runs : ledger[r].at <= now

\* The receipt consumed last had room for all that its transaction saw.
CapKept ==
  NoOverrun /\ Recent # {} =>
    \E last \in Recent : /\ \A r \in Recent : ledger[r].at <= ledger[last].at
                         /\ Total(CommittedOf, Recent) <= DailyCap[receiptOf[last]]

LEMMA CommittedType ==
  ASSUME TypeOK
  PROVE  \A r \in Runs : CommittedOf[r] \in Nat /\ ledger[r].at \in Nat /\ now \in Nat
  BY RunsAssumption, NumbersAssumption DEF TypeOK, CommittedOf, Committed, LedgerRows

LEMMA CommittedTypeNext ==
  ASSUME TypeOK'
  PROVE  \A r \in Runs : CommittedOf'[r] \in Nat /\ ledger'[r].at \in Nat /\ now' \in Nat
  BY RunsAssumption, NumbersAssumption DEF TypeOK, CommittedOf, Committed, LedgerRows

\* As time passes and rows are settled, less counts.
LEMMA CapFrame ==
  ASSUME TypeOK, TypeOK', CapKept, LedgerIsPast, UNCHANGED receiptOf, now <= now',
         \A r \in Runs : /\ ledger'[r].at = ledger[r].at
                         /\ ledger'[r].status = "none" <=> ledger[r].status = "none",
         NoOverrun' => NoOverrun /\ \A r \in Runs : CommittedOf'[r] <= CommittedOf[r]
  PROVE  CapKept' /\ LedgerIsPast'
<1> USE NumbersAssumption
<1>0. /\ \A r \in Runs : CommittedOf[r] \in Nat /\ ledger[r].at \in Nat /\ now \in Nat
      /\ \A r \in Runs : CommittedOf'[r] \in Nat /\ ledger'[r].at \in Nat /\ now' \in Nat
  BY CommittedType, CommittedTypeNext
<1>1. LedgerIsPast'
  BY <1>0 DEF LedgerIsPast
<1>2. CapKept'
  <2> SUFFICES ASSUME NoOverrun', Recent' # {}
               PROVE  \E last \in Recent' :
                        /\ \A r \in Recent' : ledger'[r].at <= ledger'[last].at
                        /\ Total(CommittedOf', Recent') <= DailyCap[receiptOf'[last]]
    BY DEF CapKept
  <2>1. Recent' \in SUBSET Recent
    BY <1>0 DEF Recent
  <2>2. PICK last \in Recent : /\ \A r \in Recent : ledger[r].at <= ledger[last].at
                               /\ Total(CommittedOf, Recent) <= DailyCap[receiptOf[last]]
    BY <2>1 DEF CapKept
  <2>3. last \in Recent'
    <3>1. PICK r \in Recent' : TRUE
      OBVIOUS
    <3>2. r \in Runs /\ now' <= ledger[r].at + Window /\ ledger[r].at <= ledger[last].at
      BY <2>1, <2>2 DEF Recent
    <3>3. last \in Runs /\ ledger'[last].status # "none"
      BY <2>2 DEF Recent
    <3>4. now' <= ledger'[last].at + Window
      BY <1>0, <3>2, <3>3
    <3> QED
      BY <3>3, <3>4 DEF Recent
  <2>4. IsFiniteSet(Recent) /\ IsFiniteSet(Recent') /\ Recent \subseteq Runs
    BY <2>1, RunsAssumption, FS_Subset DEF Recent
  <2>5. Total(CommittedOf', Recent') <= Total(CommittedOf, Recent')
    <3> DEFINE f == CommittedOf'
               S == Recent'
    <3>1. IsFiniteSet(S) /\ \A x \in S : f[x] \in Nat /\ CommittedOf[x] \in Nat /\ f[x] <= CommittedOf[x]
      BY <1>0, <2>1, <2>4
    <3> HIDE DEF f, S
    <3>2. Total(f, S) <= Total(CommittedOf, S)
      BY <3>1, TotalMonotone
    <3> QED
      BY <3>2 DEF f, S
  <2>6. Total(CommittedOf, Recent') <= Total(CommittedOf, Recent)
    <3> DEFINE S == Recent'
    <3>1. S \in SUBSET Recent /\ \A x \in Recent : CommittedOf[x] \in Nat
      BY <1>0, <2>1, <2>4
    <3> HIDE DEF S
    <3>2. Total(CommittedOf, S) <= Total(CommittedOf, Recent)
      BY <2>4, <3>1, TotalSubset
    <3> QED
      BY <3>2 DEF S
  <2>7. Total(CommittedOf', Recent') <= DailyCap[receiptOf'[last]]
    <3> DEFINE f == CommittedOf'
               S == Recent'
    <3>1. \A x \in Recent : CommittedOf[x] \in Nat
      BY <1>0, <2>4
    <3>2. \A x \in S : CommittedOf[x] \in Nat /\ f[x] \in Nat
      BY <1>0, <2>1, <2>4
    <3>3. S \in SUBSET Recent /\ IsFiniteSet(S)
      BY <2>1, <2>4
    <3>4. Total(f, S) <= Total(CommittedOf, S) /\ Total(CommittedOf, S) <= Total(CommittedOf, Recent)
      BY <2>5, <2>6
    <3> HIDE DEF f, S
    <3>5. Total(f, S) \in Nat /\ Total(CommittedOf, S) \in Nat /\ Total(CommittedOf, Recent) \in Nat
      BY <2>4, <3>1, <3>2, <3>3, TotalType
    <3>6. DailyCap[receiptOf[last]] \in Nat /\ receiptOf' = receiptOf
      BY <2>2, <2>4, ReceiptsAssumption DEF TypeOK
    <3>7. Total(f, S) <= DailyCap[receiptOf[last]]
      BY <2>2, <3>4, <3>5, <3>6
    <3> QED
      BY <3>6, <3>7 DEF f, S
  <2>8. \A r \in Recent' : ledger'[r].at <= ledger'[last].at
    BY <2>1, <2>2, <2>3, <2>4
  <2> QED
    BY <2>3, <2>7, <2>8
<1> QED
  BY <1>1, <1>2

\* The transaction counts what is in the window before it adds a row to it.
LEMMA CapConsume ==
  ASSUME TypeOK, TypeOK', GateInv, LedgerIsPast, NEW w \in Workers, Authorise(w), Consume(w)
  PROVE  CapKept' /\ LedgerIsPast'
<1> USE NumbersAssumption
<1> DEFINE r == job[w]
           c == receiptOf[r]
<1>0. /\ \A q \in Runs : CommittedOf[q] \in Nat /\ ledger[q].at \in Nat /\ now \in Nat
      /\ \A q \in Runs : CommittedOf'[q] \in Nat /\ ledger'[q].at \in Nat /\ now' \in Nat
  BY CommittedType, CommittedTypeNext
<1>1. r \in Runs /\ c \in Receipts /\ UNCHANGED <<now, receiptOf>>
  BY DEF Authorise, TypeOK, manifest
<1>2. consumedBy[c] = NoRun /\ ~(WindowTotal + Reserve[r] > DailyCap[c])
  BY DEF Authorise, Consume, Goto, TypeOK, Places
<1>3. ledger[r].status = "none"
  BY <1>1, <1>2, RunsAssumption DEF GateInv, ReceiptsMatchLedger
<1>4. /\ ledger'[r] = [status |-> "reserved", charged |-> Reserve[r], at |-> now]
      /\ \A q \in Runs : q # r => ledger'[q] = ledger[q]
  BY <1>1 DEF Consume, TypeOK
<1>5. Recent = WindowRuns /\ r \notin Recent /\ Recent \in SUBSET Runs
  BY <1>0, <1>3 DEF Recent, WindowRuns, InWindow
<1>6. Recent' = Recent \cup {r}
  BY <1>0, <1>1, <1>4, <1>5 DEF Recent
<1>7. CommittedOf'[r] = Reserve[r] /\ \A q \in Runs : q # r => CommittedOf'[q] = CommittedOf[q]
  BY <1>1, <1>4 DEF CommittedOf, Committed
<1>8. Total(CommittedOf', Recent') = Reserve[r] + Total(CommittedOf, Recent)
  <2> DEFINE f == CommittedOf'
             S == Recent \cup {r}
  <2>1. IsFiniteSet(S) /\ IsFiniteSet(Recent) /\ S \in SUBSET Runs /\ S \ {r} = Recent
    BY <1>1, <1>5, RunsAssumption, FS_Subset
  <2>2. \A x \in Runs : f[x] \in Nat
    BY <1>0
  <2>3. \A x \in Recent : CommittedOf[x] \in Nat /\ f[x] = CommittedOf[x]
    BY <1>0, <1>5, <1>7
  <2>4. r \in S /\ f[r] = Reserve[r]
    BY <1>7
  <2> HIDE DEF f, S, r
  <2>5. Total(f, S) = f[r] + Total(f, S \ {r})
    BY <2>1, <2>2, <2>4, TotalRemoves
  <2>6. Total(CommittedOf, Recent) = Total(f, Recent)
    BY <2>1, <2>3, TotalSame
  <2> QED
    BY <1>6, <2>1, <2>4, <2>5, <2>6 DEF f, S
<1>9. WindowTotal = Total(CommittedOf, Recent)
  BY <1>5, CommittedIsSum DEF WindowTotal
<1>10. Total(CommittedOf, Recent) \in Nat /\ Reserve[r] \in Nat /\ DailyCap[c] \in Nat
  <2>1. IsFiniteSet(Recent) /\ \A x \in Recent : CommittedOf[x] \in Nat
    BY <1>0, <1>5, RunsAssumption, FS_Subset
  <2> QED
    BY <1>1, <2>1, TotalType, RunsAssumption, ReceiptsAssumption
<1>11. Total(CommittedOf', Recent') <= DailyCap[receiptOf'[r]]
  BY <1>1, <1>2, <1>8, <1>9, <1>10
<1>12. \A q \in Recent' : ledger'[q].at <= ledger'[r].at
  <2>1. ledger'[r].at = now
    BY <1>4
  <2>2. ASSUME NEW q \in Recent' PROVE ledger'[q].at <= now
    <3>1. q \in Runs /\ ledger[q].at <= now
      BY <1>1, <1>5, <1>6 DEF LedgerIsPast
    <3>2. q # r => ledger'[q].at = ledger[q].at
      BY <1>4, <3>1
    <3>3. now <= now
      BY <1>0, <1>1
    <3> QED
      BY <2>1, <3>1, <3>2, <3>3
  <2> QED
    BY <2>1, <2>2
<1>13. r \in Recent'
  BY <1>6
<1>14. LedgerIsPast'
  BY <1>0, <1>1, <1>4 DEF LedgerIsPast
<1> QED
  BY <1>11, <1>12, <1>13, <1>14 DEF CapKept

LEMMA StepCap ==
  ASSUME TypeOK, GateInv, CapKept, LedgerIsPast, [Next]_vars
  PROVE  CapKept' /\ LedgerIsPast'
<1> USE RunsAssumption, NumbersAssumption
<1> DEFINE Shrinks == /\ UNCHANGED receiptOf /\ now <= now'
                      /\ \A r \in Runs : /\ ledger'[r].at = ledger[r].at
                                         /\ ledger'[r].status = "none" <=> ledger[r].status = "none"
                      /\ NoOverrun' => NoOverrun /\ \A r \in Runs : CommittedOf'[r] <= CommittedOf[r]
<1>0. TypeOK' /\ GateInv'
  BY StepTypeOK, StepGateInv
<1>1. \A r \in Runs : CommittedOf[r] \in Nat /\ now \in Nat
  BY CommittedType
<1>2. receiptOf' = receiptOf /\ now <= now'
  <2>1. now \in Nat
    BY DEF TypeOK
  <2>2. now' \in {now, now + 1} /\ receiptOf' = receiptOf
    BY ZenonT(60) DEF Next, vars, manifest, storeVars, Submit, Cancel, Plan, Authorise, Refuse, Exhaust, Redact, Start,
       Call, Answer, AnswerWithoutUsage, CallFails, Outcome, Conclude, Reconcile, Crash, GateFault, Tick
  <2> QED
    BY <2>1, <2>2
<1>3. ASSUME ledger' = ledger PROVE Shrinks
  <2>1. CommittedOf' = CommittedOf
    BY <1>3 DEF CommittedOf, Committed
  <2> QED
    BY <1>1, <1>2, <1>3, <2>1 DEF NoOverrun
<1>4. ASSUME NEW w \in Workers, Reconcile(w) PROVE Shrinks
  <2> DEFINE r == job[w]
  <2>1. /\ r \in Runs /\ ledger[r].status = "reserved" /\ ledger'[r].at = ledger[r].at
        /\ \A q \in Runs : q # r => ledger'[q] = ledger[q]
        /\ observed[w] \in Nat \cup {NoUsage} /\ Reserve[r] \in Nat
    BY <1>4, StepReconcile DEF Reconcile, TypeOK
  <2>2. \/ observed[w] = NoUsage /\ ledger'[r].status = "retained_conservative" /\ ledger'[r].charged = Reserve[r]
        \/ /\ observed[w] # NoUsage /\ ledger'[r].charged = observed[w]
           /\ ledger'[r].status = IF observed[w] > Reserve[r] THEN "overrun" ELSE "reconciled"
    BY <1>4, <2>1 DEF Reconcile, Settled, TypeOK
  <2>3. \A q \in Runs : q # r => CommittedOf'[q] = CommittedOf[q]
    BY <2>1 DEF CommittedOf, Committed
  <2>4. CommittedOf[r] = Reserve[r] /\ (ledger'[r].status # "reserved" => CommittedOf'[r] = ledger'[r].charged)
    BY <2>1 DEF CommittedOf, Committed
  <2>5. NoOverrun' => NoOverrun
    BY <2>1 DEF NoOverrun
  <2>6. NoOverrun' => CommittedOf'[r] <= CommittedOf[r]
    <3> SUFFICES ASSUME NoOverrun' PROVE CommittedOf'[r] <= Reserve[r]
      BY <2>4
    <3>1. ledger'[r].status # "overrun"
      BY <2>1 DEF NoOverrun
    <3> QED
      BY <2>1, <2>2, <2>4, <3>1
  <2>7. NoOverrun' => \A q \in Runs : CommittedOf'[q] <= CommittedOf[q]
    <3> SUFFICES ASSUME NoOverrun', NEW q \in Runs, q # r PROVE CommittedOf'[q] <= CommittedOf[q]
      BY <2>6
    <3>1. CommittedOf[q] \in Nat /\ CommittedOf'[q] = CommittedOf[q]
      BY <1>1, <2>3
    <3> QED
      BY <3>1
  <2>8. \A q \in Runs : ledger'[q].at = ledger[q].at /\ (ledger'[q].status = "none" <=> ledger[q].status = "none")
    BY <2>1, <2>2
  <2> QED
    BY <1>2, <2>5, <2>7, <2>8
<1>5. Shrinks => CapKept' /\ LedgerIsPast'
  BY <1>0, CapFrame
<1>6. CASE Quiet
  BY <1>3, <1>5, <1>6, StepQuiet
<1>7. ASSUME NEW w \in Workers, Authorise(w) PROVE CapKept' /\ LedgerIsPast'
  <2>1. CASE Consume(w)
    BY <1>0, <1>7, <2>1, CapConsume
  <2>2. CASE ~Consume(w)
    BY <1>3, <1>5, <1>7, <2>2 DEF Authorise
  <2> QED
    BY <2>1, <2>2
<1>8. ASSUME NEW w \in Workers, NEW i \in Items, Call(w, i) PROVE CapKept' /\ LedgerIsPast'
  BY <1>3, <1>5, <1>8 DEF Call
<1> QED
  BY <1>4, <1>5, <1>6, <1>7, <1>8, NextSplits

-----------------------------------------------------------------------------
(* Theorems on the budget *)

\* Every variable keeps its type: amounts stay natural numbers through every sum the code
\* forms of them (runner.ts 284-300, store.ts 391-434).
THEOREM TypeCorrect == Spec => []TypeOK
  BY InitTypeOK, StepTypeOK, PTL DEF Spec

BudgetInv == TypeOK /\ GateInv /\ Books /\ CapKept /\ LedgerIsPast

LEMMA InitBudgetInv == Init => BudgetInv
<1> SUFFICES ASSUME Init PROVE BudgetInv
  OBVIOUS
<1>1. CapKept
  <2>1. Recent = {}
    BY DEF Init, Recent, NoRow
  <2> QED
    BY <2>1 DEF CapKept
<1>2. LedgerIsPast
  BY DEF Init, LedgerIsPast, NoRow
<1> QED
  BY <1>1, <1>2, InitTypeOK, InitGateInv, InitBooks DEF BudgetInv

LEMMA StepBudgetInv == BudgetInv /\ [Next]_vars => BudgetInv'
  BY StepTypeOK, StepGateInv, StepBooks, StepCap DEF BudgetInv

\* What the ledger counts for a run covers what the run was billed, whatever crashed, was
\* cancelled or came back without usage, unless it was billed more than its estimate; and while
\* none was, the rows of the last 24 hours stay within the ceiling of the receipt consumed last,
\* for any number of runs, receipts and processes (runner.ts 264-300, store.ts 318-434).
THEOREM CeilingAlwaysHolds == Spec => []CeilingHolds
<1>1. BudgetInv => LedgerCoversSpend
  <2> SUFFICES ASSUME BudgetInv, NEW r \in Runs, Spent(r) <= Reserve[r] PROVE Spent(r) <= Committed(r)
    BY DEF LedgerCoversSpend
  <2>1. Spent(r) = Total(billed[r], Items)
    BY TotalIsSum DEF Spent
  <2>2. \A i \in Items : billed[r][i] \in Nat
    BY DEF BudgetInv, TypeOK
  <2>3. Spent(r) \in Nat
    BY <2>1, <2>2, ItemsAssumption, TotalType
  <2>4. ledger[r].status \in LedgerStatuses /\ ledger[r].charged \in Nat
    BY DEF BudgetInv, TypeOK, LedgerRows
  <2>5. CASE ledger[r].status = "none"
    <3>1. \A i \in Items : billed[r][i] = 0
      BY <2>5 DEF BudgetInv, Books, UnstartedIsBlank, Blank
    <3>2. Total(billed[r], Items) = 0
      BY <3>1, ItemsAssumption, TotalOfZeros
    <3> QED
      BY <2>1, <2>4, <2>5, <3>2 DEF Committed
  <2>6. CASE ledger[r].status = "reserved"
    BY <2>6 DEF Committed
  <2>7. CASE ledger[r].status \in {"reconciled", "overrun"}
    <3>1. Committed(r) = Spent(r)
      BY <2>1, <2>7 DEF Committed, BudgetInv, Books, SettledIsSpent
    <3> QED
      BY <2>3, <3>1
  <2>8. CASE ledger[r].status = "retained_conservative"
    BY <2>8 DEF Committed, BudgetInv, Books, SettledIsSpent
  <2> QED
    BY <2>4, <2>5, <2>6, <2>7, <2>8 DEF LedgerStatuses
<1>2. BudgetInv => DailyCapRespected
  <2> SUFFICES ASSUME BudgetInv, NoOverrun, Recent # {}
               PROVE  \E last \in Recent :
                        /\ \A r \in Recent : ledger[r].at <= ledger[last].at
                        /\ MapThenSumSet(Committed, Recent) <= DailyCap[receiptOf[last]]
    BY DEF DailyCapRespected, NoOverrun, Recent
  <2>1. MapThenSumSet(Committed, Recent) = Total(CommittedOf, Recent)
    <3>1. Recent \in SUBSET Runs
      BY DEF Recent
    <3> QED
      BY <3>1, CommittedIsSum
  <2> QED
    BY <2>1 DEF BudgetInv, CapKept
<1>3. BudgetInv => CeilingHolds
  BY <1>1, <1>2 DEF CeilingHolds
<1> QED
  BY <1>3, InitBudgetInv, StepBudgetInv, PTL DEF Spec

=============================================================================
