--------------------------- MODULE BatchRun_proofs ---------------------------
(* Theorems about BatchRun, for every set of items, processes and bounds. *)
EXTENDS BatchRun, FiniteSetTheorems, TLAPS

\* Counting one attempt of an item leaves the counters natural numbers.
LEMMA CountOne ==
  ASSUME NEW S, NEW f \in [S -> Nat], NEW i \in S
  PROVE  [f EXCEPT ![i] = @ + 1] \in [S -> Nat]
  OBVIOUS

LEMMA NoItemAssumption == NoItem \notin Items
  BY ItemsAssumption

LEMMA InitTypeOK == Init => TypeOK
<1> SUFFICES ASSUME Init PROVE TypeOK
  OBVIOUS
<1>1. cancelling \in {"never", "half", "over", "lost"}
  BY DEF Init
<1>2. crashes \in 0 .. MaxCrashes /\ faults \in 0 .. MaxFaults /\ lateStarts \in Nat
  BY BoundsAssumption DEF Init
<1> QED
  BY <1>1, <1>2 DEF Init, TypeOK, NoRows, RunStatuses, ItemStatuses, ItemEvents, Steps, Places

\* The status that setRunStatus may already have committed when it throws.
Recorded(w, status) ==
  \/ pc[w] = "begun" /\ status = "running"
  \/ pc[w] = "listed" /\ status = FinalStatus(seen[w])

LEMMA RunFaultEffect ==
  ASSUME TypeOK, NEW w \in Workers, RunFault(w)
  PROVE  /\ faults' = faults + 1 /\ faults' \in 0 .. MaxFaults /\ crashes' = crashes
         /\ \E status \in RunStatuses : Leave(w, status) /\ (status = runStatus \/ Recorded(w, status))
<1>1. faults' = faults + 1 /\ faults' \in 0 .. MaxFaults /\ crashes' = crashes
  BY BoundsAssumption DEF RunFault, TypeOK
<1>2. {runStatus, "running", FinalStatus(seen[w])} \subseteq RunStatuses
  BY DEF TypeOK, RunStatuses, FinalStatus
<1>3. \E status \in {runStatus, "running", FinalStatus(seen[w])} :
        Leave(w, status) /\ (status = runStatus \/ Recorded(w, status))
  BY Zenon DEF RunFault, Recorded
<1> QED
  BY <1>1, <1>2, <1>3

LEMMA StepTypeOK == TypeOK /\ [Next]_vars => TypeOK'
<1> SUFFICES ASSUME TypeOK, [Next]_vars PROVE TypeOK'
  OBVIOUS
<1> USE BoundsAssumption, NoItemAssumption
<1> USE DEF TypeOK, RunStatuses, ItemStatuses, ItemEvents, Steps, Places,
            storeVars, loopVars, historyVars, boundVars, Issue, EndSegment,
            SetRunStatus, SetItemStatus, RecordEvent
<1>1. CASE Submit
  BY <1>1 DEF Submit
<1>2. ASSUME NEW w \in Workers, BeginRun(w) PROVE TypeOK'
  BY <1>2 DEF BeginRun
<1>3. ASSUME NEW w \in Workers, WorkerStep(w) PROVE TypeOK'
  <2>1. CASE MarkRunRunning(w)
    BY <2>1 DEF MarkRunRunning
  <2>2. CASE SnapshotQueue(w)
    BY <2>2 DEF SnapshotQueue, Queued
  <2>3. CASE CheckRun(w)
    <3>1. PICK i \in todo[w] :
            /\ todo' = [todo EXCEPT ![w] = @ \ {i}]
            /\ IF runStatus = "cancelled"
               THEN /\ spent' = [spent EXCEPT ![w] = IF @ = {} THEN {} ELSE @ \cup {i}]
                    /\ UNCHANGED <<at, cur>>
               ELSE Issue(w, "mark", i) /\ UNCHANGED spent
      BY <2>3, Zenon DEF CheckRun
    <3>2. i \in Items /\ todo' \in [Workers -> SUBSET Items]
      BY <3>1
    <3>3. UNCHANGED <<storeVars, pc, active, seen, summary, cancelling, historyVars, boundVars>>
      BY <2>3 DEF CheckRun
    <3>4. CASE runStatus = "cancelled"
      <4>1. (IF spent[w] = {} THEN {} ELSE spent[w] \cup {i}) \in SUBSET Items
        BY <3>2
      <4>2. spent' \in [Workers -> SUBSET Items]
        BY SMTT(40), <3>1, <3>4, <4>1
      <4> QED
        BY <3>1, <3>2, <3>4, <3>3, <4>2
    <3>5. CASE runStatus # "cancelled"
      <4>1. at' = [at EXCEPT ![w] = "mark"] /\ cur' = [cur EXCEPT ![w] = i] /\ UNCHANGED spent
        BY <3>1, <3>5
      <4> QED
        BY <3>2, <3>3, <4>1
    <3> QED
      BY <3>4, <3>5
  <2>4. CASE MarkItemRunning(w)
    <3>1. cur[w] \in Items /\ lateStarts' \in Nat
      BY <2>4 DEF MarkItemRunning
    <3>2. attempts' \in [Items -> Nat]
      BY <2>4, <3>1, CountOne DEF MarkItemRunning
    <3>3. itemStatus' \in [Items -> ItemStatuses]
      BY <2>4, <3>1 DEF MarkItemRunning
    <3>4. /\ at' \in [Workers -> Steps] /\ cur' \in [Workers -> Items \cup {NoItem}]
          /\ \A v \in Workers : cur'[v] = NoItem <=> at'[v] = "none"
      BY <2>4, <3>1 DEF MarkItemRunning
    <3> QED
      BY <2>4, <3>1, <3>2, <3>3, <3>4 DEF MarkItemRunning
  <2>5. CASE CallTransport(w)
    BY <2>5 DEF CallTransport
  <2>6. CASE AwaitSlot(w)
    BY <2>6 DEF AwaitSlot
  <2>7. CASE AwaitAll(w)
    BY <2>7 DEF AwaitAll
  <2>8. ASSUME NEW i \in Items, CompleteItem(w, i) PROVE TypeOK'
    BY <2>8 DEF CompleteItem
  <2>9. ASSUME NEW i \in Items, CatchFailure(w, i) PROVE TypeOK'
    BY <2>9 DEF CatchFailure
  <2>10. CASE FailItem(w)
    BY <2>10 DEF FailItem
  <2>11. CASE FinishItem(w)
    BY <2>11 DEF FinishItem, Settle
  <2>12. CASE ListItems(w)
    BY <2>12 DEF ListItems
  <2>13. CASE SetFinalStatus(w)
    BY <2>13 DEF SetFinalStatus, FinalStatus
  <2>14. CASE ReadResults(w)
    BY <2>14 DEF ReadResults
  <2>15. CASE WriteSummary(w)
    BY <2>15 DEF WriteSummary
  <2>17. CASE WriteResults(w)
    BY <2>17 DEF WriteResults
  <2>16. CASE AbortRun(w)
    BY <2>16 DEF AbortRun, Forget
  <2> QED
    BY <1>3, <2>1, <2>2, <2>3, <2>4, <2>5, <2>6, <2>7, <2>8, <2>9, <2>10, <2>11,
       <2>12, <2>13, <2>14, <2>15, <2>16, <2>17 DEF WorkerStep
<1>4. ASSUME NEW w \in Workers, WorkerFault(w) PROVE TypeOK'
  <2>1. CASE Crash(w)
    BY <2>1 DEF Crash, Leave, Forget
  <2>2. CASE CompletionFault(w)
    BY <2>2 DEF CompletionFault
  <2>3. CASE StartFault(w)
    BY <2>3 DEF StartFault
  <2>4. CASE FailureFault(w)
    <3>1. faults' \in 0 .. MaxFaults
      BY <2>4 DEF FailureFault
    <3>2. CASE Forget(w)
      BY <2>4, <3>1, <3>2 DEF FailureFault, Forget
    <3>3. CASE Settle(w) /\ UNCHANGED <<todo, spent>>
      BY <2>4, <3>1, <3>3 DEF FailureFault, Settle
    <3> QED
      BY <2>4, <3>2, <3>3 DEF FailureFault
  <2>5. CASE RunFault(w)
    <3>1. PICK status \in RunStatuses : Leave(w, status)
                                        /\ (status = runStatus \/ Recorded(w, status))
      BY <2>5, RunFaultEffect
    <3>2. faults' = faults + 1 /\ faults' \in 0 .. MaxFaults /\ crashes' = crashes
      BY <2>5, RunFaultEffect
    <3> QED
      BY <2>5, <3>1, <3>2 DEF Leave, Forget, Recorded
  <2>6. CASE CheckFault(w)
    BY <2>6 DEF CheckFault
  <2> QED
    BY <1>4, <2>1, <2>2, <2>3, <2>4, <2>5, <2>6 DEF WorkerFault
<1>5. CASE CancelItems
  BY <1>5 DEF CancelItems
<1>6. CASE CancelStatus
  BY <1>6 DEF CancelStatus
<1>7. CASE CrashCanceller
  <2>1. crashes' \in 0 .. MaxCrashes
    BY <1>7 DEF CrashCanceller
  <2>2. cancelling' \in {"never", "half", "over", "lost"}
    BY <1>7 DEF CrashCanceller
  <2> QED
    BY <1>7, <2>1, <2>2 DEF CrashCanceller
<1>9. CASE CancelFault
  BY <1>9 DEF CancelFault
<1>8. CASE UNCHANGED vars
  BY <1>8 DEF vars
<1> QED
  BY <1>1, <1>2, <1>3, <1>4, <1>5, <1>6, <1>7, <1>8, <1>9 DEF Next

\* Every variable keeps its type; in particular a process that has a next
\* statement to issue always has an item to issue it for (runner.ts 844-861).
THEOREM TypeCorrect == Spec => []TypeOK
  BY InitTypeOK, StepTypeOK, PTL DEF Spec

-----------------------------------------------------------------------------
(* The inductive invariant *)

\* A process may still start item i: it has it in its snapshot, or it has passed
\* the status check and issues the UPDATE next.
Holders(i) == {w \in Workers : i \in todo[w] \/ (at[w] = "mark" /\ cur[w] = i)}

\* A process that still has to record the outcome of item i.
Answers(w, i) ==
  \/ cur[w] = i /\ at[w] \in {"note_running", "fail"}
  \/ cur[w] # i /\ i \in active[w]

OnlyInsideLoop ==
  \A w \in Workers : at[w] # "none" \/ active[w] # {} => pc[w] \in {"mapping", "racing", "settling"}

NothingBeforeSubmit ==
  runStatus = "absent" => /\ cancelling = "never"
                          /\ \A w \in Workers : pc[w] = "idle"
                          /\ \A i \in Items : itemStatus[i] = "absent"

UnstartedWhileQueued == \A i \in Items : itemStatus[i] \in {"absent", "queued"} => attempts[i] = 0

TakenOnce == \A w \in Workers : cur[w] \notin todo[w] /\ active[w] \cap todo[w] = {}

\* Every process that may start an item has not started it yet.
StartsBounded == \A i \in Items : attempts[i] + Cardinality(Holders(i)) <= Cardinality(Workers)

RejectionsAreFaults == faults = 0 => \A w \in Workers : spent[w] = {}

RunningIsAnswered ==
  Faultless => \A i \in Items : itemStatus[i] = "running" => \E w \in Workers : Answers(w, i)

-----------------------------------------------------------------------------
(* The conjuncts about single variables *)

Bookkeeping ==
  /\ OnlyInsideLoop /\ NothingBeforeSubmit /\ UnstartedWhileQueued
  /\ TakenOnce /\ RejectionsAreFaults

LEMMA StepBookkeeping == TypeOK /\ Bookkeeping /\ [Next]_vars => Bookkeeping'
<1> SUFFICES ASSUME TypeOK, Bookkeeping, [Next]_vars PROVE Bookkeeping'
  OBVIOUS
<1> USE NoItemAssumption, BoundsAssumption
<1> USE DEF TypeOK, Bookkeeping, OnlyInsideLoop, NothingBeforeSubmit, UnstartedWhileQueued,
            TakenOnce, RejectionsAreFaults, Steps, Places, storeVars, loopVars, historyVars, boundVars,
            Issue, EndSegment, SetRunStatus, SetItemStatus, RecordEvent
<1>1. CASE Submit
  BY <1>1 DEF Submit
<1>2. ASSUME NEW w \in Workers, BeginRun(w) PROVE Bookkeeping'
  BY <1>2 DEF BeginRun
<1>3. ASSUME NEW w \in Workers, WorkerStep(w) PROVE Bookkeeping'
  <2>1. CASE MarkRunRunning(w)
    BY <2>1 DEF MarkRunRunning
  <2>2. CASE SnapshotQueue(w)
    BY ZenonT(40), <2>2 DEF SnapshotQueue, Queued
  <2>3. CASE CheckRun(w)
    <3>1. OnlyInsideLoop'
      BY <2>3 DEF CheckRun
    <3>2. NothingBeforeSubmit'
      BY <2>3 DEF CheckRun
    <3>3. UnstartedWhileQueued'
      BY <2>3 DEF CheckRun
    <3>4. TakenOnce'
      BY <2>3 DEF CheckRun
    <3>5. RejectionsAreFaults'
      BY ZenonT(40), <2>3 DEF CheckRun
    <3> QED
      BY <3>1, <3>2, <3>3, <3>4, <3>5
  <2>4. CASE MarkItemRunning(w)
    <3>1. OnlyInsideLoop'
      BY <2>4 DEF MarkItemRunning
    <3>2. NothingBeforeSubmit'
      BY <2>4 DEF MarkItemRunning
    <3>3. UnstartedWhileQueued'
      BY <2>4 DEF MarkItemRunning
    <3>4. TakenOnce'
      BY <2>4 DEF MarkItemRunning
    <3>5. RejectionsAreFaults'
      BY <2>4 DEF MarkItemRunning
    <3> QED
      BY <3>1, <3>2, <3>3, <3>4, <3>5
  <2>5. CASE CallTransport(w)
    BY <2>5 DEF CallTransport
  <2>6. CASE AwaitSlot(w)
    BY <2>6 DEF AwaitSlot
  <2>7. CASE AwaitAll(w)
    BY <2>7 DEF AwaitAll
  <2>8. ASSUME NEW i \in Items, CompleteItem(w, i) PROVE Bookkeeping'
    <3>1. OnlyInsideLoop'
      BY <2>8 DEF CompleteItem, Awaiting
    <3>2. NothingBeforeSubmit'
      BY <2>8 DEF CompleteItem, Awaiting
    <3>3. UnstartedWhileQueued'
      BY <2>8 DEF CompleteItem, Awaiting
    <3>4. TakenOnce'
      BY <2>8 DEF CompleteItem, Awaiting
    <3>5. RejectionsAreFaults'
      BY <2>8 DEF CompleteItem, Awaiting
    <3> QED
      BY <3>1, <3>2, <3>3, <3>4, <3>5
  <2>9. ASSUME NEW i \in Items, CatchFailure(w, i) PROVE Bookkeeping'
    <3>1. OnlyInsideLoop'
      BY <2>9 DEF CatchFailure, Awaiting
    <3>2. NothingBeforeSubmit'
      BY <2>9 DEF CatchFailure, Awaiting
    <3>3. UnstartedWhileQueued'
      BY <2>9 DEF CatchFailure, Awaiting
    <3>4. TakenOnce'
      BY <2>9 DEF CatchFailure, Awaiting
    <3>5. RejectionsAreFaults'
      BY <2>9 DEF CatchFailure, Awaiting
    <3> QED
      BY <3>1, <3>2, <3>3, <3>4, <3>5
  <2>10. CASE FailItem(w)
    BY <2>10 DEF FailItem
  <2>11. CASE FinishItem(w)
    BY <2>11 DEF FinishItem, Settle
  <2>12. CASE ListItems(w)
    BY <2>12 DEF ListItems
  <2>13. CASE SetFinalStatus(w)
    BY <2>13 DEF SetFinalStatus, FinalStatus
  <2>14. CASE ReadResults(w)
    BY <2>14 DEF ReadResults
  <2>15. CASE WriteSummary(w)
    BY <2>15 DEF WriteSummary
  <2>17. CASE WriteResults(w)
    BY <2>17 DEF WriteResults
  <2>16. CASE AbortRun(w)
    BY <2>16 DEF AbortRun, Forget
  <2> QED
    BY <1>3, <2>1, <2>2, <2>3, <2>4, <2>5, <2>6, <2>7, <2>8, <2>9, <2>10, <2>11,
       <2>12, <2>13, <2>14, <2>15, <2>16, <2>17 DEF WorkerStep
<1>4. ASSUME NEW w \in Workers, WorkerFault(w) PROVE Bookkeeping'
  <2>1. CASE Crash(w)
    BY <2>1 DEF Crash, Leave, Forget
  <2>2. CASE CompletionFault(w)
    BY <2>2 DEF CompletionFault
  <2>3. CASE StartFault(w)
    BY <2>3 DEF StartFault
  <2>4. CASE FailureFault(w)
    <3>1. OnlyInsideLoop'
      BY SMTT(40), <2>4 DEF FailureFault, Forget, Settle
    <3>2. NothingBeforeSubmit'
      BY <2>4 DEF FailureFault, Forget, Settle
    <3>3. UnstartedWhileQueued'
      BY <2>4 DEF FailureFault, Forget, Settle
    <3>4. TakenOnce'
      <4>1. CASE Forget(w)
        BY <2>4, <4>1 DEF FailureFault, Forget
      <4>2. CASE Settle(w) /\ UNCHANGED <<todo, spent>>
        BY <2>4, <4>2 DEF FailureFault, Settle
      <4> QED
        BY <2>4, <4>1, <4>2 DEF FailureFault
    <3>5. RejectionsAreFaults'
      BY <2>4 DEF FailureFault, Forget, Settle
    <3> QED
      BY <3>1, <3>2, <3>3, <3>4, <3>5
  <2>5. CASE RunFault(w)
    <3>1. PICK status \in RunStatuses : Leave(w, status)
                                        /\ (status = runStatus \/ Recorded(w, status))
      BY <2>5, RunFaultEffect
    <3>2. faults' = faults + 1 /\ faults' \in 0 .. MaxFaults /\ crashes' = crashes
      BY <2>5, RunFaultEffect
    <3> QED
      BY <2>5, <3>1, <3>2 DEF Leave, Forget, Recorded, FinalStatus
  <2>6. CASE CheckFault(w)
    BY <2>6 DEF CheckFault
  <2> QED
    BY <1>4, <2>1, <2>2, <2>3, <2>4, <2>5, <2>6 DEF WorkerFault
<1>5. CASE CancelItems
  BY <1>5 DEF CancelItems
<1>6. CASE CancelStatus
  BY <1>6 DEF CancelStatus
<1>7. CASE CrashCanceller
  BY <1>7 DEF CrashCanceller
<1>9. CASE CancelFault
  BY <1>9 DEF CancelFault
<1>8. CASE UNCHANGED vars
  BY <1>8 DEF vars
<1> QED
  BY <1>1, <1>2, <1>3, <1>4, <1>5, <1>6, <1>7, <1>8, <1>9 DEF Next

-----------------------------------------------------------------------------
(* Starts and slots *)

\* A smaller set of processes or items has a smaller cardinality.
LEMMA SmallerIsFewer ==
  ASSUME NEW S, IsFiniteSet(S), NEW T, T \subseteq S
  PROVE  IsFiniteSet(T) /\ Cardinality(T) \in Nat /\ Cardinality(S) \in Nat
         /\ Cardinality(T) <= Cardinality(S)
  BY FS_Subset, FS_CardinalityType

\* What process w has between a start and a recorded outcome.
InFlight(w) == active[w] \cup ({cur[w]} \ {NoItem})

\* The right to start an item comes from the snapshot, a start gives it up; a slot
\* is taken by CheckRun.  No other step adds to either.
GivesNothing ==
  /\ attempts' = attempts
  /\ \A i \in Items : Holders(i)' \subseteq Holders(i)
  /\ \A w \in Workers : InFlight(w)' \subseteq InFlight(w)

LEMMA OtherStepsGiveNothing ==
  ASSUME TypeOK, Bookkeeping, [Next]_vars,
         \A w \in Workers : ~SnapshotQueue(w) /\ ~CheckRun(w) /\ ~MarkItemRunning(w)
  PROVE  GivesNothing
<1> USE NoItemAssumption
<1> USE DEF TypeOK, GivesNothing, Holders, InFlight, storeVars, loopVars, historyVars, boundVars,
            Issue, EndSegment, SetRunStatus, SetItemStatus, RecordEvent
<1>1. CASE Submit
  BY <1>1 DEF Submit
<1>2. ASSUME NEW w \in Workers, BeginRun(w) PROVE GivesNothing
  BY <1>2 DEF BeginRun
<1>3. ASSUME NEW w \in Workers, WorkerStep(w) PROVE GivesNothing
  <2>1. CASE MarkRunRunning(w)
    BY <2>1 DEF MarkRunRunning
  <2>5. CASE CallTransport(w)
    BY <2>5 DEF CallTransport
  <2>6. CASE AwaitSlot(w)
    BY <2>6 DEF AwaitSlot
  <2>7. CASE AwaitAll(w)
    BY <2>7 DEF AwaitAll
  <2>8. ASSUME NEW i \in Items, CompleteItem(w, i) PROVE GivesNothing
    BY <2>8 DEF CompleteItem, Awaiting
  <2>9. ASSUME NEW i \in Items, CatchFailure(w, i) PROVE GivesNothing
    BY <2>9 DEF CatchFailure, Awaiting
  <2>10. CASE FailItem(w)
    BY <2>10 DEF FailItem
  <2>11. CASE FinishItem(w)
    BY <2>11 DEF FinishItem, Settle
  <2>12. CASE ListItems(w)
    BY <2>12 DEF ListItems
  <2>13. CASE SetFinalStatus(w)
    BY <2>13 DEF SetFinalStatus
  <2>14. CASE ReadResults(w)
    BY <2>14 DEF ReadResults
  <2>15. CASE WriteSummary(w)
    BY <2>15 DEF WriteSummary
  <2>17. CASE WriteResults(w)
    BY <2>17 DEF WriteResults
  <2>16. CASE AbortRun(w)
    BY <2>16 DEF AbortRun, Forget
  <2> QED
    BY <1>3, <2>1, <2>5, <2>6, <2>7, <2>8, <2>9, <2>10, <2>11,
       <2>12, <2>13, <2>14, <2>15, <2>16, <2>17 DEF WorkerStep
<1>4. ASSUME NEW w \in Workers, WorkerFault(w) PROVE GivesNothing
  <2>1. CASE Crash(w)
    BY <2>1 DEF Crash, Leave, Forget
  <2>2. CASE CompletionFault(w)
    BY <2>2 DEF CompletionFault
  <2>3. CASE StartFault(w)
    BY <2>3 DEF StartFault
  <2>4. CASE FailureFault(w)
    BY <2>4 DEF FailureFault, Forget, Settle
  <2>5. CASE RunFault(w)
    BY <2>5 DEF RunFault, Leave, Forget
  <2>6. CASE CheckFault(w)
    BY <2>6 DEF CheckFault
  <2> QED
    BY <1>4, <2>1, <2>2, <2>3, <2>4, <2>5, <2>6 DEF WorkerFault
<1>5. CASE CancelItems
  BY <1>5 DEF CancelItems
<1>6. CASE CancelStatus
  BY <1>6 DEF CancelStatus
<1>7. CASE CrashCanceller
  BY <1>7 DEF CrashCanceller
<1>9. CASE CancelFault
  BY <1>9 DEF CancelFault
<1>8. CASE UNCHANGED vars
  BY <1>8 DEF vars
<1> QED
  BY <1>1, <1>2, <1>3, <1>4, <1>5, <1>6, <1>7, <1>8, <1>9 DEF Next

LEMMA StepStartsBounded ==
  ASSUME TypeOK, Bookkeeping, StartsBounded, [Next]_vars
  PROVE  StartsBounded'
<1> SUFFICES ASSUME NEW i \in Items
             PROVE  attempts'[i] + Cardinality(Holders(i)') <= Cardinality(Workers)
  BY DEF StartsBounded
<1>1. /\ attempts[i] \in Nat /\ attempts[i] + Cardinality(Holders(i)) <= Cardinality(Workers)
      /\ IsFiniteSet(Holders(i)) /\ Cardinality(Holders(i)) \in Nat
  BY WorkersAssumption, SmallerIsFewer DEF TypeOK, StartsBounded, Holders
<1>2. Holders(i)' \subseteq Workers /\ Cardinality(Holders(i)') \in Nat
      /\ Cardinality(Workers) \in Nat /\ Cardinality(Holders(i)') <= Cardinality(Workers)
  BY WorkersAssumption, SmallerIsFewer DEF Holders
<1>3. ASSUME attempts'[i] = attempts[i], Holders(i)' \subseteq Holders(i)
      PROVE  attempts'[i] + Cardinality(Holders(i)') <= Cardinality(Workers)
  <2>1. Cardinality(Holders(i)') <= Cardinality(Holders(i))
    BY <1>1, <1>3, SmallerIsFewer
  <2> QED
    BY <1>1, <1>2, <1>3, <2>1
<1>4. ASSUME NEW w \in Workers, SnapshotQueue(w)
      PROVE  attempts'[i] + Cardinality(Holders(i)') <= Cardinality(Workers)
  <2>1. attempts' = attempts
    BY <1>4 DEF SnapshotQueue, storeVars
  <2>2. CASE itemStatus[i] = "queued"
    BY <1>2, <2>1, <2>2 DEF Bookkeeping, UnstartedWhileQueued
  <2>3. CASE itemStatus[i] # "queued"
    <3>1. Holders(i)' \subseteq Holders(i)
      BY <1>4, <2>3 DEF SnapshotQueue, Queued, Holders, TypeOK
    <3> QED
      BY <1>3, <2>1, <3>1
  <2> QED
    BY <2>2, <2>3
<1>5. ASSUME NEW w \in Workers, CheckRun(w)
      PROVE  attempts'[i] + Cardinality(Holders(i)') <= Cardinality(Workers)
  <2>1. attempts' = attempts
    BY <1>5 DEF CheckRun, storeVars
  <2>2. Holders(i)' \subseteq Holders(i)
    BY <1>5 DEF CheckRun, Holders, Issue, TypeOK
  <2> QED
    BY <1>3, <2>1, <2>2
<1>6. ASSUME NEW w \in Workers, MarkItemRunning(w)
      PROVE  attempts'[i] + Cardinality(Holders(i)') <= Cardinality(Workers)
  <2>1. CASE cur[w] # i
    <3>1. attempts'[i] = attempts[i]
      BY <1>6, <2>1 DEF MarkItemRunning, TypeOK
    <3>2. Holders(i)' \subseteq Holders(i)
      BY <1>6 DEF MarkItemRunning, Holders, Issue, TypeOK
    <3> QED
      BY <1>3, <3>1, <3>2
  <2>2. CASE cur[w] = i
    <3>1. attempts'[i] = attempts[i] + 1
      BY <1>6, <2>2 DEF MarkItemRunning, TypeOK
    <3>2. w \in Holders(i)
      BY <1>6, <2>2 DEF MarkItemRunning, Holders
    <3>3. Holders(i)' \subseteq Holders(i) \ {w}
      BY <1>6, <2>2 DEF MarkItemRunning, Holders, Issue, TypeOK, Bookkeeping, TakenOnce
    <3>4. IsFiniteSet(Holders(i) \ {w}) /\ Cardinality(Holders(i) \ {w}) = Cardinality(Holders(i)) - 1
      BY <1>1, <3>2, FS_RemoveElement
    <3>5. Cardinality(Holders(i)') <= Cardinality(Holders(i)) - 1
      BY <3>3, <3>4, SmallerIsFewer
    <3> QED
      BY <1>1, <1>2, <3>1, <3>5
  <2> QED
    BY <2>1, <2>2
<1>7. CASE \A w \in Workers : ~SnapshotQueue(w) /\ ~CheckRun(w) /\ ~MarkItemRunning(w)
  BY <1>3, <1>7, OtherStepsGiveNothing DEF GivesNothing
<1> QED
  BY <1>4, <1>5, <1>6, <1>7

LEMMA StepConcurrencyRespected ==
  ASSUME TypeOK, Bookkeeping, ConcurrencyRespected, [Next]_vars
  PROVE  ConcurrencyRespected'
<1> SUFFICES ASSUME NEW v \in Workers PROVE Cardinality(InFlight(v)') <= Concurrency
  BY DEF ConcurrencyRespected, InFlight
<1>1. IsFiniteSet(InFlight(v)) /\ IsFiniteSet(active[v]) /\ IsFiniteSet(spent[v])
      /\ Cardinality(InFlight(v)) \in Nat /\ Cardinality(InFlight(v)) <= Concurrency
  <2>1. InFlight(v) \subseteq Items /\ active[v] \subseteq Items /\ spent[v] \subseteq Items
    BY DEF InFlight, TypeOK
  <2> QED
    BY <2>1, ItemsAssumption, SmallerIsFewer DEF InFlight, ConcurrencyRespected
<1>2. ASSUME InFlight(v)' \subseteq InFlight(v)
      PROVE  Cardinality(InFlight(v)') <= Concurrency
  <2>1. Cardinality(InFlight(v)') <= Cardinality(InFlight(v)) /\ Cardinality(InFlight(v)') \in Nat
    BY <1>1, <1>2, SmallerIsFewer
  <2> QED
    BY <1>1, <2>1, ConcurrencyAssumption
<1>3. ASSUME NEW w \in Workers, SnapshotQueue(w) \/ MarkItemRunning(w)
      PROVE  Cardinality(InFlight(v)') <= Concurrency
  <2>1. InFlight(v)' \subseteq InFlight(v)
    BY <1>3 DEF SnapshotQueue, MarkItemRunning, Issue, InFlight, TypeOK
  <2> QED
    BY <1>2, <2>1
<1>4. ASSUME NEW w \in Workers, CheckRun(w)
      PROVE  Cardinality(InFlight(v)') <= Concurrency
  <2>1. PICK i \in todo[w] : cur' = cur \/ cur' = [cur EXCEPT ![w] = i]
    BY <1>4 DEF CheckRun, Issue
  <2>2. active' = active /\ ~SlotsFull(w)
    BY <1>4 DEF CheckRun
  <2>3. CASE v # w \/ cur' = cur
    <3>1. InFlight(v)' \subseteq InFlight(v)
      BY <2>1, <2>2, <2>3 DEF InFlight, TypeOK
    <3> QED
      BY <1>2, <3>1
  <2>4. CASE v = w /\ cur' = [cur EXCEPT ![w] = i]
    <3>1. InFlight(v)' \subseteq active[v] \cup {i}
      BY <2>2, <2>4 DEF InFlight, TypeOK
    <3>2. Cardinality(active[v]) \in Nat /\ Cardinality(spent[v]) \in Nat
          /\ Cardinality(active[v]) + Cardinality(spent[v]) < Concurrency
      BY <1>1, <2>2, <2>4, FS_CardinalityType, ConcurrencyAssumption DEF SlotsFull
    <3>3. IsFiniteSet(active[v] \cup {i}) /\ Cardinality(active[v] \cup {i}) <= Cardinality(active[v]) + 1
      <4>1. /\ IsFiniteSet(active[v] \cup {i})
            /\ Cardinality(active[v] \cup {i})
                 = IF i \in active[v] THEN Cardinality(active[v]) ELSE Cardinality(active[v]) + 1
        BY <1>1, FS_AddElement
      <4> QED
        BY <3>2, <4>1
    <3>4. Cardinality(InFlight(v)') <= Cardinality(active[v] \cup {i})
          /\ Cardinality(InFlight(v)') \in Nat /\ Cardinality(active[v] \cup {i}) \in Nat
      BY <3>1, <3>3, SmallerIsFewer
    <3> QED
      BY <3>2, <3>3, <3>4, ConcurrencyAssumption
  <2> QED
    BY <2>1, <2>3, <2>4
<1>5. CASE \A w \in Workers : ~SnapshotQueue(w) /\ ~CheckRun(w) /\ ~MarkItemRunning(w)
  BY <1>2, <1>5, OtherStepsGiveNothing DEF GivesNothing
<1> QED
  BY <1>3, <1>4, <1>5

LEMMA StepRunningIsAnswered ==
  ASSUME TypeOK, Bookkeeping, RunningIsAnswered, [Next]_vars
  PROVE  RunningIsAnswered'
<1> SUFFICES ASSUME Faultless', NEW i \in Items, itemStatus'[i] = "running"
             PROVE  \E v \in Workers : Answers(v, i)'
  BY DEF RunningIsAnswered
<1>0. /\ Faultless
      /\ \A w \in Workers : ~WorkerFault(w) /\ ~AbortRun(w)
      /\ ~CrashCanceller /\ ~CancelFault
  <2>1. crashes \in Nat /\ faults \in Nat /\ crashes' = 0 /\ faults' = 0
    BY BoundsAssumption DEF TypeOK, Faultless
  <2>2. ~CrashCanceller /\ ~CancelFault /\ \A w \in Workers : ~WorkerFault(w)
    BY <2>1 DEF WorkerFault, Crash, RunFault, CheckFault, CompletionFault, StartFault, FailureFault, CrashCanceller,
       CancelFault
  <2>3. UNCHANGED boundVars
    BY <2>2, Zenon DEF Next, WorkerStep, Submit, BeginRun, MarkRunRunning, SnapshotQueue, CheckRun,
       MarkItemRunning, CallTransport, AwaitSlot, AwaitAll, CompleteItem, CatchFailure, FailItem,
       FinishItem, ListItems, SetFinalStatus, ReadResults, WriteSummary, WriteResults, AbortRun,
       CancelItems, CancelStatus, vars
  <2>4. Faultless
    BY <2>1, <2>3 DEF Faultless, boundVars
  <2> QED
    BY <2>2, <2>4 DEF Faultless, AbortRun, Bookkeeping, RejectionsAreFaults
<1>1. itemStatus[i] = "running" => \E v \in Workers : Answers(v, i)
  BY <1>0 DEF RunningIsAnswered
<1> USE NoItemAssumption, <1>1
<1> USE DEF TypeOK, Answers, storeVars, loopVars, historyVars, boundVars,
            Issue, EndSegment, SetRunStatus, SetItemStatus, RecordEvent
<1>2. CASE Submit
  BY <1>2 DEF Submit
<1>3. ASSUME NEW w \in Workers, BeginRun(w) PROVE \E v \in Workers : Answers(v, i)'
  BY <1>3 DEF BeginRun
<1>4. ASSUME NEW w \in Workers, WorkerStep(w) PROVE \E v \in Workers : Answers(v, i)'
  <2>1. CASE MarkRunRunning(w)
    BY <2>1 DEF MarkRunRunning
  <2>2. CASE SnapshotQueue(w)
    BY <2>2 DEF SnapshotQueue
  <2>3. CASE CheckRun(w)
    BY <2>3 DEF Bookkeeping, TakenOnce, CheckRun
  <2>4. CASE MarkItemRunning(w)
    BY <2>4 DEF MarkItemRunning
  <2>5. CASE CallTransport(w)
    BY <2>5 DEF CallTransport
  <2>6. CASE AwaitSlot(w)
    BY <2>6 DEF AwaitSlot
  <2>7. CASE AwaitAll(w)
    BY <2>7 DEF AwaitAll
  <2>8. ASSUME NEW j \in Items, CompleteItem(w, j) PROVE \E v \in Workers : Answers(v, i)'
    BY <2>8 DEF CompleteItem, Awaiting
  <2>9. ASSUME NEW j \in Items, CatchFailure(w, j) PROVE \E v \in Workers : Answers(v, i)'
    BY <2>9 DEF CatchFailure, Awaiting
  <2>10. CASE FailItem(w)
    BY <2>10 DEF FailItem
  <2>11. CASE FinishItem(w)
    BY <2>11 DEF FinishItem, Settle
  <2>12. CASE ListItems(w)
    BY <2>12 DEF ListItems
  <2>13. CASE SetFinalStatus(w)
    BY <2>13 DEF SetFinalStatus
  <2>14. CASE ReadResults(w)
    BY <2>14 DEF ReadResults
  <2>15. CASE WriteSummary(w)
    BY <2>15 DEF WriteSummary
  <2>17. CASE WriteResults(w)
    BY <2>17 DEF WriteResults
  <2>16. CASE AbortRun(w)
    BY <1>0, <2>16
  <2> QED
    BY <1>4, <2>1, <2>2, <2>3, <2>4, <2>5, <2>6, <2>7, <2>8,
       <2>9, <2>10, <2>11, <2>12, <2>13, <2>14, <2>15, <2>16, <2>17 DEF WorkerStep
<1>5. CASE CancelItems
  BY <1>5 DEF CancelItems
<1>6. CASE CancelStatus
  BY <1>6 DEF CancelStatus
<1>7. CASE UNCHANGED vars
  BY <1>7 DEF vars
<1> QED
  BY <1>0, <1>2, <1>3, <1>4, <1>5, <1>6, <1>7 DEF Next

-----------------------------------------------------------------------------
(* Theorems *)

\* The invariant that carries the two bounds.
BoundsInv == TypeOK /\ Bookkeeping /\ StartsBounded /\ ConcurrencyRespected

LEMMA InitBoundsInv == Init => BoundsInv
<1> SUFFICES ASSUME Init PROVE BoundsInv
  OBVIOUS
<1>1. TypeOK
  BY InitTypeOK
<1>2. Bookkeeping
  BY NoItemAssumption DEF Init, NoRows, Bookkeeping, OnlyInsideLoop, NothingBeforeSubmit,
     UnstartedWhileQueued, TakenOnce, RejectionsAreFaults
<1>3. StartsBounded
  <2> SUFFICES ASSUME NEW i \in Items
               PROVE  attempts[i] + Cardinality(Holders(i)) <= Cardinality(Workers)
    BY DEF StartsBounded
  <2>1. Holders(i) \subseteq Workers /\ attempts[i] = 0
    BY DEF Init, Holders
  <2> QED
    BY <2>1, WorkersAssumption, SmallerIsFewer
<1>4. ConcurrencyRespected
  <2> SUFFICES ASSUME NEW w \in Workers
               PROVE  Cardinality(active[w] \cup ({cur[w]} \ {NoItem})) <= Concurrency
    BY DEF ConcurrencyRespected
  <2>1. active[w] \cup ({cur[w]} \ {NoItem}) = {}
    BY DEF Init
  <2> QED
    BY <2>1, FS_EmptySet, ConcurrencyAssumption
<1> QED
  BY <1>1, <1>2, <1>3, <1>4 DEF BoundsInv

LEMMA StepBoundsInv == BoundsInv /\ [Next]_vars => BoundsInv'
  BY StepTypeOK, StepBookkeeping, StepStartsBounded, StepConcurrencyRespected DEF BoundsInv

\* No item is executed more often than there are processes, whatever crashes,
\* cancellations and store faults come between (store.ts 254-291, runner.ts 285-291).
THEOREM AttemptsAreBounded == Spec => []AttemptsBounded
<1>1. BoundsInv => AttemptsBounded
  <2> SUFFICES ASSUME BoundsInv, NEW i \in Items PROVE attempts[i] <= Cardinality(Workers)
    BY DEF AttemptsBounded
  <2>1. Holders(i) \subseteq Workers
    BY DEF Holders
  <2>2. Cardinality(Holders(i)) \in Nat /\ Cardinality(Workers) \in Nat
    BY <2>1, WorkersAssumption, SmallerIsFewer
  <2> QED
    BY <2>2 DEF BoundsInv, StartsBounded, TypeOK
<1> QED
  BY <1>1, InitBoundsInv, StepBoundsInv, PTL DEF Spec

\* mapLimit keeps to manifest.concurrency for every number of items and
\* processes, also when promises reject before the loop awaits (runner.ts 881-891).
THEOREM ConcurrencyIsRespected == Spec => []ConcurrencyRespected
<1>1. BoundsInv => ConcurrencyRespected
  BY DEF BoundsInv
<1> QED
  BY <1>1, InitBoundsInv, StepBoundsInv, PTL DEF Spec

\* A row that says "running" has a process that will still record its outcome,
\* for any number of processes on the run, unless one died or a statement failed
\* (store.ts 284-307, runner.ts 844-891).
THEOREM NoItemIsOrphaned == Spec => []NoOrphanedItem
<1> DEFINE AnswerInv == TypeOK /\ Bookkeeping /\ RunningIsAnswered
<1>1. Init => AnswerInv
  <2>1. Init => RunningIsAnswered
    BY DEF Init, NoRows, RunningIsAnswered
  <2> QED
    BY <2>1, InitBoundsInv DEF BoundsInv
<1>2. AnswerInv /\ [Next]_vars => AnswerInv'
  BY StepTypeOK, StepBookkeeping, StepRunningIsAnswered
<1>3. AnswerInv => NoOrphanedItem
  BY DEF RunningIsAnswered, NoOrphanedItem, Answers
<1> QED
  BY <1>1, <1>2, <1>3, PTL DEF Spec

-----------------------------------------------------------------------------
(* The records of a run with one writer *)

\* One process executes the run; others may cancel it.
SingleWriter == \A v, w \in Workers : v = w

InRun == {"started", "mapping", "racing", "settling", "listed"}

\* Items are started while the list is walked, and settled while the loop awaits, with no
\* rejected promise between them.
Segments ==
  \A w \in Workers :
    /\ at[w] \in {"mark", "note_running"} => pc[w] = "mapping"
    /\ at[w] \in {"note_completed", "fail", "note_failed"} => pc[w] \in {"racing", "settling"} /\ spent[w] = {}
    /\ pc[w] = "settling" => todo[w] = {}

\* Only the writer and the operator set the status of the run.
StatusInRun == \A w \in Workers : pc[w] \in InRun => runStatus \in {"running", "cancelled"}

\* What the rows say of the items the writer has in hand.
RowsInHand ==
  \A w \in Workers :
    /\ \A i \in todo[w] : itemStatus[i] \in {"queued", "cancelled"}
    /\ at[w] = "mark" => itemStatus[cur[w]] \in {"queued", "cancelled"}
    /\ at[w] = "note_running" => itemStatus[cur[w]] \in {"running", "cancelled"}
    /\ at[w] = "note_completed" => itemStatus[cur[w]] = "completed"
    /\ at[w] = "note_failed" => itemStatus[cur[w]] = "failed"
    /\ Faultless => \A i \in Items : Answers(w, i) => itemStatus[i] \in {"running", "cancelled"}

\* Nothing is cancelled, or was seen to be, before somebody cancels.
UncancelledBefore ==
  cancelling = "never" =>
    /\ runStatus # "cancelled"
    /\ \A i \in Items : itemStatus[i] # "cancelled" /\ \A w \in Workers : seen[w][i] # "cancelled"

\* The rows of the items are inserted with the run.
RowsWithRun == runStatus # "absent" => \A i \in Items : itemStatus[i] # "absent"

\* A queued row is still before the writer that took its snapshot; none outlives a cancel.
QueueInHand ==
  Faultless =>
    /\ (cancelling = "half" \/ runStatus = "cancelled") => Queued = {}
    /\ \A w \in Workers : pc[w] \in {"mapping", "racing", "settling"} =>
         \A i \in Queued : i \in todo[w] \/ (at[w] = "mark" /\ i = cur[w])

\* What the writer read at the end is final, and what the rows still say.
ListedIsFinal ==
  Faultless => \A w \in Workers : pc[w] = "listed" =>
    seen[w] = itemStatus /\ \A i \in Items : itemStatus[i] \in Terminal

\* The artifacts are written after the status, from rows that have not changed; only a process
\* that ended between the two leaves them stale.
ArtifactsFresh ==
  cancelling \in {"never", "over"} /\ runStatus \in {"completed", "failed"} =>
    /\ Workers # {}
    /\ \A w \in Workers :
         /\ pc[w] \in {"idle", "begun"} /\ ~unreported =>
              summary = [run |-> runStatus, items |-> itemStatus]
         /\ pc[w] \in {"reporting", "summarised"} => seen[w] = itemStatus
         /\ pc[w] = "summarised" => summary.run = runStatus

\* The one start that a cancel does not prevent is the one it found under way.
LateStartsBounded ==
  /\ lateStarts <= Cardinality(Workers)
  /\ \A w \in Workers : runStatus = "cancelled" /\ at[w] = "mark" => lateStarts = 0

Untold == {i \in Items : /\ itemStatus[i] \in {"running", "completed", "failed"}
                         /\ itemEvent[i] # EventOf(itemStatus[i])}
InHand == {i \in Items : \E w \in Workers : cur[w] = i}

\* Between its UPDATE and its event an item is the one the writer has in hand; the others
\* that are untold are those it let go of.
Adrift == Untold \ InHand
EventsCounted == Cardinality(Adrift) <= crashes + faults

StatusInv == StatusInRun /\ RowsWithRun /\ UncancelledBefore /\ QueueInHand /\ ListedIsFinal /\ TerminalStatusAgrees

WriterInv == /\ TypeOK /\ Bookkeeping /\ RunningIsAnswered
             /\ Segments /\ RowsInHand /\ StatusInv /\ ArtifactsFresh /\ LateStartsBounded /\ EventsCounted

LEMMA InitWriterInv == Init => WriterInv
<1> SUFFICES ASSUME Init PROVE WriterInv
  OBVIOUS
<1>1. TypeOK /\ Bookkeeping
  BY InitBoundsInv DEF BoundsInv
<1>2. RunningIsAnswered
  BY DEF Init, NoRows, RunningIsAnswered
<1>3. Segments /\ RowsInHand
  BY NoItemAssumption DEF Init, NoRows, Segments, RowsInHand, Answers
<1>4. StatusInv
  BY DEF Init, NoRows, StatusInv, StatusInRun, RowsWithRun, UncancelledBefore, QueueInHand, Queued, ListedIsFinal,
         TerminalStatusAgrees, InRun
<1>5. ArtifactsFresh
  BY DEF Init, ArtifactsFresh
<1>6. LateStartsBounded
  BY WorkersAssumption, FS_CardinalityType DEF Init, LateStartsBounded
<1>7. EventsCounted
  <2>1. Adrift = {}
    BY DEF Init, NoRows, Adrift, Untold
  <2> QED BY <2>1, FS_EmptySet DEF Init, EventsCounted
<1> QED BY <1>1, <1>2, <1>3, <1>4, <1>5, <1>6, <1>7 DEF WriterInv

\* A set that grows by as much as its bound does stays within it.
LEMMA WithinBound ==
  ASSUME NEW S, IsFiniteSet(S), NEW T, NEW m \in Nat, NEW n \in Nat, Cardinality(S) <= m,
         \/ T \subseteq S /\ m <= n
         \/ n = m + 1 /\ \E j : T \subseteq S \cup {j}
  PROVE  Cardinality(T) <= n
<1>1. Cardinality(S) \in Nat
  BY FS_CardinalityType
<1>2. CASE T \subseteq S /\ m <= n
  <2>1. Cardinality(T) <= Cardinality(S) /\ Cardinality(T) \in Nat
    BY <1>2, SmallerIsFewer
  <2> QED BY <1>1, <1>2, <2>1
<1>3. ASSUME n = m + 1, NEW j, T \subseteq S \cup {j} PROVE Cardinality(T) <= n
  <2> DEFINE U == S \cup {j}
  <2>1. IsFiniteSet(U) /\ Cardinality(U) = IF j \in S THEN Cardinality(S) ELSE Cardinality(S) + 1
    BY FS_AddElement
  <2>2. Cardinality(U) \in Nat /\ Cardinality(U) <= Cardinality(S) + 1
    BY <1>1, <2>1
  <2>3. Cardinality(T) <= Cardinality(U) /\ Cardinality(T) \in Nat
    BY <1>3, <2>1, SmallerIsFewer
  <2> HIDE DEF U
  <2> QED BY <1>1, <1>3, <2>2, <2>3
<1> QED BY <1>2, <1>3

LEMMA InBound == ASSUME NEW n \in Nat, NEW k \in 0 .. n PROVE k \in Nat
  OBVIOUS

LEMMA DisturbancesCounted ==
  ASSUME NEW k \in 0 .. MaxCrashes, NEW l \in 0 .. MaxFaults PROVE k + l \in Nat
  BY BoundsAssumption

\* The items let go of untold stay as few as the crashes and faults.
LEMMA UntoldStep ==
  ASSUME TypeOK, TypeOK', EventsCounted,
         \/ Adrift' \subseteq Adrift /\ crashes + faults <= crashes' + faults'
         \/ crashes' + faults' = crashes + faults + 1 /\ \E j : Adrift' \subseteq Adrift \cup {j}
  PROVE  EventsCounted'
<1> DEFINE m == crashes + faults
           n == crashes' + faults'
           S == Adrift
           T == Adrift'
<1>1. IsFiniteSet(S)
  BY ItemsAssumption, FS_Subset DEF Adrift, Untold
<1>2. m \in Nat
  BY BoundsAssumption DEF TypeOK
<1>3. n \in Nat
  <2>1. crashes' \in 0 .. MaxCrashes /\ faults' \in 0 .. MaxFaults
    BY Zenon DEF TypeOK
  <2> QED BY <2>1, DisturbancesCounted, Zenon
<1>4. Cardinality(S) <= m
  BY DEF EventsCounted
<1>5. \/ T \subseteq S /\ m <= n
      \/ n = m + 1 /\ \E j : T \subseteq S \cup {j}
  OBVIOUS
<1> HIDE DEF m, n, S, T
<1>6. Cardinality(T) <= n
  BY <1>1, <1>2, <1>3, <1>4, <1>5, WithinBound
<1> QED BY <1>6 DEF n, T, EventsCounted

LEMMA StepSegments ==
  ASSUME SingleWriter, TypeOK, Bookkeeping, Segments, [Next]_vars
  PROVE  Segments'
<1> USE NoItemAssumption, BoundsAssumption
<1> USE DEF TypeOK, Steps, Places, storeVars, loopVars, historyVars, boundVars,
        Issue, EndSegment, SetRunStatus, SetItemStatus, RecordEvent,
        Segments, Bookkeeping, OnlyInsideLoop, RejectionsAreFaults
<1>1. CASE Submit
  BY <1>1 DEF Submit
<1>2. ASSUME NEW w \in Workers, BeginRun(w) PROVE Segments'
  BY <1>2 DEF BeginRun
<1>3. ASSUME NEW w \in Workers, WorkerStep(w) PROVE Segments'
  <2>0. \A v \in Workers : v = w
    BY DEF SingleWriter
  <2>1. CASE MarkRunRunning(w)
    BY <2>0, <2>1 DEF MarkRunRunning
  <2>2. CASE SnapshotQueue(w)
    BY <2>0, <2>2 DEF SnapshotQueue, Queued
  <2>3. CASE CheckRun(w)
    BY <2>0, <2>3 DEF CheckRun, SlotsFull
  <2>4. CASE MarkItemRunning(w)
    BY <2>0, <2>4 DEF MarkItemRunning
  <2>5. CASE CallTransport(w)
    BY <2>0, <2>5 DEF CallTransport
  <2>6. CASE AwaitSlot(w)
    BY <2>0, <2>6 DEF AwaitSlot
  <2>7. CASE AwaitAll(w)
    BY <2>0, <2>7 DEF AwaitAll
  <2>8. ASSUME NEW i \in Items, CompleteItem(w, i) PROVE Segments'
    BY <2>0, <2>8 DEF CompleteItem, Awaiting
  <2>9. ASSUME NEW i \in Items, CatchFailure(w, i) PROVE Segments'
    BY <2>0, <2>9 DEF CatchFailure, Awaiting
  <2>10. CASE FailItem(w)
    BY <2>0, <2>10 DEF FailItem
  <2>11. CASE FinishItem(w)
    BY <2>0, <2>11 DEF FinishItem, Settle
  <2>12. CASE ListItems(w)
    BY <2>0, <2>12 DEF ListItems
  <2>13. CASE SetFinalStatus(w)
    BY <2>0, <2>13 DEF SetFinalStatus, FinalStatus
  <2>14. CASE ReadResults(w)
    BY <2>0, <2>14 DEF ReadResults
  <2>15. CASE WriteSummary(w)
    BY <2>0, <2>15 DEF WriteSummary
  <2>17. CASE WriteResults(w)
    BY <2>0, <2>17 DEF WriteResults
  <2>16. CASE AbortRun(w)
    BY <2>0, <2>16 DEF AbortRun, Forget
  <2> QED
    BY <1>3, <2>1, <2>2, <2>3, <2>4, <2>5, <2>6, <2>7, <2>8,
       <2>9, <2>10, <2>11, <2>12, <2>13, <2>14, <2>15, <2>16, <2>17 DEF WorkerStep
<1>4. ASSUME NEW w \in Workers, WorkerFault(w) PROVE Segments'
  <2>0. \A v \in Workers : v = w
    BY DEF SingleWriter
  <2>1. CASE Crash(w)
    BY <2>0, <2>1 DEF Crash, Leave, Forget
  <2>2. CASE CompletionFault(w)
    BY <2>0, <2>2 DEF CompletionFault
  <2>3. CASE StartFault(w)
    BY <2>0, <2>3 DEF StartFault
  <2>4. CASE FailureFault(w)
    BY <2>0, <2>4 DEF FailureFault, Forget, Settle
  <2>5. CASE RunFault(w)
    BY <2>0, <2>5 DEF RunFault, Leave, Forget
  <2>6. CASE CheckFault(w)
    BY <2>0, <2>6 DEF CheckFault
  <2> QED
    BY <1>4, <2>1, <2>2, <2>3, <2>4, <2>5, <2>6 DEF WorkerFault
<1>5. CASE CancelItems
  BY <1>5 DEF CancelItems
<1>6. CASE CancelStatus
  BY <1>6 DEF CancelStatus
<1>7. CASE CrashCanceller
  BY <1>7 DEF CrashCanceller
<1>9. CASE CancelFault
  BY <1>9 DEF CancelFault
<1>8. CASE UNCHANGED vars
  BY <1>8 DEF vars
<1> QED
  BY <1>1, <1>2, <1>3, <1>4, <1>5, <1>6, <1>7, <1>8, <1>9 DEF Next

LEMMA StepRowsInHand ==
  ASSUME SingleWriter, TypeOK, Bookkeeping, Segments, RowsInHand, [Next]_vars
  PROVE  RowsInHand'
<1> USE NoItemAssumption, BoundsAssumption
<1> USE DEF TypeOK, Steps, Places, storeVars, loopVars, historyVars, boundVars,
        Issue, EndSegment, SetRunStatus, SetItemStatus, RecordEvent,
        Segments, RowsInHand, Answers, Faultless, Bookkeeping, OnlyInsideLoop, NothingBeforeSubmit, TakenOnce
<1>1. CASE Submit
  BY <1>1 DEF Submit
<1>2. ASSUME NEW w \in Workers, BeginRun(w) PROVE RowsInHand'
  BY <1>2 DEF BeginRun
<1>3. ASSUME NEW w \in Workers, WorkerStep(w) PROVE RowsInHand'
  <2>0. \A v \in Workers : v = w
    BY DEF SingleWriter
  <2>1. CASE MarkRunRunning(w)
    BY <2>0, <2>1 DEF MarkRunRunning
  <2>2. CASE SnapshotQueue(w)
    BY <2>0, <2>2 DEF SnapshotQueue, Queued
  <2>3. CASE CheckRun(w)
    BY <2>0, <2>3 DEF CheckRun, SlotsFull
  <2>4. CASE MarkItemRunning(w)
    BY <2>0, <2>4 DEF MarkItemRunning
  <2>5. CASE CallTransport(w)
    BY <2>0, <2>5 DEF CallTransport
  <2>6. CASE AwaitSlot(w)
    BY <2>0, <2>6 DEF AwaitSlot
  <2>7. CASE AwaitAll(w)
    BY <2>0, <2>7 DEF AwaitAll
  <2>8. ASSUME NEW i \in Items, CompleteItem(w, i) PROVE RowsInHand'
    BY <2>0, <2>8 DEF CompleteItem, Awaiting
  <2>9. ASSUME NEW i \in Items, CatchFailure(w, i) PROVE RowsInHand'
    BY <2>0, <2>9 DEF CatchFailure, Awaiting
  <2>10. CASE FailItem(w)
    BY <2>0, <2>10 DEF FailItem
  <2>11. CASE FinishItem(w)
    BY <2>0, <2>11 DEF FinishItem, Settle
  <2>12. CASE ListItems(w)
    BY <2>0, <2>12 DEF ListItems
  <2>13. CASE SetFinalStatus(w)
    BY <2>0, <2>13 DEF SetFinalStatus, FinalStatus
  <2>14. CASE ReadResults(w)
    BY <2>0, <2>14 DEF ReadResults
  <2>15. CASE WriteSummary(w)
    BY <2>0, <2>15 DEF WriteSummary
  <2>17. CASE WriteResults(w)
    BY <2>0, <2>17 DEF WriteResults
  <2>16. CASE AbortRun(w)
    BY <2>0, <2>16 DEF AbortRun, Forget
  <2> QED
    BY <1>3, <2>1, <2>2, <2>3, <2>4, <2>5, <2>6, <2>7, <2>8,
       <2>9, <2>10, <2>11, <2>12, <2>13, <2>14, <2>15, <2>16, <2>17 DEF WorkerStep
<1>4. ASSUME NEW w \in Workers, WorkerFault(w) PROVE RowsInHand'
  <2>0. \A v \in Workers : v = w
    BY DEF SingleWriter
  <2>1. CASE Crash(w)
    BY <2>0, <2>1 DEF Crash, Leave, Forget
  <2>2. CASE CompletionFault(w)
    BY <2>0, <2>2 DEF CompletionFault
  <2>3. CASE StartFault(w)
    BY <2>0, <2>3 DEF StartFault
  <2>4. CASE FailureFault(w)
    BY <2>0, <2>4 DEF FailureFault, Forget, Settle
  <2>5. CASE RunFault(w)
    <3>1. PICK status \in RunStatuses : Leave(w, status)
                                        /\ (status = runStatus \/ Recorded(w, status))
      BY <2>5, RunFaultEffect
    <3>2. faults' = faults + 1 /\ faults' \in 0 .. MaxFaults /\ crashes' = crashes
      BY <2>5, RunFaultEffect
    <3> QED
      BY <2>0, <2>5, <3>1, <3>2 DEF Leave, Forget, Recorded
  <2>6. CASE CheckFault(w)
    BY <2>0, <2>6 DEF CheckFault
  <2> QED
    BY <1>4, <2>1, <2>2, <2>3, <2>4, <2>5, <2>6 DEF WorkerFault
<1>5. CASE CancelItems
  BY <1>5 DEF CancelItems
<1>6. CASE CancelStatus
  BY <1>6 DEF CancelStatus
<1>7. CASE CrashCanceller
  BY <1>7 DEF CrashCanceller
<1>9. CASE CancelFault
  BY <1>9 DEF CancelFault
<1>8. CASE UNCHANGED vars
  BY <1>8 DEF vars
<1> QED
  BY <1>1, <1>2, <1>3, <1>4, <1>5, <1>6, <1>7, <1>8, <1>9 DEF Next

LEMMA StepStatusInv ==
  ASSUME SingleWriter, TypeOK, Bookkeeping, RunningIsAnswered, Segments, RowsInHand, StatusInv, [Next]_vars
  PROVE  StatusInv'
<1> USE NoItemAssumption, BoundsAssumption
<1> USE DEF TypeOK, Steps, Places, storeVars, loopVars, historyVars, boundVars,
        Issue, EndSegment, SetRunStatus, SetItemStatus, RecordEvent,
        Segments, RowsInHand, StatusInv, StatusInRun, RowsWithRun, UncancelledBefore, QueueInHand, Queued, ListedIsFinal,
        TerminalStatusAgrees, Terminal, InRun, Answers, Faultless, Bookkeeping, OnlyInsideLoop, NothingBeforeSubmit,
        TakenOnce, RejectionsAreFaults, RunningIsAnswered, ItemStatuses, RunStatuses
<1>1. CASE Submit
  BY <1>1 DEF Submit
<1>2. ASSUME NEW w \in Workers, BeginRun(w) PROVE StatusInv'
  BY <1>2 DEF BeginRun
<1>3. ASSUME NEW w \in Workers, WorkerStep(w) PROVE StatusInv'
  <2>0. \A v \in Workers : v = w
    BY DEF SingleWriter
  <2>1. CASE MarkRunRunning(w)
    BY <2>0, <2>1 DEF MarkRunRunning
  <2>2. CASE SnapshotQueue(w)
    BY <2>0, <2>2 DEF SnapshotQueue, Queued
  <2>3. CASE CheckRun(w)
    BY <2>0, <2>3 DEF CheckRun, SlotsFull
  <2>4. CASE MarkItemRunning(w)
    BY <2>0, <2>4 DEF MarkItemRunning
  <2>5. CASE CallTransport(w)
    BY <2>0, <2>5 DEF CallTransport
  <2>6. CASE AwaitSlot(w)
    BY <2>0, <2>6 DEF AwaitSlot
  <2>7. CASE AwaitAll(w)
    BY <2>0, <2>7 DEF AwaitAll
  <2>8. ASSUME NEW i \in Items, CompleteItem(w, i) PROVE StatusInv'
    BY <2>0, <2>8 DEF CompleteItem, Awaiting
  <2>9. ASSUME NEW i \in Items, CatchFailure(w, i) PROVE StatusInv'
    BY <2>0, <2>9 DEF CatchFailure, Awaiting
  <2>10. CASE FailItem(w)
    BY <2>0, <2>10 DEF FailItem
  <2>11. CASE FinishItem(w)
    BY <2>0, <2>11 DEF FinishItem, Settle
  <2>12. CASE ListItems(w)
    BY <2>0, <2>12 DEF ListItems
  <2>13. CASE SetFinalStatus(w)
    BY <2>0, <2>13 DEF SetFinalStatus, FinalStatus
  <2>14. CASE ReadResults(w)
    BY <2>0, <2>14 DEF ReadResults
  <2>15. CASE WriteSummary(w)
    BY <2>0, <2>15 DEF WriteSummary
  <2>17. CASE WriteResults(w)
    BY <2>0, <2>17 DEF WriteResults
  <2>16. CASE AbortRun(w)
    BY <2>0, <2>16 DEF AbortRun, Forget
  <2> QED
    BY <1>3, <2>1, <2>2, <2>3, <2>4, <2>5, <2>6, <2>7, <2>8,
       <2>9, <2>10, <2>11, <2>12, <2>13, <2>14, <2>15, <2>16, <2>17 DEF WorkerStep
<1>4. ASSUME NEW w \in Workers, WorkerFault(w) PROVE StatusInv'
  <2>0. \A v \in Workers : v = w
    BY DEF SingleWriter
  <2>1. CASE Crash(w)
    BY <2>0, <2>1 DEF Crash, Leave, Forget
  <2>2. CASE CompletionFault(w)
    BY <2>0, <2>2 DEF CompletionFault
  <2>3. CASE StartFault(w)
    BY <2>0, <2>3 DEF StartFault
  <2>4. CASE FailureFault(w)
    BY <2>0, <2>4 DEF FailureFault, Forget, Settle
  <2>5. CASE RunFault(w)
    <3>1. PICK status \in RunStatuses : Leave(w, status)
                                        /\ (status = runStatus \/ Recorded(w, status))
      BY <2>5, RunFaultEffect
    <3>2. faults' = faults + 1 /\ faults' \in 0 .. MaxFaults /\ crashes' = crashes
      BY <2>5, RunFaultEffect
    <3> QED
      BY <2>0, <2>5, <3>1, <3>2 DEF Leave, Forget, Recorded, FinalStatus
  <2>6. CASE CheckFault(w)
    BY <2>0, <2>6 DEF CheckFault
  <2> QED
    BY <1>4, <2>1, <2>2, <2>3, <2>4, <2>5, <2>6 DEF WorkerFault
<1>5. CASE CancelItems
  <2>1. StatusInRun' /\ RowsWithRun' /\ UncancelledBefore' /\ QueueInHand' /\ TerminalStatusAgrees'
    BY <1>5 DEF CancelItems
  <2>2. ListedIsFinal'
    <3> SUFFICES ASSUME Faultless, NEW w \in Workers, pc[w] = "listed"
                 PROVE  seen[w] = itemStatus' /\ \A i \in Items : itemStatus'[i] \in Terminal
      BY <1>5 DEF CancelItems
    <3>1. seen[w] = itemStatus /\ \A i \in Items : itemStatus[i] \in Terminal
      OBVIOUS
    <3>2. \A i \in Items : itemStatus'[i] = itemStatus[i]
      BY <1>5, <3>1 DEF CancelItems
    <3>3. itemStatus' = itemStatus
      BY <1>5, <3>2 DEF CancelItems
    <3> QED
      BY <3>1, <3>3
  <2> QED
    BY <2>1, <2>2
<1>6. CASE CancelStatus
  BY <1>6 DEF CancelStatus
<1>7. CASE CrashCanceller
  BY <1>7 DEF CrashCanceller
<1>9. CASE CancelFault
  BY <1>9 DEF CancelFault
<1>8. CASE UNCHANGED vars
  BY <1>8 DEF vars
<1> QED
  BY <1>1, <1>2, <1>3, <1>4, <1>5, <1>6, <1>7, <1>8, <1>9 DEF Next

\* A process that ends leaves the artifacts of a final status fresh, or unreported.
LEMMA LeaveArtifacts ==
  ASSUME SingleWriter, TypeOK, StatusInv, ArtifactsFresh, NEW w \in Workers, NEW status,
         Leave(w, status), status = runStatus \/ Recorded(w, status)
  PROVE  ArtifactsFresh'
<1>1. /\ runStatus' = status /\ pc' = [pc EXCEPT ![w] = "idle"]
      /\ unreported' = \/ unreported
                       \/ status \in Terminal /\ pc[w] \in {"listed", "concluded", "reporting", "summarised"}
      /\ UNCHANGED <<itemStatus, seen, summary, cancelling>>
  BY DEF Leave, Forget, SetRunStatus
<1>2. \A v \in Workers : pc'[v] = "idle"
  BY <1>1 DEF SingleWriter, TypeOK
<1>3. SUFFICES ASSUME cancelling \in {"never", "over"}, status \in {"completed", "failed"}, ~unreported'
               PROVE  summary = [run |-> status, items |-> itemStatus]
  BY <1>1, <1>2 DEF ArtifactsFresh
<1>4. ~unreported /\ pc[w] \notin {"listed", "concluded", "reporting", "summarised"}
  BY <1>1, <1>3 DEF Terminal
<1>5. status = runStatus
  BY <1>3, <1>4 DEF Recorded
<1>6. pc[w] \in {"idle", "begun"}
  BY <1>3, <1>4, <1>5 DEF StatusInv, StatusInRun, InRun, TypeOK, Places
<1> QED
  BY <1>3, <1>4, <1>5, <1>6 DEF ArtifactsFresh

LEMMA StepArtifactsFresh ==
  ASSUME SingleWriter, TypeOK, Bookkeeping, Segments, StatusInv, ArtifactsFresh, [Next]_vars
  PROVE  ArtifactsFresh'
<1> USE NoItemAssumption, BoundsAssumption
<1> USE DEF TypeOK, Steps, Places, storeVars, loopVars, historyVars, boundVars,
        Issue, EndSegment, SetRunStatus, SetItemStatus, RecordEvent,
        Segments, StatusInv, StatusInRun, ArtifactsFresh, InRun, Bookkeeping, OnlyInsideLoop, NothingBeforeSubmit
<1>1. CASE Submit
  BY <1>1 DEF Submit
<1>2. ASSUME NEW w \in Workers, BeginRun(w) PROVE ArtifactsFresh'
  BY <1>2 DEF BeginRun
<1>3. ASSUME NEW w \in Workers, WorkerStep(w) PROVE ArtifactsFresh'
  <2>0. \A v \in Workers : v = w
    BY DEF SingleWriter
  <2>1. CASE MarkRunRunning(w)
    BY <2>0, <2>1 DEF MarkRunRunning
  <2>2. CASE SnapshotQueue(w)
    BY <2>0, <2>2 DEF SnapshotQueue, Queued
  <2>3. CASE CheckRun(w)
    BY <2>0, <2>3 DEF CheckRun, SlotsFull
  <2>4. CASE MarkItemRunning(w)
    BY <2>0, <2>4 DEF MarkItemRunning
  <2>5. CASE CallTransport(w)
    BY <2>0, <2>5 DEF CallTransport
  <2>6. CASE AwaitSlot(w)
    BY <2>0, <2>6 DEF AwaitSlot
  <2>7. CASE AwaitAll(w)
    BY <2>0, <2>7 DEF AwaitAll
  <2>8. ASSUME NEW i \in Items, CompleteItem(w, i) PROVE ArtifactsFresh'
    BY <2>0, <2>8 DEF CompleteItem, Awaiting
  <2>9. ASSUME NEW i \in Items, CatchFailure(w, i) PROVE ArtifactsFresh'
    BY <2>0, <2>9 DEF CatchFailure, Awaiting
  <2>10. CASE FailItem(w)
    BY <2>0, <2>10 DEF FailItem
  <2>11. CASE FinishItem(w)
    BY <2>0, <2>11 DEF FinishItem, Settle
  <2>12. CASE ListItems(w)
    BY <2>0, <2>12 DEF ListItems
  <2>13. CASE SetFinalStatus(w)
    BY <2>0, <2>13 DEF SetFinalStatus, FinalStatus
  <2>14. CASE ReadResults(w)
    BY <2>0, <2>14 DEF ReadResults
  <2>15. CASE WriteSummary(w)
    BY <2>0, <2>15 DEF WriteSummary
  <2>17. CASE WriteResults(w)
    BY <2>0, <2>17 DEF WriteResults
  <2>16. CASE AbortRun(w)
    BY <2>0, <2>16 DEF AbortRun, Forget
  <2> QED
    BY <1>3, <2>1, <2>2, <2>3, <2>4, <2>5, <2>6, <2>7, <2>8,
       <2>9, <2>10, <2>11, <2>12, <2>13, <2>14, <2>15, <2>16, <2>17 DEF WorkerStep
<1>4. ASSUME NEW w \in Workers, WorkerFault(w) PROVE ArtifactsFresh'
  <2>0. \A v \in Workers : v = w
    BY DEF SingleWriter
  <2>1. CASE Crash(w)
    BY <2>1, LeaveArtifacts DEF Crash
  <2>2. CASE CompletionFault(w)
    BY <2>0, <2>2 DEF CompletionFault
  <2>3. CASE StartFault(w)
    BY <2>0, <2>3 DEF StartFault
  <2>4. CASE FailureFault(w)
    BY <2>0, <2>4 DEF FailureFault, Forget, Settle
  <2>5. CASE RunFault(w)
    BY <2>5, RunFaultEffect, LeaveArtifacts
  <2>6. CASE CheckFault(w)
    BY <2>0, <2>6 DEF CheckFault
  <2> QED
    BY <1>4, <2>1, <2>2, <2>3, <2>4, <2>5, <2>6 DEF WorkerFault
<1>5. CASE CancelItems
  BY <1>5 DEF CancelItems
<1>6. CASE CancelStatus
  BY <1>6 DEF CancelStatus
<1>7. CASE CrashCanceller
  BY <1>7 DEF CrashCanceller
<1>9. CASE CancelFault
  BY <1>9 DEF CancelFault
<1>8. CASE UNCHANGED vars
  BY <1>8 DEF vars
<1> QED
  BY <1>1, <1>2, <1>3, <1>4, <1>5, <1>6, <1>7, <1>8, <1>9 DEF Next

LEMMA StepLateStarts ==
  ASSUME SingleWriter, TypeOK, Segments, LateStartsBounded, [Next]_vars
  PROVE  LateStartsBounded'
<1> USE NoItemAssumption, BoundsAssumption
<1> USE DEF TypeOK, Steps, Places, storeVars, loopVars, historyVars, boundVars,
        Issue, EndSegment, SetRunStatus, SetItemStatus, RecordEvent,
        Segments, LateStartsBounded
<1>1. CASE Submit
  BY <1>1 DEF Submit
<1>2. ASSUME NEW w \in Workers, BeginRun(w) PROVE LateStartsBounded'
  BY <1>2 DEF BeginRun
<1>3. ASSUME NEW w \in Workers, WorkerStep(w) PROVE LateStartsBounded'
  <2>0. \A v \in Workers : v = w
    BY DEF SingleWriter
  <2>1. CASE MarkRunRunning(w)
    BY <2>0, <2>1 DEF MarkRunRunning
  <2>2. CASE SnapshotQueue(w)
    BY <2>0, <2>2 DEF SnapshotQueue, Queued
  <2>3. CASE CheckRun(w)
    BY <2>0, <2>3 DEF CheckRun, SlotsFull
  <2>4. CASE MarkItemRunning(w)
    <3>1. 1 <= Cardinality(Workers) /\ Cardinality(Workers) \in Nat
      BY WorkersAssumption, FS_EmptySet, FS_CardinalityType
    <3> QED
      BY <2>0, <2>4, <3>1 DEF MarkItemRunning
  <2>5. CASE CallTransport(w)
    BY <2>0, <2>5 DEF CallTransport
  <2>6. CASE AwaitSlot(w)
    BY <2>0, <2>6 DEF AwaitSlot
  <2>7. CASE AwaitAll(w)
    BY <2>0, <2>7 DEF AwaitAll
  <2>8. ASSUME NEW i \in Items, CompleteItem(w, i) PROVE LateStartsBounded'
    BY <2>0, <2>8 DEF CompleteItem, Awaiting
  <2>9. ASSUME NEW i \in Items, CatchFailure(w, i) PROVE LateStartsBounded'
    BY <2>0, <2>9 DEF CatchFailure, Awaiting
  <2>10. CASE FailItem(w)
    BY <2>0, <2>10 DEF FailItem
  <2>11. CASE FinishItem(w)
    BY <2>0, <2>11 DEF FinishItem, Settle
  <2>12. CASE ListItems(w)
    BY <2>0, <2>12 DEF ListItems
  <2>13. CASE SetFinalStatus(w)
    BY <2>0, <2>13 DEF SetFinalStatus, FinalStatus
  <2>14. CASE ReadResults(w)
    BY <2>0, <2>14 DEF ReadResults
  <2>15. CASE WriteSummary(w)
    BY <2>0, <2>15 DEF WriteSummary
  <2>17. CASE WriteResults(w)
    BY <2>0, <2>17 DEF WriteResults
  <2>16. CASE AbortRun(w)
    BY <2>0, <2>16 DEF AbortRun, Forget
  <2> QED
    BY <1>3, <2>1, <2>2, <2>3, <2>4, <2>5, <2>6, <2>7, <2>8,
       <2>9, <2>10, <2>11, <2>12, <2>13, <2>14, <2>15, <2>16, <2>17 DEF WorkerStep
<1>4. ASSUME NEW w \in Workers, WorkerFault(w) PROVE LateStartsBounded'
  <2>0. \A v \in Workers : v = w
    BY DEF SingleWriter
  <2>1. CASE Crash(w)
    BY <2>0, <2>1 DEF Crash, Leave, Forget
  <2>2. CASE CompletionFault(w)
    BY <2>0, <2>2 DEF CompletionFault
  <2>3. CASE StartFault(w)
    BY <2>0, <2>3 DEF StartFault
  <2>4. CASE FailureFault(w)
    BY <2>0, <2>4 DEF FailureFault, Forget, Settle
  <2>5. CASE RunFault(w)
    BY <2>0, <2>5 DEF RunFault, Leave, Forget
  <2>6. CASE CheckFault(w)
    BY <2>0, <2>6 DEF CheckFault
  <2> QED
    BY <1>4, <2>1, <2>2, <2>3, <2>4, <2>5, <2>6 DEF WorkerFault
<1>5. CASE CancelItems
  BY <1>5 DEF CancelItems
<1>6. CASE CancelStatus
  <2>1. 0 <= Cardinality(Workers)
    BY WorkersAssumption, FS_CardinalityType
  <2> QED
    BY <1>6, <2>1 DEF CancelStatus
<1>7. CASE CrashCanceller
  BY <1>7 DEF CrashCanceller
<1>9. CASE CancelFault
  <2>1. 0 <= Cardinality(Workers)
    BY WorkersAssumption, FS_CardinalityType
  <2> QED
    BY <1>9, <2>1 DEF CancelFault
<1>8. CASE UNCHANGED vars
  BY <1>8 DEF vars
<1> QED
  BY <1>1, <1>2, <1>3, <1>4, <1>5, <1>6, <1>7, <1>8, <1>9 DEF Next

\* A step lets go of an item untold only where a process dies or a statement throws.
LettingGo ==
  \/ Adrift' \subseteq Adrift /\ UNCHANGED boundVars
  \/ /\ \/ crashes' = crashes + 1 /\ faults' = faults
        \/ crashes' = crashes /\ faults' = faults + 1
     /\ \E j : Adrift' \subseteq Adrift \cup {j}

LEMMA StepLettingGo ==
  ASSUME SingleWriter, TypeOK, Bookkeeping, Segments, RowsInHand, [Next]_vars
  PROVE  LettingGo
<1> USE NoItemAssumption, BoundsAssumption
<1> USE DEF TypeOK, storeVars, loopVars, historyVars, boundVars,
        Issue, EndSegment, SetRunStatus, SetItemStatus, RecordEvent,
        Adrift, Untold, InHand, EventOf
<1>1. ASSUME Submit PROVE Adrift' \subseteq Adrift /\ UNCHANGED boundVars
  BY <1>1 DEF Submit
<1>2. ASSUME NEW w \in Workers, BeginRun(w) PROVE Adrift' \subseteq Adrift /\ UNCHANGED boundVars
  BY <1>2 DEF BeginRun
<1>3. ASSUME NEW w \in Workers, WorkerStep(w) PROVE Adrift' \subseteq Adrift /\ UNCHANGED boundVars
  <2>0. \A v \in Workers : v = w
    BY DEF SingleWriter
  <2>1. ASSUME MarkRunRunning(w) PROVE Adrift' \subseteq Adrift /\ UNCHANGED boundVars
    BY <2>0, <2>1 DEF MarkRunRunning
  <2>2. ASSUME SnapshotQueue(w) PROVE Adrift' \subseteq Adrift /\ UNCHANGED boundVars
    BY <2>0, <2>2 DEF SnapshotQueue, Queued
  <2>3. ASSUME CheckRun(w) PROVE Adrift' \subseteq Adrift /\ UNCHANGED boundVars
    BY <2>0, <2>3 DEF CheckRun, SlotsFull
  <2>4. ASSUME MarkItemRunning(w) PROVE Adrift' \subseteq Adrift /\ UNCHANGED boundVars
    BY <2>0, <2>4 DEF MarkItemRunning
  <2>5. ASSUME CallTransport(w) PROVE Adrift' \subseteq Adrift /\ UNCHANGED boundVars
    BY <2>0, <2>5 DEF CallTransport, RowsInHand
  <2>6. ASSUME AwaitSlot(w) PROVE Adrift' \subseteq Adrift /\ UNCHANGED boundVars
    BY <2>0, <2>6 DEF AwaitSlot
  <2>7. ASSUME AwaitAll(w) PROVE Adrift' \subseteq Adrift /\ UNCHANGED boundVars
    BY <2>0, <2>7 DEF AwaitAll
  <2>8. ASSUME NEW i \in Items, CompleteItem(w, i) PROVE Adrift' \subseteq Adrift /\ UNCHANGED boundVars
    BY <2>0, <2>8 DEF CompleteItem, Awaiting
  <2>9. ASSUME NEW i \in Items, CatchFailure(w, i) PROVE Adrift' \subseteq Adrift /\ UNCHANGED boundVars
    BY <2>0, <2>9 DEF CatchFailure, Awaiting
  <2>10. ASSUME FailItem(w) PROVE Adrift' \subseteq Adrift /\ UNCHANGED boundVars
    BY <2>0, <2>10 DEF FailItem
  <2>11. ASSUME FinishItem(w) PROVE Adrift' \subseteq Adrift /\ UNCHANGED boundVars
    BY <2>0, <2>11 DEF FinishItem, Settle, RowsInHand
  <2>12. ASSUME ListItems(w) PROVE Adrift' \subseteq Adrift /\ UNCHANGED boundVars
    BY <2>0, <2>12 DEF ListItems
  <2>13. ASSUME SetFinalStatus(w) PROVE Adrift' \subseteq Adrift /\ UNCHANGED boundVars
    BY <2>0, <2>13 DEF SetFinalStatus, FinalStatus
  <2>14. ASSUME ReadResults(w) PROVE Adrift' \subseteq Adrift /\ UNCHANGED boundVars
    BY <2>0, <2>14 DEF ReadResults
  <2>15. ASSUME WriteSummary(w) PROVE Adrift' \subseteq Adrift /\ UNCHANGED boundVars
    BY <2>0, <2>15 DEF WriteSummary
  <2>17. ASSUME WriteResults(w) PROVE Adrift' \subseteq Adrift /\ UNCHANGED boundVars
    BY <2>0, <2>17 DEF WriteResults
  <2>16. ASSUME AbortRun(w) PROVE Adrift' \subseteq Adrift /\ UNCHANGED boundVars
    BY <2>0, <2>16 DEF AbortRun, Forget, Segments, Steps
  <2> QED
    BY <1>3, <2>1, <2>2, <2>3, <2>4, <2>5, <2>6, <2>7, <2>8,
       <2>9, <2>10, <2>11, <2>12, <2>13, <2>14, <2>15, <2>16, <2>17 DEF WorkerStep
<1>4. ASSUME NEW w \in Workers, WorkerFault(w) PROVE LettingGo
  <2>0. \A v \in Workers : v = w
    BY DEF SingleWriter
  <2>1. CASE Crash(w)
    <3>1. Adrift' \subseteq Adrift \cup {cur[w]}
      BY <2>0, <2>1 DEF Crash, Leave, Forget
    <3>2. crashes' = crashes + 1 /\ faults' = faults
      BY <2>1 DEF Crash
    <3> QED
      BY <3>1, <3>2, Zenon DEF LettingGo
  <2>2. CASE CompletionFault(w)
    <3>1. Adrift' \subseteq Adrift \cup {0}
      BY <2>0, <2>2 DEF CompletionFault
    <3>2. crashes' = crashes /\ faults' = faults + 1
      BY <2>2 DEF CompletionFault
    <3> QED
      BY <3>1, <3>2, Zenon DEF LettingGo
  <2>3. CASE StartFault(w)
    <3>1. Adrift' \subseteq Adrift \cup {cur[w]}
      BY <2>0, <2>3 DEF StartFault
    <3>2. crashes' = crashes /\ faults' = faults + 1
      BY <2>3 DEF StartFault
    <3> QED
      BY <3>1, <3>2, Zenon DEF LettingGo
  <2>4. CASE FailureFault(w)
    <3>1. Adrift' \subseteq Adrift \cup {cur[w]}
      BY <2>0, <2>4 DEF FailureFault, Forget, Settle
    <3>2. crashes' = crashes /\ faults' = faults + 1
      BY <2>4 DEF FailureFault
    <3> QED
      BY <3>1, <3>2, Zenon DEF LettingGo
  <2>5. CASE RunFault(w)
    <3>1. Adrift' \subseteq Adrift \cup {cur[w]}
      BY <2>0, <2>5 DEF RunFault, Leave, Forget
    <3>2. crashes' = crashes /\ faults' = faults + 1
      BY <2>5 DEF RunFault
    <3> QED
      BY <3>1, <3>2, Zenon DEF LettingGo
  <2>6. CASE CheckFault(w)
    <3>1. Adrift' \subseteq Adrift \cup {0}
      BY <2>0, <2>6 DEF CheckFault
    <3>2. crashes' = crashes /\ faults' = faults + 1
      BY <2>6 DEF CheckFault
    <3> QED
      BY <3>1, <3>2, Zenon DEF LettingGo
  <2> QED
    BY <1>4, <2>1, <2>2, <2>3, <2>4, <2>5, <2>6 DEF WorkerFault
<1>5. ASSUME CancelItems PROVE Adrift' \subseteq Adrift /\ UNCHANGED boundVars
  BY <1>5 DEF CancelItems
<1>6. ASSUME CancelStatus PROVE Adrift' \subseteq Adrift /\ UNCHANGED boundVars
  BY <1>6 DEF CancelStatus
<1>7. CASE CrashCanceller
  <2>1. Adrift' \subseteq Adrift \cup {0}
    BY <1>7 DEF CrashCanceller
  <2>2. crashes' = crashes + 1 /\ faults' = faults
    BY <1>7 DEF CrashCanceller
  <2> QED
    BY <2>1, <2>2, Zenon DEF LettingGo
<1>9. CASE CancelFault
  <2>1. Adrift' \subseteq Adrift \cup {0}
    BY <1>9 DEF CancelFault
  <2>2. crashes' = crashes /\ faults' = faults + 1
    BY <1>9 DEF CancelFault
  <2> QED
    BY <2>1, <2>2, Zenon DEF LettingGo
<1>8. ASSUME UNCHANGED vars PROVE Adrift' \subseteq Adrift /\ UNCHANGED boundVars
  BY <1>8 DEF vars
<1> QED
  BY Zenon, <1>1, <1>2, <1>3, <1>4, <1>5, <1>6, <1>7, <1>8, <1>9 DEF Next, LettingGo

LEMMA StepEventsCounted ==
  ASSUME TypeOK, TypeOK', EventsCounted, LettingGo
  PROVE  EventsCounted'
<1>1. crashes \in Nat /\ faults \in Nat
  BY BoundsAssumption, Zenon, InBound DEF TypeOK
<1>2. crashes' \in Nat /\ faults' \in Nat
  BY BoundsAssumption, Zenon, InBound DEF TypeOK
<1>3. CASE Adrift' \subseteq Adrift /\ UNCHANGED boundVars
  <2>1. crashes + faults <= crashes' + faults'
    BY <1>1, <1>3 DEF boundVars
  <2> QED
    BY <1>3, <2>1, UntoldStep
<1>4. CASE LettingGo /\ ~ (Adrift' \subseteq Adrift /\ UNCHANGED boundVars)
  <2>1. crashes' + faults' = crashes + faults + 1
    BY <1>1, <1>4 DEF LettingGo
  <2> QED
    BY <1>4, <2>1, UntoldStep DEF LettingGo
<1> QED
  BY <1>3, <1>4

LEMMA StepWriterInv == ASSUME SingleWriter PROVE WriterInv /\ [Next]_vars => WriterInv'
<1> SUFFICES ASSUME WriterInv, [Next]_vars PROVE WriterInv'
  OBVIOUS
<1> USE DEF WriterInv
<1>1. TypeOK' /\ Bookkeeping' /\ RunningIsAnswered'
  BY StepTypeOK, StepBookkeeping, StepRunningIsAnswered
<1>2. Segments' /\ RowsInHand'
  BY StepSegments, StepRowsInHand
<1>3. StatusInv' /\ ArtifactsFresh' /\ LateStartsBounded'
  BY StepStatusInv, StepArtifactsFresh, StepLateStarts
<1>4. EventsCounted'
  BY <1>1, StepLettingGo, StepEventsCounted
<1> QED
  BY <1>1, <1>2, <1>3, <1>4

\* A single writer lets no second item start after cancelRun returned: it reads the run
\* status before each item, and only the item whose check it had passed is still started
\* (runner.ts 836-846, store.ts 352-362).
THEOREM CancelStopsTheBatch == ASSUME SingleWriter PROVE Spec => []CancelStopsBatch
<1>1. WriterInv => CancelStopsBatch
  BY DEF WriterInv, LateStartsBounded, CancelStopsBatch
<1> QED
  BY <1>1, InitWriterInv, StepWriterInv, PTL DEF Spec

\* The row of a run, the events of its items, and the artifacts written last agree with the
\* rows of its items, for any number of items, cancellations, process deaths and failing
\* statements, when one process executes the run: the row while nothing failed, the events
\* but for one item for each failure, the artifacts unless a process ended between the final
\* status it committed and the last artifact (runner.ts 276-313, store.ts 277-350).
THEOREM RecordsAgree == ASSUME SingleWriter PROVE Spec => []RunRecordsAgree
<1>1. WriterInv => RunRecordsAgree
  <2> SUFFICES ASSUME WriterInv PROVE RunRecordsAgree
    OBVIOUS
  <2>1. TerminalStatusAgrees
    BY DEF WriterInv, StatusInv
  <2>2. EventsTellStatuses
    <3> SUFFICES ASSUME \A w \in Workers : pc[w] = "idle"
                 PROVE  Cardinality(Untold) <= crashes + faults
      BY DEF EventsTellStatuses, Untold
    <3>1. \A w \in Workers : cur[w] = NoItem
      BY DEF WriterInv, TypeOK, Bookkeeping, OnlyInsideLoop
    <3>2. Adrift = Untold
      BY <3>1, NoItemAssumption DEF Adrift, InHand
    <3> QED
      BY <3>2 DEF WriterInv, EventsCounted
  <2>3. ArtifactsAgree
    <3> SUFFICES ASSUME cancelling \in {"never", "over"}, ~unreported, runStatus \in {"completed", "failed"},
                        \A w \in Workers : pc[w] = "idle"
                 PROVE  summary = [run |-> runStatus, items |-> itemStatus]
      BY DEF ArtifactsAgree
    <3>1. \E w \in Workers : TRUE
      BY DEF WriterInv, ArtifactsFresh
    <3> QED
      BY <3>1 DEF WriterInv, ArtifactsFresh
  <2> QED
    BY <2>1, <2>2, <2>3 DEF RunRecordsAgree
<1> QED
  BY <1>1, InitWriterInv, StepWriterInv, PTL DEF Spec

-----------------------------------------------------------------------------
(* BatchRun implements RunContract *)

Undisturbed == Faultless /\ cancelling = "never"

\* What was undisturbed after a step was so before it.
LEMMA DisturbanceLasts == ASSUME TypeOK, [Next]_vars, Undisturbed' PROVE Undisturbed
<1> USE BoundsAssumption DEF TypeOK, Undisturbed, Faultless, boundVars
<1>1. ASSUME NEW w \in Workers, WorkerStep(w) PROVE UNCHANGED <<cancelling, boundVars>>
  BY <1>1 DEF WorkerStep, MarkRunRunning, SnapshotQueue, CheckRun, MarkItemRunning, CallTransport,
     AwaitSlot, AwaitAll, CompleteItem, CatchFailure, FailItem, FinishItem, ListItems, SetFinalStatus,
     ReadResults, WriteSummary, WriteResults, AbortRun
<1>2. ASSUME NEW w \in Workers, WorkerFault(w) PROVE FALSE
  BY <1>2 DEF WorkerFault, Crash, RunFault, CheckFault, CompletionFault, StartFault, FailureFault
<1>3. Submit \/ CancelItems \/ CancelStatus \/ CrashCanceller \/ CancelFault => Undisturbed
  BY DEF Submit, CancelItems, CancelStatus, CrashCanceller, CancelFault
<1>4. \A w \in Workers : BeginRun(w) => Undisturbed
  BY DEF BeginRun
<1> QED
  BY <1>1, <1>2, <1>3, <1>4 DEF Next, vars

LEMMA ContractInit == Init => Contract!Init
  BY DEF Init, Contract!Init, NoRows, Faultless

\* Every step of an undisturbed run is a step of the contract, or none of its business.
LEMMA ContractKept ==
  ASSUME SingleWriter, WriterInv, [Next]_vars, Undisturbed, Undisturbed'
  PROVE  Contract!Promised \/ UNCHANGED <<runStatus, itemStatus>>
<1> USE DEF TypeOK, storeVars, SetRunStatus, SetItemStatus
<1>0. /\ TypeOK /\ Bookkeeping /\ Segments /\ RowsInHand /\ StatusInv /\ Faultless
      /\ cancelling = "never"
  BY DEF WriterInv, Undisturbed
<1>a. runStatus # "cancelled" /\ \A i \in Items : itemStatus[i] # "cancelled"
  BY <1>0 DEF StatusInv, UncancelledBefore
<1>1. CASE Submit
  BY <1>1 DEF Submit, Contract!Submit, Contract!Promised
<1>2. ASSUME NEW w \in Workers, WorkerStep(w)
      PROVE  Contract!Promised \/ UNCHANGED <<runStatus, itemStatus>>
  <2>1. CASE MarkRunRunning(w)
    <3>1. runStatus # "absent"
      BY <1>0, <2>1 DEF MarkRunRunning, Bookkeeping, NothingBeforeSubmit
    <3> QED
      BY <2>1, <3>1 DEF MarkRunRunning, Contract!Work, Contract!Promised
  <2>2. CASE MarkItemRunning(w)
    <3>1. cur[w] \in Items /\ itemStatus[cur[w]] = "queued"
      BY <1>0, <1>a, <2>2 DEF MarkItemRunning, RowsInHand
    <3>2. runStatus = "running"
      BY <1>0, <1>a, <2>2 DEF MarkItemRunning, Segments, StatusInv, StatusInRun, InRun
    <3>3. Contract!Start(cur[w])
      BY <2>2, <3>1, <3>2 DEF MarkItemRunning, Contract!Start
    <3> QED
      BY <3>1, <3>3 DEF Contract!Promised
  <2>3. ASSUME NEW i \in Items, CompleteItem(w, i) PROVE Contract!Promised
    <3>1. runStatus = "running"
      BY <1>0, <1>a, <2>3 DEF CompleteItem, Awaiting, StatusInv, StatusInRun, InRun
    <3>2. Answers(w, i)
      BY <1>0, <2>3, NoItemAssumption DEF CompleteItem, Awaiting, Answers
    <3>3. itemStatus[i] = "running"
      BY <1>0, <1>a, <3>2 DEF RowsInHand
    <3>4. Contract!Finish(i, "completed")
      BY <2>3, <3>1, <3>3 DEF CompleteItem, Contract!Finish
    <3> QED
      BY <3>4 DEF Contract!Promised
  <2>4. CASE FailItem(w)
    <3>1. cur[w] \in Items /\ Answers(w, cur[w])
      BY <1>0, <2>4 DEF FailItem, Answers
    <3>2. itemStatus[cur[w]] = "running"
      BY <1>0, <1>a, <3>1 DEF RowsInHand
    <3>3. runStatus = "running"
      BY <1>0, <1>a, <2>4 DEF FailItem, Segments, StatusInv, StatusInRun, InRun
    <3>4. Contract!Finish(cur[w], "failed")
      BY <2>4, <3>2, <3>3 DEF FailItem, Contract!Finish
    <3> QED
      BY <3>1, <3>4 DEF Contract!Promised
  <2>5. CASE SetFinalStatus(w)
    <3>1. seen[w] = itemStatus /\ \A i \in Items : itemStatus[i] \in {"completed", "failed"}
      BY <1>0, <1>a, <2>5 DEF SetFinalStatus, StatusInv, ListedIsFinal, Terminal
    <3>2. runStatus = "running"
      BY <1>0, <1>a, <2>5 DEF SetFinalStatus, StatusInv, StatusInRun, InRun
    <3>3. runStatus' = IF \A i \in Items : itemStatus[i] = "completed" THEN "completed" ELSE "failed"
      BY <2>5, <3>1 DEF SetFinalStatus, FinalStatus
    <3>4. UNCHANGED itemStatus
      BY <2>5 DEF SetFinalStatus
    <3> QED
      BY <3>1, <3>2, <3>3, <3>4 DEF Contract!Conclude, Contract!Promised
  <2> QED
    BY <1>2, <2>1, <2>2, <2>3, <2>4, <2>5
       DEF WorkerStep, SnapshotQueue, CheckRun, CallTransport, AwaitSlot, AwaitAll, CatchFailure,
           FinishItem, ListItems, ReadResults, WriteSummary, WriteResults, AbortRun
<1>3. ASSUME NEW w \in Workers, BeginRun(w) PROVE UNCHANGED <<runStatus, itemStatus>>
  BY <1>3 DEF BeginRun
<1>5. ASSUME NEW w \in Workers, WorkerFault(w) PROVE FALSE
  BY <1>5, BoundsAssumption
     DEF WorkerFault, Crash, RunFault, CheckFault, CompletionFault, StartFault, FailureFault,
         Undisturbed, Faultless
<1>4. CASE CancelItems \/ CancelStatus \/ CrashCanceller \/ CancelFault
  BY <1>4 DEF CancelItems, CancelStatus, CrashCanceller, CancelFault, Undisturbed
<1> QED
  BY <1>1, <1>2, <1>3, <1>4, <1>5 DEF Next, vars

\* While nobody cancels, its process survives and its statements succeed, one process on a
\* run executes every item exactly once and then records the status the items have: processRun
\* implements RunContract, whatever the number of items and the concurrency
\* (runner.ts 276-310, store.ts 284-350).
THEOREM BatchKeepsContract == ASSUME SingleWriter PROVE Spec => ImplementsContract
<1>1. WriterInv /\ [Next]_vars => [Contract!Next]_(Contract!contractVars)
  <2> SUFFICES ASSUME WriterInv, [Next]_vars PROVE [Contract!Next]_(Contract!contractVars)
    OBVIOUS
  <2>1. CASE ~Undisturbed'
    BY <2>1 DEF Contract!Next, Undisturbed, Faultless
  <2>2. CASE Undisturbed'
    <3>1. Undisturbed
      BY <2>2, DisturbanceLasts DEF WriterInv
    <3>2. Contract!Promised \/ UNCHANGED <<runStatus, itemStatus>>
      BY <2>2, <3>1, ContractKept
    <3>3. Contract!Promised => Contract!Next
      BY <2>2, <3>1 DEF Contract!Next, Undisturbed, Faultless
    <3>4. UNCHANGED <<runStatus, itemStatus>> => UNCHANGED (Contract!contractVars)
      BY <2>2, <3>1 DEF Contract!contractVars, Undisturbed, Faultless
    <3> QED
      BY <3>2, <3>3, <3>4
  <2> QED
    BY <2>1, <2>2
<1> QED
  BY <1>1, ContractInit, InitWriterInv, StepWriterInv, PTL DEF Spec, ImplementsContract, Contract!Spec

=============================================================================
