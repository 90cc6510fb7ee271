------------------------------ MODULE BatchRun ------------------------------
(***************************************************************************)
(* One run of the batch engine: the rows of the SQLite store that describe *)
(* it (src/store.ts), the processes that execute it (processRun and        *)
(* mapLimit in src/runner.ts) and the operator who cancels it from another *)
(* process.                                                                *)
(*                                                                         *)
(* The grain of atomicity is one SQL statement: every store method issues  *)
(* its statements in autocommit mode, so another process may run between   *)
(* any two of them, and any of them may throw. The events of the run       *)
(* itself, which no code reads, have no variable: their INSERT appears as  *)
(* the fault it can be. Inside one process the code between two awaits is  *)
(* synchronous, which `at' records: while at[w] # "none" the process w has *)
(* a next statement to issue for item cur[w] and can do nothing else.      *)
(*                                                                         *)
(* Transports are the local ones (fake, dry-run): the plan of a local run  *)
(* depends on its manifest only, so assertPlanExecutable cannot refuse a   *)
(* run it accepted at submission.  The live gate is module LiveAuthority.  *)
(***************************************************************************)
EXTENDS Integers, FiniteSets

CONSTANTS
  Items,        \* item ids of the manifest; ORDER BY item_id is the order on Nat
  Workers,      \* processes that may call processRun on this run
  Concurrency,  \* manifest.concurrency, the limit given to mapLimit
  AllowCancel,  \* whether an operator may cancel the run
  MaxCrashes,   \* bound on process deaths
  MaxFaults,    \* bound on store statements that throw (busy timeout, disk)
  NoItem        \* no item: the process is between two items

ASSUME ItemsAssumption == Items \subseteq Nat /\ IsFiniteSet(Items) /\ NoItem \notin Items
ASSUME WorkersAssumption == IsFiniteSet(Workers)
ASSUME ConcurrencyAssumption == Concurrency \in Nat \ {0}
ASSUME BoundsAssumption == AllowCancel \in BOOLEAN /\ MaxCrashes \in Nat /\ MaxFaults \in Nat

VARIABLES
  runStatus,    \* runs.status, "absent" before the row exists
  itemStatus,   \* items.status
  attempts,     \* items.attempts
  itemEvent,    \* the last item event in the events table
  pc,           \* where each process is in processRun
  todo,         \* items of the queuedItems snapshot the loop has not reached
  active,       \* items whose transport call is awaited
  spent,        \* slots held by promises that settled before the loop awaited, one of them in error
  at, cur,      \* next statement of the synchronous segment, and its item
  seen,         \* rows a process read with listItems
  summary,      \* status and rows the last summary.json and results.jsonl show
  cancelling,   \* cancelRun: never called, half done (items only), over, or lost on the way
  lateStarts,   \* history: items started since the run last became cancelled
  unreported,   \* history: a process died or threw between the final status it committed and the
                \* last artifact, and no process has written them all since
  crashes, faults

storeVars   == <<runStatus, itemStatus, attempts, itemEvent>>
loopVars    == <<todo, active, spent, at, cur>>
boundVars   == <<crashes, faults>>
historyVars == <<lateStarts, unreported>>
vars == <<storeVars, pc, loopVars, seen, summary, cancelling, historyVars, boundVars>>

RunStatuses  == {"absent", "queued", "running", "completed", "failed", "cancelled"}
ItemStatuses == RunStatuses
ItemEvents   == {"none", "item_running", "item_completed", "item_failed"}
Steps        == {"none", "mark", "note_running", "note_completed", "fail", "note_failed"}
Places       == {"idle", "begun", "started", "mapping", "racing", "settling",
                 "listed", "concluded", "reporting", "summarised"}
Terminal     == {"completed", "failed", "cancelled"}

TypeOK ==
  /\ runStatus \in RunStatuses
  /\ itemStatus \in [Items -> ItemStatuses]
  /\ attempts \in [Items -> Nat]
  /\ itemEvent \in [Items -> ItemEvents]
  /\ pc \in [Workers -> Places]
  /\ todo \in [Workers -> SUBSET Items]
  /\ active \in [Workers -> SUBSET Items]
  /\ spent \in [Workers -> SUBSET Items]
  /\ at \in [Workers -> Steps]
  /\ cur \in [Workers -> Items \cup {NoItem}]
  /\ \A w \in Workers : cur[w] = NoItem <=> at[w] = "none"
  /\ seen \in [Workers -> [Items -> ItemStatuses]]
  /\ summary \in [run : RunStatuses, items : [Items -> ItemStatuses]]
  /\ cancelling \in {"never", "half", "over", "lost"}
  /\ lateStarts \in Nat
  /\ unreported \in BOOLEAN
  /\ crashes \in 0 .. MaxCrashes
  /\ faults \in 0 .. MaxFaults

NoRows == [i \in Items |-> "absent"]

Init ==
  /\ runStatus = "absent"
  /\ itemStatus = NoRows
  /\ attempts = [i \in Items |-> 0]
  /\ itemEvent = [i \in Items |-> "none"]
  /\ pc = [w \in Workers |-> "idle"]
  /\ todo = [w \in Workers |-> {}]
  /\ active = [w \in Workers |-> {}]
  /\ spent = [w \in Workers |-> {}]
  /\ at = [w \in Workers |-> "none"]
  /\ cur = [w \in Workers |-> NoItem]
  /\ seen = [w \in Workers |-> NoRows]
  /\ summary = [run |-> "absent", items |-> NoRows]
  /\ cancelling = "never"
  /\ lateStarts = 0
  /\ unreported = FALSE
  /\ crashes = 0
  /\ faults = 0

-----------------------------------------------------------------------------
(* Helpers *)

\* Mutant: a "resuming" queuedItems that also takes the running rows.
Queued_WithRunning == {i \in Items : itemStatus[i] \in {"queued", "running"}}

\* Mutant: queuedItems also retries the failed rows.
Queued_WithFailed == {i \in Items : itemStatus[i] \in {"queued", "failed"}}

\* queuedItems: the rows a pass over the run works on.
Queued == {i \in Items : itemStatus[i] = "queued"}

\* Mutant: off by one, active.size > limit.
SlotsFull_OffByOne(w) == Cardinality(active[w]) + Cardinality(spent[w]) > Concurrency

\* The loop has no free slot: active.size >= limit.
SlotsFull(w) == Cardinality(active[w]) + Cardinality(spent[w]) >= Concurrency

\* The process issues statement `step' for item i next.
Issue(w, step, i) == at' = [at EXCEPT ![w] = step] /\ cur' = [cur EXCEPT ![w] = i]

\* Mutant: the segment ends but keeps its item.
EndSegment_ItemKept(w) == at' = [at EXCEPT ![w] = "none"] /\ UNCHANGED cur

EndSegment(w) == Issue(w, "none", NoItem)

\* The run status processRun derives from the rows it read.
FinalStatus(rows) ==
  IF \E i \in Items : rows[i] = "cancelled" THEN "cancelled"
  ELSE IF \E i \in Items : rows[i] = "failed" THEN "failed"
  ELSE "completed"

SetRunStatus(status)  == runStatus' = status
SetItemStatus(i, st)  == itemStatus' = [itemStatus EXCEPT ![i] = st]
RecordEvent(i, event) == itemEvent' = [itemEvent EXCEPT ![i] = event]

-----------------------------------------------------------------------------
(* Submission and the entry of processRun *)

\* submitManifest: createRun inserts the run and all its items in one transaction.
Submit ==
  /\ runStatus = "absent"
  /\ runStatus' = "queued"
  /\ itemStatus' = [i \in Items |-> "queued"]
  /\ UNCHANGED <<attempts, itemEvent, pc, loopVars, seen, summary, cancelling, historyVars, boundVars>>

\* processRun reads the run; a cancelled run returns its summary unprocessed.
BeginRun(w) ==
  /\ pc[w] = "idle"
  /\ runStatus \notin {"absent", "cancelled"}
  /\ pc' = [pc EXCEPT ![w] = "begun"]
  /\ UNCHANGED <<storeVars, loopVars, seen, summary, cancelling, historyVars, boundVars>>

\* setRunStatus(runId, "running"), whatever the status has become meanwhile.
MarkRunRunning(w) ==
  /\ pc[w] = "begun"
  /\ SetRunStatus("running")
  /\ pc' = [pc EXCEPT ![w] = "started"]
  /\ UNCHANGED <<itemStatus, attempts, itemEvent, loopVars, seen, summary, cancelling, historyVars, boundVars>>

\* queuedItems: the list mapLimit iterates over is read once.
SnapshotQueue(w) ==
  /\ pc[w] = "started"
  /\ todo' = [todo EXCEPT ![w] = Queued]
  /\ pc' = [pc EXCEPT ![w] = "mapping"]
  /\ UNCHANGED <<storeVars, active, spent, at, cur, seen, summary, cancelling, historyVars, boundVars>>

-----------------------------------------------------------------------------
(* mapLimit and processItem *)

\* Mutant: the callback starts its item without reading the run status.
CheckRun_Unconditional(w) ==
  /\ pc[w] = "mapping" /\ at[w] = "none" /\ ~SlotsFull(w)
  /\ \E i \in todo[w] :
       /\ \A j \in todo[w] : i <= j
       /\ todo' = [todo EXCEPT ![w] = @ \ {i}]
       /\ Issue(w, "mark", i)
  /\ UNCHANGED <<storeVars, pc, active, spent, seen, summary, cancelling, historyVars, boundVars>>

\* The callback reads the run status first and skips the item when cancelled.
\* A skipped promise matters only when an error is already among the settled ones.
CheckRun(w) ==
  /\ pc[w] = "mapping" /\ at[w] = "none" /\ ~SlotsFull(w)
  /\ \E i \in todo[w] :
       /\ \A j \in todo[w] : i <= j
       /\ todo' = [todo EXCEPT ![w] = @ \ {i}]
       /\ IF runStatus = "cancelled"
          THEN /\ spent' = [spent EXCEPT ![w] = IF @ = {} THEN {} ELSE @ \cup {i}]
               /\ UNCHANGED <<at, cur>>
          ELSE Issue(w, "mark", i) /\ UNCHANGED spent
  /\ UNCHANGED <<storeVars, pc, active, seen, summary, cancelling, historyVars, boundVars>>

\* markItemRunning: the UPDATE has no condition on the item's status.
MarkItemRunning(w) ==
  /\ at[w] = "mark"
  /\ SetItemStatus(cur[w], "running")
  /\ attempts' = [attempts EXCEPT ![cur[w]] = @ + 1]
  /\ Issue(w, "note_running", cur[w])
  /\ lateStarts' = IF runStatus = "cancelled" THEN lateStarts + 1 ELSE lateStarts
  /\ UNCHANGED <<runStatus, itemEvent, pc, todo, active, spent, seen, summary, cancelling, unreported, boundVars>>

\* markItemRunning records its event; then the transport call is awaited.
CallTransport(w) ==
  /\ at[w] = "note_running"
  /\ RecordEvent(cur[w], "item_running")
  /\ active' = [active EXCEPT ![w] = @ \cup {cur[w]}]
  /\ EndSegment(w)
  /\ UNCHANGED <<runStatus, itemStatus, attempts, pc, todo, spent, seen, summary, cancelling, historyVars, boundVars>>

\* All slots taken: the loop awaits Promise.race(active).
AwaitSlot(w) ==
  /\ pc[w] = "mapping" /\ at[w] = "none" /\ SlotsFull(w)
  /\ pc' = [pc EXCEPT ![w] = "racing"]
  /\ UNCHANGED <<storeVars, loopVars, seen, summary, cancelling, historyVars, boundVars>>

\* The list is exhausted: Promise.allSettled(active), which swallows errors.
AwaitAll(w) ==
  /\ pc[w] = "mapping" /\ at[w] = "none" /\ ~SlotsFull(w) /\ todo[w] = {}
  /\ pc' = [pc EXCEPT ![w] = "settling"]
  /\ spent' = [spent EXCEPT ![w] = {}]
  /\ UNCHANGED <<storeVars, todo, active, at, cur, seen, summary, cancelling, historyVars, boundVars>>

\* A continuation runs only while the loop itself awaits.
Awaiting(w) == pc[w] \in {"racing", "settling"} /\ at[w] = "none" /\ spent[w] = {}

\* The answer arrived: completeItem, again without a condition on the status.
CompleteItem(w, i) ==
  /\ Awaiting(w) /\ i \in active[w]
  /\ SetItemStatus(i, "completed")
  /\ Issue(w, "note_completed", i)
  /\ UNCHANGED <<runStatus, attempts, itemEvent, pc, todo, active, spent, seen, summary, cancelling, historyVars, boundVars>>

\* Mutant: the catch block drops the error.
CatchFailure_Swallowed(w, i) ==
  /\ Awaiting(w) /\ i \in active[w]
  /\ active' = [active EXCEPT ![w] = @ \ {i}]
  /\ pc' = [pc EXCEPT ![w] = IF @ = "racing" THEN "mapping" ELSE @]
  /\ UNCHANGED <<storeVars, todo, spent, at, cur, seen, summary, cancelling, historyVars, boundVars>>

\* The call threw (or completeItem's UPDATE did): the catch block calls failItem.
CatchFailure(w, i) ==
  /\ Awaiting(w) /\ i \in active[w]
  /\ Issue(w, "fail", i)
  /\ UNCHANGED <<storeVars, pc, todo, active, spent, seen, summary, cancelling, historyVars, boundVars>>

FailItem(w) ==
  /\ at[w] = "fail"
  /\ SetItemStatus(cur[w], "failed")
  /\ Issue(w, "note_failed", cur[w])
  /\ UNCHANGED <<runStatus, attempts, itemEvent, pc, todo, active, spent, seen, summary, cancelling, historyVars, boundVars>>

\* Mutant: the promise never leaves the active set.
Settle_SlotLeaked(w) ==
  /\ pc' = [pc EXCEPT ![w] = IF @ = "racing" THEN "mapping" ELSE @]
  /\ EndSegment(w)
  /\ UNCHANGED active

\* The promise settles: its slot is free, and a loop that raced goes on.
Settle(w) ==
  /\ active' = [active EXCEPT ![w] = @ \ {cur[w]}]
  /\ pc' = [pc EXCEPT ![w] = IF @ = "racing" THEN "mapping" ELSE @]
  /\ EndSegment(w)

FinishItem(w) ==
  /\ at[w] \in {"note_completed", "note_failed"}
  /\ RecordEvent(cur[w], IF at[w] = "note_completed" THEN "item_completed" ELSE "item_failed")
  /\ Settle(w)
  /\ UNCHANGED <<runStatus, itemStatus, attempts, todo, spent, seen, summary, cancelling, historyVars, boundVars>>

-----------------------------------------------------------------------------
(* The end of processRun *)

ListItems(w) ==
  /\ pc[w] = "settling" /\ at[w] = "none" /\ active[w] = {}
  /\ seen' = [seen EXCEPT ![w] = itemStatus]
  /\ pc' = [pc EXCEPT ![w] = "listed"]
  /\ UNCHANGED <<storeVars, loopVars, summary, cancelling, historyVars, boundVars>>

\* Mutant: returns without rewriting the artifacts.
SetFinalStatus_NoArtifacts(w) ==
  /\ pc[w] = "listed"
  /\ SetRunStatus(FinalStatus(seen[w]))
  /\ pc' = [pc EXCEPT ![w] = "idle"]
  /\ UNCHANGED <<itemStatus, attempts, itemEvent, loopVars, seen, summary, cancelling, historyVars, boundVars>>

SetFinalStatus(w) ==
  /\ pc[w] = "listed"
  /\ SetRunStatus(FinalStatus(seen[w]))
  /\ pc' = [pc EXCEPT ![w] = "concluded"]
  /\ UNCHANGED <<itemStatus, attempts, itemEvent, loopVars, seen, summary, cancelling, historyVars, boundVars>>

\* writeResultArtifacts: the rows of results.jsonl are read first, ...
ReadResults(w) ==
  /\ pc[w] = "concluded"
  /\ seen' = [seen EXCEPT ![w] = itemStatus]
  /\ pc' = [pc EXCEPT ![w] = "reporting"]
  /\ UNCHANGED <<storeVars, loopVars, summary, cancelling, historyVars, boundVars>>

\* ... then summary.json is written, with the run status of that moment, ...
WriteSummary(w) ==
  /\ pc[w] = "reporting"
  /\ summary' = [summary EXCEPT !.run = runStatus]
  /\ pc' = [pc EXCEPT ![w] = "summarised"]
  /\ UNCHANGED <<storeVars, loopVars, seen, cancelling, historyVars, boundVars>>

\* ... and results.jsonl last, with the rows read before.
WriteResults(w) ==
  /\ pc[w] = "summarised"
  /\ summary' = [summary EXCEPT !.items = seen[w]]
  /\ unreported' = FALSE
  /\ pc' = [pc EXCEPT ![w] = "idle"]
  /\ UNCHANGED <<storeVars, loopVars, seen, cancelling, lateStarts, boundVars>>

-----------------------------------------------------------------------------
(* cancelRun in another process: two statements *)

CancelItems ==
  /\ AllowCancel /\ cancelling # "half" /\ runStatus # "absent"
  /\ itemStatus' = [i \in Items |-> IF itemStatus[i] \in {"queued", "running"}
                                    THEN "cancelled" ELSE itemStatus[i]]
  /\ cancelling' = "half"
  /\ UNCHANGED <<runStatus, attempts, itemEvent, pc, loopVars, seen, summary, historyVars, boundVars>>

CancelStatus ==
  /\ cancelling = "half"
  /\ SetRunStatus("cancelled")
  /\ cancelling' = "over"
  /\ lateStarts' = 0
  /\ UNCHANGED <<itemStatus, attempts, itemEvent, pc, loopVars, seen, summary, unreported, boundVars>>

-----------------------------------------------------------------------------
(* Failures *)

Forget(w) ==
  /\ pc' = [pc EXCEPT ![w] = "idle"]
  /\ todo' = [todo EXCEPT ![w] = {}]
  /\ active' = [active EXCEPT ![w] = {}]
  /\ spent' = [spent EXCEPT ![w] = {}]
  /\ EndSegment(w)

\* What a process leaves behind that dies or throws at this place with `status' committed.
Leave(w, status) ==
  /\ SetRunStatus(status)
  /\ Forget(w)
  /\ unreported' = \/ unreported
                   \/ status \in Terminal /\ pc[w] \in {"listed", "concluded", "reporting", "summarised"}
  /\ UNCHANGED <<itemStatus, attempts, itemEvent, seen, summary, cancelling, lateStarts>>

\* The process dies; what it committed stays, what it knew is gone.
Crash(w) ==
  /\ pc[w] # "idle" /\ crashes < MaxCrashes
  /\ crashes' = crashes + 1
  /\ Leave(w, runStatus)
  /\ UNCHANGED faults

\* A statement of processRun outside mapLimit, or the writing of an artifact, throws, and
\* processRun with it.  setRunStatus is two statements: when the event INSERT is the one
\* that throws, the status is already committed.
RunFault(w) ==
  /\ faults < MaxFaults
  /\ faults' = faults + 1
  /\ \/ pc[w] = "begun"  /\ Leave(w, "running")
     \/ pc[w] = "listed" /\ Leave(w, FinalStatus(seen[w]))
     \/ /\ \/ pc[w] \in {"begun", "started", "listed", "concluded", "reporting", "summarised"}
           \/ pc[w] = "settling" /\ at[w] = "none" /\ active[w] = {}
        /\ Leave(w, runStatus)
  /\ UNCHANGED crashes

\* The operator's process dies between the two statements of cancelRun.
CrashCanceller ==
  /\ cancelling = "half" /\ crashes < MaxCrashes
  /\ crashes' = crashes + 1
  /\ cancelling' = "lost"
  /\ UNCHANGED <<storeVars, pc, loopVars, seen, summary, historyVars, faults>>

\* setRunStatus throws in cancelRun, at its UPDATE or, the status committed, at its event.
CancelFault ==
  /\ cancelling = "half" /\ faults < MaxFaults
  /\ faults' = faults + 1
  /\ cancelling' = "lost"
  /\ \/ UNCHANGED <<runStatus, lateStarts>>
     \/ SetRunStatus("cancelled") /\ lateStarts' = 0
  /\ UNCHANGED <<itemStatus, attempts, itemEvent, pc, loopVars, seen, summary, unreported, crashes>>

\* The event INSERT of completeItem throws inside the try: failItem runs on a
\* row that is already completed.
CompletionFault(w) ==
  /\ at[w] = "note_completed" /\ faults < MaxFaults
  /\ faults' = faults + 1
  /\ Issue(w, "fail", cur[w])
  /\ UNCHANGED <<storeVars, pc, todo, active, spent, seen, summary, cancelling, historyVars, crashes>>

\* getRun throws in the callback, before processItem: the item stays queued, and its
\* promise rejects before the loop has awaited.
CheckFault(w) ==
  /\ pc[w] = "mapping" /\ at[w] = "none" /\ ~SlotsFull(w) /\ faults < MaxFaults
  /\ faults' = faults + 1
  /\ \E i \in todo[w] :
       /\ \A j \in todo[w] : i <= j
       /\ todo' = [todo EXCEPT ![w] = @ \ {i}]
       /\ spent' = [spent EXCEPT ![w] = @ \cup {i}]
  /\ UNCHANGED <<storeVars, pc, active, at, cur, seen, summary, cancelling, historyVars, crashes>>

\* markItemRunning throws outside the try: the item's promise rejects before the
\* loop has awaited, and holds its slot until it does.
StartFault(w) ==
  /\ at[w] \in {"mark", "note_running"} /\ faults < MaxFaults
  /\ faults' = faults + 1
  /\ spent' = [spent EXCEPT ![w] = @ \cup {cur[w]}]
  /\ EndSegment(w)
  /\ UNCHANGED <<storeVars, pc, todo, active, seen, summary, cancelling, historyVars, crashes>>

\* Promise.race rejects: processRun throws and closes the store, so the calls
\* still in flight can no longer record their outcome.
AbortRun(w) ==
  /\ pc[w] = "racing" /\ spent[w] # {}
  /\ Forget(w)
  /\ UNCHANGED <<storeVars, seen, summary, cancelling, historyVars, boundVars>>

\* failItem throws inside the catch block: the promise rejects while the loop
\* awaits.  Promise.race passes the error on, Promise.allSettled drops it.
FailureFault(w) ==
  /\ at[w] \in {"fail", "note_failed"} /\ faults < MaxFaults
  /\ faults' = faults + 1
  /\ IF pc[w] = "racing" THEN Forget(w) ELSE Settle(w) /\ UNCHANGED <<todo, spent>>
  /\ UNCHANGED <<storeVars, seen, summary, cancelling, historyVars, crashes>>

-----------------------------------------------------------------------------
WorkerStep(w) ==
  \/ MarkRunRunning(w) \/ SnapshotQueue(w)
  \/ CheckRun(w) \/ MarkItemRunning(w) \/ CallTransport(w)
  \/ AwaitSlot(w) \/ AwaitAll(w)
  \/ \E i \in Items : CompleteItem(w, i)
  \/ \E i \in Items : CatchFailure(w, i)
  \/ FailItem(w) \/ FinishItem(w)
  \/ ListItems(w) \/ SetFinalStatus(w) \/ ReadResults(w)
  \/ WriteSummary(w) \/ WriteResults(w)
  \/ AbortRun(w)

WorkerFault(w) ==
  \/ Crash(w) \/ RunFault(w)
  \/ CheckFault(w) \/ StartFault(w) \/ CompletionFault(w) \/ FailureFault(w)

Next ==
  \/ Submit
  \/ \E w \in Workers : BeginRun(w) \/ WorkerStep(w) \/ WorkerFault(w)
  \/ CancelItems \/ CancelStatus \/ CrashCanceller \/ CancelFault

Spec == Init /\ [][Next]_vars

\* A process that has begun goes on, and every transport call ends: the local
\* transports return and the live one aborts on its timeout.  Nobody is obliged
\* to submit, to start a worker or to cancel.
Fairness == \A w \in Workers : WF_vars(WorkerStep(w))

FairSpec == Spec /\ Fairness
-----------------------------------------------------------------------------
(* Properties *)

Open == {"queued", "running"}

Faultless == crashes = 0 /\ faults = 0

\* No item is executed more often than there are processes: the loop takes
\* queued rows only and markItemRunning takes a row out of the queue for good,
\* across crashes, reruns and cancellations.  One process: at most once.
AttemptsBounded == \A i \in Items : attempts[i] <= Cardinality(Workers)

\* mapLimit never has more than manifest.concurrency items between their start
\* and their recorded outcome.
ConcurrencyRespected ==
  \A w \in Workers : Cardinality(active[w] \cup ({cur[w]} \ {NoItem})) <= Concurrency

\* Unless a process died or a statement failed, a row that says "running" has a
\* process that will still settle it.
NoOrphanedItem ==
  Faultless => \A i \in Items : itemStatus[i] = "running" =>
                 \E w \in Workers : i \in active[w] \/ i = cur[w]

\* What a finished run says of its items is true: completed means that all of
\* them are, failed that one of them is and that none is open or cancelled.
\* Holds of a single writer, whatever the operator's cancel interrupts.
TerminalStatusAgrees ==
  Faultless =>
    /\ runStatus = "completed" => \A i \in Items : itemStatus[i] = "completed"
    /\ runStatus = "failed" => /\ \E i \in Items : itemStatus[i] = "failed"
                               /\ \A i \in Items : itemStatus[i] \in {"completed", "failed"}

EventOf(status) == CASE status = "running" -> "item_running"
                     [] status = "completed" -> "item_completed"
                     [] status = "failed" -> "item_failed"

\* When no process is at work the last event of a started item tells its status
\* (docs/storage/SYNC_STRATEGY.md:7-8), but for one item for each crash or error: a
\* process has one statement at a time between an UPDATE and its event.
EventsTellStatuses ==
  (\A w \in Workers : pc[w] = "idle") =>
    Cardinality({i \in Items : /\ itemStatus[i] \in {"running", "completed", "failed"}
                               /\ itemEvent[i] # EventOf(itemStatus[i])}) <= crashes + faults

\* When no process is at work, summary.json and results.jsonl show what the store holds of a
\* completed or failed run: unless an operator's cancel stopped half-way, or the last process
\* to commit a final status died or threw before it had written them both.  A crash or an
\* error anywhere else leaves no stale artifact, and the next pass that ends repairs it.
\* Holds of a single writer.
ArtifactsAgree ==
  runStatus \in {"completed", "failed"} /\ (\A w \in Workers : pc[w] = "idle")
    /\ ~unreported /\ cancelling \in {"never", "over"}
  => summary = [run |-> runStatus, items |-> itemStatus]

\* The three records of a run agree with its items: the row of the run, the events of the
\* items, and the summary.json and results.jsonl that processRun writes last.
RunRecordsAgree == TerminalStatusAgrees /\ EventsTellStatuses /\ ArtifactsAgree

\* A cancelled run is left alone: a process starts at most the one item whose
\* status check it had passed when cancelRun returned.  Holds of a single writer.
CancelStopsBatch == lateStarts <= Cardinality(Workers)

\* processRun ends: a run that a process began to work on reaches a final status,
\* cancelled meanwhile or not, unless a process dies or a statement throws.
RunConcludes ==
  \A w \in Workers : (pc[w] = "started" /\ Faultless) ~> (runStatus \in Terminal \/ ~Faultless)

\* Until a process dies, a statement throws or somebody cancels, a single writer
\* executes every item exactly once and a finished run tells the truth.
Contract == INSTANCE RunContract WITH undisturbed <- Faultless /\ cancelling = "never"
ImplementsContract == Contract!Spec

\* docs/storage/SYNC_STRATEGY.md:7 "resumable writes": a run that is reported
\* completed has no item left over from an interrupted process.
ResumedRunIsWhole ==
  runStatus = "completed" => \A i \in Items : itemStatus[i] \notin Open
=============================================================================
