---------------------------- MODULE LiveAuthority ----------------------------
(***************************************************************************)
(* The authority of live DeepSeek runs: one-use approval receipts, budget  *)
(* reservations against a rolling daily ceiling, and their reconciliation  *)
(* with the usage the provider reports (processRun in src/runner.ts,       *)
(* authoriseAndReserveLiveRun to reconcileBudget in src/store.ts).         *)
(*                                                                         *)
(* Money is in whole units and time in whole ticks.  A run makes one call  *)
(* at a time here: costs add up, and the interleaving of the calls of one  *)
(* run is module BatchRun.                                                 *)
(***************************************************************************)
EXTENDS Integers, FiniteSets, FiniteSetsExt

CONSTANTS
  Runs, Items, Workers,
  Receipts,     \* receipt_id of signed approval receipts
  Reserve,      \* estimateManifestReservation: worst-case cost of a run
  DailyCap,     \* receipt.daily_cost_cap_usd
  Expiry,       \* receipt.expires_at
  Window,       \* 24 hours
  Costs,        \* what the provider may bill for one call
  MaxTime,      \* bound on the clock
  MaxFailures,  \* bound on process deaths and failed statements
  NoRun, NoItem, NoUsage

ASSUME RunsAssumption ==
  /\ IsFiniteSet(Runs) /\ NoRun \notin Runs
  /\ Reserve \in [Runs -> Nat]
ASSUME ItemsAssumption == IsFiniteSet(Items) /\ NoItem \notin Items
ASSUME ReceiptsAssumption == DailyCap \in [Receipts -> Nat] /\ Expiry \in [Receipts -> Nat]
ASSUME NumbersAssumption ==
  /\ Costs \subseteq Nat /\ NoUsage \notin Nat
  /\ Window \in Nat /\ MaxTime \in Nat /\ MaxFailures \in Nat

VARIABLES
  now,
  status,       \* runs.status
  receiptOf,    \* the receipt in a run's stored manifest; runs may carry the same
  signed,       \* the stored manifest still has the receipt's signature
  itemStatus,   \* items.status
  usage,        \* cost of the usage stored with an item, NoUsage if none
  consumedBy,   \* approval_receipt_consumptions: receipt_id is the primary key
  ledger,       \* budget_reservations: run_id is the primary key
  billed,       \* what the provider billed for each item
  pc, job,      \* where each process is in processRun, and for which run
  todo, call,   \* items it has still to call for, and the call it awaits
  observed,     \* cost it read from the rows, NoUsage (null) if one had none
  failures

manifest  == <<receiptOf, signed>>
storeVars == <<status, manifest, itemStatus, usage, consumedBy, ledger>>
procVars  == <<pc, job, todo, call, observed>>
vars == <<now, storeVars, billed, procVars, failures>>

Statuses == {"absent", "queued", "running", "completed", "failed", "cancelled", "budget_exhausted"}
Places   == {"idle", "planned", "refused", "exhausted", "authorised", "cleared",
             "calling", "concluded"}
LedgerStatuses == {"none", "reserved", "reconciled", "retained_conservative", "overrun"}
LedgerRows == [status : LedgerStatuses, charged : Nat, at : Nat]
NoRow      == [status |-> "none", charged |-> 0, at |-> 0]

TypeOK ==
  /\ now \in 0 .. MaxTime
  /\ status \in [Runs -> Statuses]
  /\ receiptOf \in [Runs -> Receipts]
  /\ signed \in [Runs -> BOOLEAN]
  /\ itemStatus \in [Runs -> [Items -> Statuses]]
  /\ usage \in [Runs -> [Items -> Nat \cup {NoUsage}]]
  /\ consumedBy \in [Receipts -> Runs \cup {NoRun}]
  /\ ledger \in [Runs -> LedgerRows]
  /\ billed \in [Runs -> [Items -> Nat]]
  /\ pc \in [Workers -> Places]
  /\ job \in [Workers -> Runs \cup {NoRun}]
  /\ \A w \in Workers : pc[w] = "idle" <=> job[w] = NoRun
  /\ todo \in [Workers -> SUBSET Items]
  /\ call \in [Workers -> Items \cup {NoItem}]
  /\ observed \in [Workers -> Nat \cup {NoUsage}]
  /\ failures \in 0 .. MaxFailures

Init ==
  /\ now = 0
  /\ status = [r \in Runs |-> "absent"]
  /\ receiptOf \in [Runs -> Receipts]
  /\ signed = [r \in Runs |-> TRUE]
  /\ itemStatus = [r \in Runs |-> [i \in Items |-> "absent"]]
  /\ usage = [r \in Runs |-> [i \in Items |-> NoUsage]]
  /\ consumedBy = [c \in Receipts |-> NoRun]
  /\ ledger = [r \in Runs |-> NoRow]
  /\ billed = [r \in Runs |-> [i \in Items |-> 0]]
  /\ pc = [w \in Workers |-> "idle"]
  /\ job = [w \in Workers |-> NoRun]
  /\ todo = [w \in Workers |-> {}]
  /\ call = [w \in Workers |-> NoItem]
  /\ observed = [w \in Workers |-> NoUsage]
  /\ failures = 0

-----------------------------------------------------------------------------
(* Helpers *)

\* What a ledger row counts for: the reservation until it is reconciled.
Committed(r) == IF ledger[r].status = "reserved" THEN Reserve[r] ELSE ledger[r].charged

\* Mutant: a reservation leaves the window one tick early.
InWindow_Short(r) == ledger[r].status # "none" /\ ledger[r].at > now - Window

\* created_at >= now - 24 h
InWindow(r) == ledger[r].status # "none" /\ ledger[r].at >= now - Window

WindowRuns  == {r \in Runs : InWindow(r)}
WindowTotal == MapThenSumSet(Committed, WindowRuns)

\* assertPlanExecutable for a live run: validateApprovalReceipt accepts the
\* receipt stored in the manifest.
PlanAccepts(r) == signed[r] /\ now < Expiry[receiptOf[r]]

\* Cost that the rows of a run add up to; null if one item has no usage.
ObservedCost(r) ==
  IF \A i \in Items : usage[r][i] # NoUsage
  THEN MapThenSumSet(LAMBDA i : usage[r][i], Items)
  ELSE NoUsage

FinalStatus(r) ==
  IF \E i \in Items : itemStatus[r][i] = "cancelled" THEN "cancelled"
  ELSE IF \E i \in Items : itemStatus[r][i] = "failed" THEN "failed"
  ELSE "completed"

Goto(w, place) == pc' = [pc EXCEPT ![w] = place]

\* Mutant: the process keeps its run.
Leave_JobKept(w) ==
  /\ Goto(w, "idle")
  /\ todo' = [todo EXCEPT ![w] = {}]
  /\ call' = [call EXCEPT ![w] = NoItem]
  /\ UNCHANGED <<job, observed>>

\* processRun returns or throws.
Leave(w) ==
  /\ Goto(w, "idle")
  /\ job' = [job EXCEPT ![w] = NoRun]
  /\ todo' = [todo EXCEPT ![w] = {}]
  /\ call' = [call EXCEPT ![w] = NoItem]
  /\ observed' = [observed EXCEPT ![w] = NoUsage]

-----------------------------------------------------------------------------
(* Submission and the gate *)

Submit(r) ==
  /\ status[r] = "absent" /\ PlanAccepts(r)
  /\ status' = [status EXCEPT ![r] = "queued"]
  /\ itemStatus' = [itemStatus EXCEPT ![r] = [i \in Items |-> "queued"]]
  /\ UNCHANGED <<now, manifest, usage, consumedBy, ledger, billed, procVars, failures>>

\* processRun up to assertPlanExecutable, which throws and changes nothing when
\* the stored receipt has expired or has lost its signature.
Plan(w, r) ==
  /\ pc[w] = "idle"
  /\ status[r] \notin {"absent", "cancelled"} /\ PlanAccepts(r)
  /\ Goto(w, "planned")
  /\ job' = [job EXCEPT ![w] = r]
  /\ UNCHANGED <<now, storeVars, billed, todo, call, observed, failures>>

Consume(w) ==
  /\ consumedBy' = [consumedBy EXCEPT ![receiptOf[job[w]]] = job[w]]
  /\ ledger' = [ledger EXCEPT ![job[w]] =
                  [status |-> "reserved", charged |-> Reserve[job[w]], at |-> now]]
  /\ Goto(w, "authorised")

\* Mutant: the replay check is dropped.
Authorise_ReplayAllowed(w) ==
  LET c == receiptOf[job[w]] IN
  /\ pc[w] = "planned"
  /\ IF WindowTotal + Reserve[job[w]] > DailyCap[c]
     THEN Goto(w, "exhausted") /\ UNCHANGED <<consumedBy, ledger>>
     ELSE Consume(w)
  /\ UNCHANGED <<now, status, manifest, itemStatus, usage, billed, job, todo, call, observed, failures>>

\* Mutant: the consumption is not rolled back when the ceiling refuses the run.
Authorise_NoRollback(w) ==
  LET c == receiptOf[job[w]] IN
  /\ pc[w] = "planned"
  /\ IF consumedBy[c] # NoRun
     THEN Goto(w, "refused") /\ UNCHANGED <<consumedBy, ledger>>
     ELSE IF WindowTotal + Reserve[job[w]] > DailyCap[c]
     THEN /\ Goto(w, "exhausted") /\ UNCHANGED ledger
          /\ consumedBy' = [consumedBy EXCEPT ![c] = job[w]]
     ELSE Consume(w)
  /\ UNCHANGED <<now, status, manifest, itemStatus, usage, billed, job, todo, call, observed, failures>>

\* authoriseAndReserveLiveRun, one BEGIN IMMEDIATE transaction: replay, ceiling,
\* consumption and reservation.
Authorise(w) ==
  LET c == receiptOf[job[w]] IN
  /\ pc[w] = "planned"
  /\ IF consumedBy[c] # NoRun
     THEN Goto(w, "refused") /\ UNCHANGED <<consumedBy, ledger>>
     ELSE IF WindowTotal + Reserve[job[w]] > DailyCap[c]
     THEN Goto(w, "exhausted") /\ UNCHANGED <<consumedBy, ledger>>
     ELSE Consume(w)
  /\ UNCHANGED <<now, status, manifest, itemStatus, usage, billed, job, todo, call, observed, failures>>

\* approval_receipt_replayed, or an error at the gate: the run is marked failed,
\* whoever is working on it.
Refuse(w) ==
  /\ pc[w] = "refused"
  /\ status' = [status EXCEPT ![job[w]] = "failed"]
  /\ Leave(w)
  /\ UNCHANGED <<now, manifest, itemStatus, usage, consumedBy, ledger, billed, failures>>

\* markBudgetExhausted
Exhaust(w) ==
  /\ pc[w] = "exhausted"
  /\ itemStatus' = [itemStatus EXCEPT ![job[w]] =
                      [i \in Items |-> IF @[i] = "queued" THEN "budget_exhausted" ELSE @[i]]]
  /\ status' = [status EXCEPT ![job[w]] = "budget_exhausted"]
  /\ Leave(w)
  /\ UNCHANGED <<now, manifest, usage, consumedBy, ledger, billed, failures>>

\* redactConsumedReceipt, after the COMMIT.
Redact(w) ==
  /\ pc[w] = "authorised"
  /\ signed' = [signed EXCEPT ![job[w]] = FALSE]
  /\ Goto(w, "cleared")
  /\ UNCHANGED <<now, receiptOf, status, itemStatus, usage, consumedBy, ledger, billed,
                 job, todo, call, observed, failures>>

-----------------------------------------------------------------------------
(* Execution *)

\* setRunStatus("running") and the queuedItems snapshot.
Start(w) ==
  /\ pc[w] = "cleared"
  /\ status' = [status EXCEPT ![job[w]] = "running"]
  /\ todo' = [todo EXCEPT ![w] = {i \in Items : itemStatus[job[w]][i] = "queued"}]
  /\ Goto(w, "calling")
  /\ UNCHANGED <<now, manifest, itemStatus, usage, consumedBy, ledger, billed,
                 job, call, observed, failures>>

\* The item's request goes out and the provider bills it, or the run turns out
\* cancelled and the item is skipped.
Call(w, i) ==
  /\ pc[w] = "calling" /\ call[w] = NoItem /\ i \in todo[w]
  /\ todo' = [todo EXCEPT ![w] = @ \ {i}]
  /\ IF status[job[w]] = "cancelled"
     THEN UNCHANGED <<itemStatus, billed, call>>
     ELSE /\ itemStatus' = [itemStatus EXCEPT ![job[w]][i] = "running"]
          /\ \E cost \in Costs : billed' = [billed EXCEPT ![job[w]][i] = @ + cost]
          /\ call' = [call EXCEPT ![w] = i]
  /\ UNCHANGED <<now, status, manifest, usage, consumedBy, ledger, pc, job, observed, failures>>

Outcome(w, st, cost) ==
  /\ pc[w] = "calling" /\ call[w] # NoItem
  /\ itemStatus' = [itemStatus EXCEPT ![job[w]][call[w]] = st]
  /\ usage' = [usage EXCEPT ![job[w]][call[w]] = cost]
  /\ call' = [call EXCEPT ![w] = NoItem]
  /\ UNCHANGED <<now, status, manifest, consumedBy, ledger, billed, pc, job, todo, observed, failures>>

Answer(w) == Outcome(w, "completed", billed[job[w]][call[w]])

\* The response carries no usable usage, or the call failed after it was billed.
AnswerWithoutUsage(w) == Outcome(w, "completed", NoUsage)
CallFails(w)          == Outcome(w, "failed", NoUsage)

\* The final status and the observed cost come from the same rows.
Conclude(w) ==
  /\ pc[w] = "calling" /\ todo[w] = {} /\ call[w] = NoItem
  /\ status' = [status EXCEPT ![job[w]] = FinalStatus(job[w])]
  /\ observed' = [observed EXCEPT ![w] = ObservedCost(job[w])]
  /\ Goto(w, "concluded")
  /\ UNCHANGED <<now, manifest, itemStatus, usage, consumedBy, ledger, billed,
                 job, todo, call, failures>>

Settled(r, st, charged) == [ledger EXCEPT ![r] = [status |-> st, charged |-> charged, at |-> @.at]]

\* reconcileBudget: an unknown cost retains the whole reservation.
Reconcile(w) ==
  LET r == job[w] IN
  /\ pc[w] = "concluded"
  /\ ledger' = IF observed[w] = NoUsage THEN Settled(r, "retained_conservative", Reserve[r])
               ELSE Settled(r, IF observed[w] > Reserve[r] THEN "overrun" ELSE "reconciled", observed[w])
  /\ Leave(w)
  /\ UNCHANGED <<now, status, manifest, itemStatus, usage, consumedBy, billed, failures>>

-----------------------------------------------------------------------------
(* The environment *)

\* cancelRun; its two statements are told apart in BatchRun.
Cancel(r) ==
  /\ status[r] # "absent"
  /\ status' = [status EXCEPT ![r] = "cancelled"]
  /\ itemStatus' = [itemStatus EXCEPT ![r] =
                      [i \in Items |-> IF @[i] \in {"queued", "running"} THEN "cancelled" ELSE @[i]]]
  /\ UNCHANGED <<now, manifest, usage, consumedBy, ledger, billed, procVars, failures>>

Crash(w) ==
  /\ pc[w] # "idle" /\ failures < MaxFailures
  /\ failures' = failures + 1
  /\ Leave(w)
  /\ UNCHANGED <<now, storeVars, billed>>

\* A statement of authoriseAndReserveLiveRun throws: inside the transaction it is
\* rolled back, after the COMMIT (the event, the redaction) it is not.
GateFault(w) ==
  /\ pc[w] \in {"planned", "authorised"} /\ failures < MaxFailures
  /\ failures' = failures + 1
  /\ Goto(w, "refused")
  /\ UNCHANGED <<now, storeVars, billed, job, todo, call, observed>>

Tick ==
  /\ now < MaxTime
  /\ now' = now + 1
  /\ UNCHANGED <<storeVars, billed, procVars, failures>>

Next ==
  \/ \E r \in Runs : Submit(r) \/ Cancel(r)
  \/ \E w \in Workers, r \in Runs : Plan(w, r)
  \/ \E w \in Workers :
       \/ Authorise(w) \/ Refuse(w) \/ Exhaust(w) \/ Redact(w) \/ Start(w)
       \/ \E i \in Items : Call(w, i)
       \/ Answer(w) \/ AnswerWithoutUsage(w) \/ CallFails(w)
       \/ Conclude(w) \/ Reconcile(w) \/ Crash(w) \/ GateFault(w)
  \/ Tick

Spec == Init /\ [][Next]_vars

-----------------------------------------------------------------------------
(* Properties *)

Spent(r) == MapThenSumSet(LAMBDA i : billed[r][i], Items)

\* README.md:202-204: a run the provider billed has consumed its own receipt and
\* holds a ledger row.  As a receipt is consumed by one run, no two runs and no
\* rerun are ever billed on the same receipt.
SpendIsAuthorised ==
  \A r \in Runs : (\E i \in Items : billed[r][i] > 0) =>
    consumedBy[receiptOf[r]] = r /\ ledger[r].status # "none"

\* The consumption and the reservation are one transaction: neither is ever in
\* the store without the other.
ReceiptsMatchLedger ==
  \A r \in Runs : ledger[r].status # "none" <=> consumedBy[receiptOf[r]] = r

\* A process that is past the gate with a run is alone there: whatever crashes,
\* reruns or second processes do, a run is never executed twice.
OneProcessPastTheGate ==
  \A v, w \in Workers :
    /\ v # w /\ job[v] = job[w]
    /\ pc[v] \in {"authorised", "cleared", "calling", "concluded"}
    => pc[w] \notin {"authorised", "cleared", "calling", "concluded"}

\* The ledger never shows less than was billed, unless a run was billed more
\* than its worst-case estimate: missing usage, crashes and cancellations all
\* err on the side of the reservation.
LedgerCoversSpend ==
  \A r \in Runs : Spent(r) <= Reserve[r] => Spent(r) <= Committed(r)

\* While no run overran its estimate, what the runs reserved in the last 24 hours
\* count for stays within the ceiling of the receipt that was consumed last: rows
\* reconciled since then, and rows that left the window, only lower the sum.
DailyCapRespected ==
  LET recent == {r \in Runs : ledger[r].status # "none" /\ now <= ledger[r].at + Window} IN
  (\A r \in Runs : ledger[r].status # "overrun") /\ recent # {} =>
     \E last \in recent :
       /\ \A r \in recent : ledger[r].at <= ledger[last].at
       /\ MapThenSumSet(Committed, recent) <= DailyCap[receiptOf[last]]

\* The ledger errs on the side of caution, so the daily ceiling it enforces bounds the spend
\* (reconcileBudget, authoriseAndReserveLiveRun).
CeilingHolds == LedgerCoversSpend /\ DailyCapRespected

\* A row of the ledger is written once and settled at most once, and its time
\* never moves: what has left the window does not come back.
LedgerIsSettledOnce ==
  [][\A r \in Runs : ledger[r].status # "none" =>
       /\ ledger'[r].at = ledger[r].at
       /\ ledger'[r] # ledger[r] => ledger[r].status = "reserved" /\ ledger'[r].status # "reserved"]_vars
=============================================================================
