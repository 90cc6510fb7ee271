---------------------------- MODULE CorpusHosted ----------------------------
(***************************************************************************)
(* One corpus job of the hosted processor (deepseek_batch): a pass leases  *)
(* a batch of shards, submits it as one child run of the batch engine and  *)
(* commits what the run yields; shards the reviewed translation memory     *)
(* knows are committed from it instead (src/corpus.ts).                    *)
(*                                                                         *)
(* Passes, cancellations and memory commits hold the job's worker lock, so *)
(* one of them is at work at a time (module WorkerLock).  corpusStartAsync *)
(* writes the first ledger and reads it back before it has the lock: the   *)
(* ledger it brings into its pass may be stale.  It alone has the signed   *)
(* live receipt; the stored manifest holds a redacted copy.                *)
(*                                                                         *)
(* A run is abstracted to the result of each item (module BatchRun has its *)
(* steps).  The rename of ledger.json and the removal of the checkpoints   *)
(* it contains are one step here: module CorpusLedger takes them apart.    *)
(*                                                                         *)
(* The memory is keyed by the normalised text (line ends and composed      *)
(* characters), and the proof of a hit has the hash of that; recovery and  *)
(* validation compare it with the hash of the text as it is.               *)
(***************************************************************************)
EXTENDS Integers, Sequences, FiniteSets, FiniteSetsExt

CONSTANTS
  Shards,       \* shard ids; the ledger's order is the order on Nat
  Texts,        \* translations a shard may be given
  Lanes,        \* transports to consider: "live" (deepseek) or "dry" (local)
  Settings,     \* shard sizes and texts, translation memory and max_retries to consider
  BatchCap,     \* ledger.max_shards_per_batch
  ByteCap,      \* ledger.max_batch_input_bytes
  MaxMishaps,   \* bound on process deaths, calls that throw and edits from outside together
  None

ASSUME ShardsAssumption == Shards \subseteq Nat /\ IsFiniteSet(Shards)
ASSUME LimitsAssumption == BatchCap \in Nat \ {0} /\ ByteCap \in Nat
ASSUME LanesAssumption == Lanes \subseteq {"live", "dry"}
ASSUME BoundsAssumption == MaxMishaps \in Nat

\* A memory row: the translation, and whether a review receipt is recorded with it.
MemoryRow == [text : Texts, reviewed : BOOLEAN]
\* A proof: the translation it certifies, and whether that came from the memory.
Proof == [text : Texts, memory : BOOLEAN]
JobStatuses == {"running", "completed", "failed", "cancelled"}
ASSUME SettingsAssumption ==
  Settings \subseteq [size : [Shards -> Nat \ {0}], raw : SUBSET Shards,
                      memory : [Shards -> MemoryRow \cup {None}], retries : Nat]
ASSUME NoneAssumption == None \notin Texts \cup MemoryRow \cup Proof \cup JobStatuses

VARIABLES
  lane, size,       \* the job's transport and the rendered size of its shards
  raw,              \* shards whose text is not the normalised one
  maxRetries,       \* ledger.max_retries
  starter, stale,   \* where corpusStartAsync is, and the ledger it read
  job, rows,        \* ledger.json
  noted,            \* shards with a checkpoint: all of them succeeded
  output, proof,    \* the published files, None where there is none
  memory,           \* the translation memory's rows for the shards' inputs
  approved, signed, \* history: what owners signed; the payload signed for this job
  edited,           \* shards whose input is no longer what the manifest declares
  pc, intent,       \* the holder of the worker lock
  fresh,            \* whether it is the starter, with the signed receipt
  mem, memJob,      \* its ledger
  left, batch,      \* shards its loop has not come to; shards of its child run
  commit,           \* the shard it commits
  child,            \* the child runs in the order of their ids: their items' results
  sent,             \* history: how often a shard was sent
  crashes, faults, changes

settingVars == <<lane, size, raw, maxRetries>>
startVars   == <<starter, stale>>
ledgerVars  == <<job, rows, noted>>
fileVars    == <<output, proof>>
memoryVars  == <<memory, approved, signed>>
holderVars  == <<intent, fresh>>
passVars    == <<left, batch, commit>>
childVars   == <<child, sent>>
boundVars   == <<crashes, faults, changes>>
vars == <<settingVars, startVars, ledgerVars, fileVars, memoryVars, edited, pc, holderVars,
          mem, memJob, passVars, childVars, boundVars>>

Open     == {"pending", "running"}
Statuses == Open \cup {"succeeded", "failed", "quarantined", "cancelled"}
Final    == {"succeeded", "quarantined", "cancelled"}
\* run: the processor_run_id, 0 for null
Row      == [status : Statuses, attempts : Nat, retry : {"null", "later", "due"}, run : Nat]
Ledger   == [job : JobStatuses, rows : [Shards -> Row]]
Places   == {"free", "reading", "reconciling", "looking", "hitting", "leasing", "leased",
             "preparing", "submitting", "sending", "collecting", "ending", "saving",
             "output", "proof", "checkpoint", "reviewing"}

NewRow    == [status |-> "pending", attempts |-> 0, retry |-> "null", run |-> 0]
NewLedger == [job |-> "running", rows |-> [s \in Shards |-> NewRow]]
Unworked  == [shard |-> None, text |-> None, back |-> "free"]

TypeOK ==
  /\ lane \in Lanes /\ size \in [Shards -> Nat \ {0}] /\ raw \subseteq Shards /\ maxRetries \in Nat
  /\ starter \in {"none", "manifest", "ledger", "waiting", "done"} /\ stale \in Ledger
  /\ job \in JobStatuses \cup {None}
  /\ rows \in [Shards -> Row] /\ noted \subseteq Shards
  /\ output \in [Shards -> Texts \cup {None}]
  /\ proof \in [Shards -> Proof \cup {None}]
  /\ memory \in [Shards -> MemoryRow \cup {None}] /\ approved \subseteq Shards \X Texts
  /\ signed \in {None} \cup [Shards -> Texts] /\ edited \subseteq Shards
  /\ pc \in Places /\ intent \in {"resume", "cancel", "commit"} /\ fresh \in BOOLEAN
  /\ mem \in [Shards -> Row] /\ memJob \in JobStatuses
  /\ left \subseteq Shards /\ batch \subseteq Shards
  /\ commit = Unworked \/ commit \in [shard : Shards, text : Texts, back : Places]
  /\ \A i \in 1 .. Len(child) : child[i] \in [Shards -> Texts \cup {None}]
  /\ \A s \in Shards : rows[s].run <= Len(child) /\ mem[s].run <= Len(child)
  /\ sent \in [Shards -> Nat]
  /\ crashes \in Nat /\ faults \in Nat /\ changes \in Nat /\ crashes + faults + changes <= MaxMishaps

-----------------------------------------------------------------------------
(* Helpers *)

Total(some) == MapThenSumSet(LAMBDA s : size[s], some)

\* deepSeekCorpusFitsSingleBatch
FitsSingleBatch == Cardinality(Shards) <= BatchCap /\ Total(Shards) <= ByteCap

Init ==
  /\ lane \in Lanes
  /\ \E setting \in Settings :
       size = setting.size /\ raw = setting.raw /\ memory = setting.memory /\ maxRetries = setting.retries
  /\ starter = "none" /\ stale = NewLedger
  /\ job = None /\ rows = NewLedger.rows /\ noted = {}
  /\ output = [s \in Shards |-> None] /\ proof = [s \in Shards |-> None]
  /\ approved = {<<s, memory[s].text>> : s \in {r \in Shards : memory[r] # None /\ memory[r].reviewed}}
  /\ signed = None /\ edited = {}
  /\ pc = "free" /\ intent = "resume" /\ fresh = FALSE
  /\ mem = NewLedger.rows /\ memJob = "running"
  /\ left = {} /\ batch = {} /\ commit = Unworked
  /\ child = <<>> /\ sent = [s \in Shards |-> 0]
  /\ crashes = 0 /\ faults = 0 /\ changes = 0

\* What the code writes into a shard's row.
Leased(row)      == [row EXCEPT !.status = "running", !.attempts = @ + 1]
Succeeded(row)   == [row EXCEPT !.status = "succeeded", !.retry = "null"]
Quarantined(row) == [row EXCEPT !.status = "quarantined", !.retry = "null"]
Failed(row) ==
  [row EXCEPT !.status = "failed", !.retry = IF row.attempts < maxRetries THEN "later" ELSE "null"]
Cancelled(row) == IF row.status \in Open THEN [row EXCEPT !.status = "cancelled"] ELSE row

OnlyIn(some, ledger, f(_)) == [s \in Shards |-> IF s \in some THEN f(ledger[s]) ELSE ledger[s]]
Exhausted(row)    == row.status = "failed" /\ row.attempts >= maxRetries
First(some)       == Min(some)

\* ensureShardSources, assertShardInputsSafe, verifySourceIntegrity and
\* verifyInlineShardIntegrity find what the manifest declares.
SourcesIntact == edited = {}

\* readShardInput and verifyShardInputIntegrity, of a shard read later in the pass.
InputIntact(s) == s \notin edited

\* readLedger: the checkpoints are laid over the rows.
View == OnlyIn(noted, rows, Succeeded)

\* recoverCompletedShardProofs: output and proof of a shard that is not final.
Recoverable(s) == mem[s].status \notin Final /\ output[s] # None /\ proof[s] # None

\* The input hash in a proof is that of the text, and after a hit of the normalised text.
HashesInput(s) == proof[s].memory => s \notin raw

\* What recovery and validation compare a proof with: the shard's output and its text.
ProofHolds(s) == proof[s].text = output[s] /\ HashesInput(s)

\* Mutant: a failed shard whose retries are not exhausted does not keep a job running.
FinalStatus_RetriesForgotten(ledger) ==
  IF \E s \in Shards : Exhausted(ledger[s]) \/ ledger[s].status = "quarantined" THEN "failed"
  ELSE IF \E s \in Shards : ledger[s].status \in Open THEN "running"
  ELSE "completed"

\* finaliseLedgerStatus
FinalStatus(ledger) ==
  IF \E s \in Shards : Exhausted(ledger[s]) \/ ledger[s].status = "quarantined" THEN "failed"
  ELSE IF \E s \in Shards : ledger[s].status \in Open \cup {"failed"} THEN "running"
  ELSE "completed"

\* Mutant: the manifest is stored with the signed receipt.
Authorised_ReceiptStored == TRUE

\* A live run needs the signed receipt (redactCorpusApprovalReceipt).
Authorised == lane = "live" => fresh

\* Shards that were sent and whose run's results are not in the ledger.
Interrupted == {s \in Shards : mem[s].status = "running" /\ mem[s].run # 0}

\* Mutant: a shard that is running is left to the run it was leased for.
Candidate_NotRunning(row) ==
  row.status \notin Final \cup {"running"} /\ (row.status = "failed" => row.retry # "later" /\ row.attempts < maxRetries)

\* A candidate is not final, and when failed is due and has attempts left; the
\* first BatchCap of them are taken.  A shard leased for a run that got no id is one.
Candidate(row) ==
  row.status \notin Final /\ (row.status = "failed" => row.retry # "later" /\ row.attempts < maxRetries)
Candidates ==
  LET all == {s \in Shards : Candidate(mem[s])}
  IN  {s \in all : Cardinality({r \in all : r <= s}) <= BatchCap}

\* The batch is cut before the shard that would exceed the byte cap; a shard that
\* exceeds it alone is set aside, if the loop comes to it.
Upto(some, s)  == {r \in some : r <= s /\ size[r] <= ByteCap}
Reached(some)  == {s \in some : \A r \in Upto(some, s) : r < s => Total(Upto(some, r)) <= ByteCap}
Selected(some) == {s \in some : size[s] <= ByteCap /\ Total(Upto(some, s)) <= ByteCap}
Oversized(some) == {s \in Reached(some) : size[s] > ByteCap}

\* The call returns or throws: the lock is free, and the process forgets its ledger.
Release ==
  /\ pc' = "free" /\ intent' = "resume" /\ fresh' = FALSE
  /\ mem' = NewLedger.rows /\ memJob' = "running"
  /\ left' = {} /\ batch' = {} /\ commit' = Unworked
  /\ starter' = IF fresh THEN "done" ELSE starter
  /\ stale' = IF fresh THEN NewLedger ELSE stale

\* It goes on, with the ledger it has.
Continue == UNCHANGED <<startVars, holderVars, memJob, left, batch>>

\* finaliseLedgerStatus, before the ledger is written and the call returns.
Conclude(ledger) ==
  /\ mem' = ledger
  /\ memJob' = FinalStatus(ledger)
  /\ pc' = "saving"

-----------------------------------------------------------------------------
(* corpusStartAsync *)

\* A live job is refused before any of its state exists unless it is one batch.
StartManifest ==
  /\ starter = "none" /\ SourcesIntact
  /\ lane = "live" => FitsSingleBatch
  /\ starter' = "manifest"
  /\ UNCHANGED <<settingVars, stale, ledgerVars, fileVars, memoryVars, edited, pc, holderVars, mem, memJob,
                 passVars, childVars, boundVars>>

\* writeLedger; a job that is only enqueued is left to the workers.
StartLedger(enqueueOnly) ==
  /\ starter = "manifest" /\ (enqueueOnly => lane # "live")
  /\ starter' = IF enqueueOnly THEN "done" ELSE "ledger"
  /\ job' = "running" /\ rows' = NewLedger.rows /\ noted' = {}
  /\ UNCHANGED <<settingVars, stale, fileVars, memoryVars, edited, pc, holderVars, mem, memJob,
                 passVars, childVars, boundVars>>

\* readLedger, before the worker lock.
StartRead ==
  /\ starter = "ledger"
  /\ starter' = "waiting"
  /\ stale' = [job |-> job, rows |-> View]
  /\ UNCHANGED <<settingVars, ledgerVars, fileVars, memoryVars, edited, pc, holderVars, mem, memJob,
                 passVars, childVars, boundVars>>

\* The lock is taken and the pass begins with the ledger read before.
StartLocks ==
  /\ starter = "waiting" /\ pc = "free"
  /\ intent' = "resume" /\ fresh' = TRUE
  /\ mem' = stale.rows /\ memJob' = stale.job
  /\ pc' = "reading"
  /\ UNCHANGED <<settingVars, startVars, ledgerVars, fileVars, memoryVars, edited, passVars, childVars, boundVars>>

\* The lock is held: corpusStartAsync throws corpus_job_locked.
StartRefused ==
  /\ starter = "waiting" /\ ~fresh /\ pc # "free"
  /\ starter' = "done" /\ stale' = NewLedger
  /\ UNCHANGED <<settingVars, ledgerVars, fileVars, memoryVars, edited, pc, holderVars, mem, memJob,
                 passVars, childVars, boundVars>>

-----------------------------------------------------------------------------
(* The beginning of a pass *)

\* corpusResumeAsync, a round of corpusWorkAsync, corpusCancel or
\* corpusCommitTranslationMemory takes the lock and reads the ledger.
Begin(what) ==
  /\ pc = "free" /\ job # None
  /\ what = "commit" => signed # None
  /\ intent' = what
  /\ mem' = View /\ memJob' = job
  /\ pc' = "reading"
  /\ UNCHANGED <<settingVars, startVars, ledgerVars, fileVars, memoryVars, edited, fresh, passVars, childVars, boundVars>>

Cancel ==
  /\ pc = "reading" /\ intent = "cancel"
  /\ mem' = OnlyIn(Shards, mem, Cancelled)
  /\ memJob' = "cancelled"
  /\ pc' = "saving"
  /\ UNCHANGED <<settingVars, startVars, ledgerVars, fileVars, memoryVars, edited, holderVars, passVars, childVars, boundVars>>

\* A cancelled job is left alone, and an edited source or a proof that does not match
\* its output and its input ends the call.
StopEarly ==
  /\ pc = "reading" /\ intent = "resume"
  /\ memJob = "cancelled" \/ ~SourcesIntact \/ \E s \in Shards : Recoverable(s) /\ ~ProofHolds(s)
  /\ Release
  /\ UNCHANGED <<settingVars, ledgerVars, fileVars, memoryVars, edited, childVars, boundVars>>

\* Mutant: the status of the ledger is not looked at.
Recover_Cancelled ==
  /\ pc = "reading" /\ intent = "resume"
  /\ SourcesIntact
  /\ \A s \in Shards : Recoverable(s) => ProofHolds(s)
  /\ mem' = OnlyIn({s \in Shards : Recoverable(s)}, mem, Succeeded)
  /\ pc' = "reconciling"
  /\ UNCHANGED <<settingVars, startVars, ledgerVars, fileVars, memoryVars, edited, holderVars, memJob, passVars, childVars, boundVars>>

\* Otherwise the shards whose proofs are on disk are recovered.
Recover ==
  /\ pc = "reading" /\ intent = "resume"
  /\ memJob # "cancelled" /\ SourcesIntact
  /\ \A s \in Shards : Recoverable(s) => ProofHolds(s)
  /\ mem' = OnlyIn({s \in Shards : Recoverable(s)}, mem, Succeeded)
  /\ pc' = "reconciling"
  /\ UNCHANGED <<settingVars, startVars, ledgerVars, fileVars, memoryVars, edited, holderVars, memJob, passVars, childVars, boundVars>>

\* commitShardOutput begins; back is where its caller goes on.
StartCommit(s, t, back) ==
  /\ commit' = [shard |-> s, text |-> t, back |-> back]
  /\ pc' = "output"

\* reconcileInterruptedProcessorRuns: a result the interrupted run completed is
\* committed; a shard without one, or whose result cannot be read, is set aside.
Reconcile ==
  /\ pc = "reconciling" /\ Interrupted # {}
  /\ LET s == First(Interrupted)
         t == child[mem[s].run][s]
     IN  \/ t # None /\ StartCommit(s, t, "reconciling") /\ UNCHANGED mem
         \/ mem' = [mem EXCEPT ![s] = Quarantined(@)] /\ UNCHANGED <<pc, commit>>
  /\ UNCHANGED <<settingVars, startVars, ledgerVars, fileVars, memoryVars, edited, holderVars, memJob, left, batch, childVars, boundVars>>

\* Nothing is submitted live without the receipt; otherwise the candidates are taken.
Gate ==
  /\ pc = "reconciling" /\ Interrupted = {}
  /\ IF ~Authorised /\ \E s \in Shards : mem[s].status \in {"pending", "failed"}
     THEN Conclude(mem) /\ UNCHANGED <<left, batch>>
     ELSE /\ left' = Candidates /\ batch' = Candidates
          /\ pc' = "looking"
          /\ UNCHANGED <<mem, memJob>>
  /\ UNCHANGED <<settingVars, startVars, ledgerVars, fileVars, memoryVars, edited, holderVars, commit, childVars, boundVars>>

-----------------------------------------------------------------------------
(* The translation memory *)

\* lookup: only a row with complete review provenance is a hit.
Known(s) == memory[s] # None /\ memory[s].reviewed

\* In the loop of applyTranslationMemoryHits, without and with a hit so far.
Looking == pc \in {"looking", "hitting"}

\* The next candidate's input is read and looked up.
LookUp ==
  /\ Looking /\ left # {} /\ InputIntact(First(left))
  /\ LET s == First(left)
     IN  /\ left' = left \ {s}
         /\ IF Known(s)
            THEN StartCommit(s, memory[s].text, "hitting") /\ batch' = batch \ {s}
            ELSE UNCHANGED <<pc, commit, batch>>
  /\ UNCHANGED <<settingVars, startVars, ledgerVars, fileVars, memoryVars, edited, holderVars, mem, memJob, childVars, boundVars>>

\* verifyShardInputIntegrity throws: the call ends without its ledger.
InputRefused ==
  /\ \/ Looking /\ left # {} /\ ~InputIntact(First(left))
     \/ pc = "leasing" /\ \E s \in Reached(batch) : ~InputIntact(s)
  /\ Release
  /\ UNCHANGED <<settingVars, ledgerVars, fileVars, memoryVars, edited, childVars, boundVars>>

\* The ledger is written when there was a hit; with no candidate left it is final.
Looked ==
  /\ Looking /\ left = {}
  /\ IF pc = "hitting"
     THEN job' = memJob /\ rows' = mem /\ noted' = {}
     ELSE UNCHANGED <<job, rows, noted>>
  /\ IF batch = {} THEN Conclude(mem) ELSE pc' = "leasing" /\ UNCHANGED <<mem, memJob>>
  /\ UNCHANGED <<settingVars, startVars, fileVars, memoryVars, edited, holderVars, passVars, childVars, boundVars>>

-----------------------------------------------------------------------------
(* The child run *)

\* The batch is read, verified, cut to the byte cap and leased, in memory.
Lease ==
  /\ pc = "leasing" /\ \A s \in Reached(batch) : InputIntact(s)
  /\ mem' = OnlyIn(Selected(batch), OnlyIn(Oversized(batch), mem, Quarantined), Leased)
  /\ batch' = Selected(batch)
  /\ pc' = "leased"
  /\ UNCHANGED <<settingVars, startVars, ledgerVars, fileVars, memoryVars, edited, holderVars, memJob, left, commit, childVars, boundVars>>

\* The ledger is written with the leases, ...
SaveLeases ==
  /\ pc = "leased"
  /\ job' = memJob /\ rows' = mem /\ noted' = {}
  /\ IF batch = {} THEN Conclude(mem) ELSE pc' = "preparing" /\ UNCHANGED <<mem, memJob>>
  /\ UNCHANGED <<settingVars, startVars, fileVars, memoryVars, edited, holderVars, passVars, childVars, boundVars>>

\* ... and again with the id of the run, before the run is submitted.
PrepareRun ==
  /\ pc = "preparing"
  /\ child' = Append(child, [s \in Shards |-> None])
  /\ mem' = [s \in Shards |-> IF s \in batch THEN [mem[s] EXCEPT !.run = Len(child')] ELSE mem[s]]
  /\ job' = memJob /\ rows' = mem' /\ noted' = {}
  /\ pc' = "submitting"
  /\ UNCHANGED <<settingVars, startVars, fileVars, memoryVars, edited, holderVars, memJob, passVars, sent, boundVars>>

\* An error of the run or of a commit: the shards that have not succeeded fail.
BatchFails ==
  /\ mem' = OnlyIn({s \in batch : mem[s].status # "succeeded"}, mem, Failed)
  /\ commit' = Unworked /\ left' = {}
  /\ pc' = "ending"

\* submitManifest: a redacted receipt is refused.
Submit ==
  /\ pc = "submitting"
  /\ IF Authorised
     THEN left' = batch /\ pc' = "sending" /\ UNCHANGED <<mem, commit>>
     ELSE BatchFails
  /\ UNCHANGED <<settingVars, startVars, ledgerVars, fileVars, memoryVars, edited, holderVars, memJob, batch, childVars, boundVars>>

\* The child run sends an item and stores its result, or its failure.
Send(s, t) ==
  /\ pc = "sending" /\ s \in left
  /\ sent' = [sent EXCEPT ![s] = @ + 1]
  /\ child' = [child EXCEPT ![Len(child)][s] = t]
  /\ left' = left \ {s}
  /\ UNCHANGED <<settingVars, startVars, ledgerVars, fileVars, memoryVars, edited, pc, holderVars, mem, memJob, batch, commit, boundVars>>

RunEnds ==
  /\ pc = "sending" /\ left = {}
  /\ left' = batch
  /\ pc' = "collecting"
  /\ UNCHANGED <<settingVars, startVars, ledgerVars, fileVars, memoryVars, edited, holderVars, mem, memJob, batch, commit, childVars, boundVars>>

\* The results are committed in order; a shard without one fails.
Collect ==
  /\ pc = "collecting" /\ left # {}
  /\ LET s == First(left)
         t == child[Len(child)][s]
     IN  /\ left' = left \ {s}
         /\ \/ t # None /\ StartCommit(s, t, "collecting") /\ UNCHANGED mem
            \/ t = None /\ mem' = [mem EXCEPT ![s] = Failed(@)] /\ UNCHANGED <<pc, commit>>
  /\ UNCHANGED <<settingVars, startVars, ledgerVars, fileVars, memoryVars, edited, holderVars, memJob, batch, childVars, boundVars>>

Collected ==
  /\ pc = "collecting" /\ left = {}
  /\ pc' = "ending"
  /\ UNCHANGED <<settingVars, startVars, ledgerVars, fileVars, memoryVars, edited, holderVars, mem, memJob, passVars, childVars, boundVars>>

\* Shards that failed as often as they may are quarantined, and the ledger is final.
End ==
  /\ pc = "ending"
  /\ Conclude(OnlyIn({s \in Shards : Exhausted(mem[s])}, mem, Quarantined))
  /\ UNCHANGED <<settingVars, startVars, ledgerVars, fileVars, memoryVars, edited, holderVars, passVars, childVars, boundVars>>

\* writeLedger; the lock is released.
Save ==
  /\ pc = "saving"
  /\ job' = memJob /\ rows' = mem /\ noted' = {}
  /\ Release
  /\ UNCHANGED <<settingVars, fileVars, memoryVars, edited, childVars, boundVars>>

-----------------------------------------------------------------------------
(* commitShardOutput *)

\* A publication fails.  Among the results of a run it fails the batch; a memory hit
\* or a recovered result lets the error through, and the pass ends without its ledger.
CommitFails ==
  IF commit.back = "collecting" THEN BatchFails /\ UNCHANGED <<startVars, holderVars, memJob, batch>> ELSE Release

\* The output is linked into place unless another text is there, and the row has succeeded, ...
PublishOutput ==
  /\ pc = "output"
  /\ IF output[commit.shard] \in {None, commit.text}
     THEN /\ output' = [output EXCEPT ![commit.shard] = commit.text]
          /\ mem' = [mem EXCEPT ![commit.shard] = Succeeded(@)]
          /\ pc' = "proof"
          /\ Continue /\ UNCHANGED commit
     ELSE CommitFails /\ UNCHANGED output
  /\ UNCHANGED <<settingVars, ledgerVars, proof, memoryVars, edited, childVars, boundVars>>

\* ... before the proof is, ...
PublishProof ==
  /\ pc = "proof"
  /\ IF proof[commit.shard] = None
     THEN /\ proof' = [proof EXCEPT ![commit.shard] = [text |-> commit.text, memory |-> commit.back = "hitting"]]
          /\ pc' = "checkpoint"
          /\ Continue /\ UNCHANGED <<mem, commit>>
     ELSE CommitFails /\ UNCHANGED proof
  /\ UNCHANGED <<settingVars, ledgerVars, output, memoryVars, edited, childVars, boundVars>>

\* ... and the checkpoint after it.
WriteCheckpoint ==
  /\ pc = "checkpoint"
  /\ noted' = noted \cup {commit.shard}
  /\ pc' = commit.back /\ commit' = Unworked
  /\ Continue
  /\ UNCHANGED <<settingVars, job, rows, fileVars, memoryVars, edited, mem, childVars, boundVars>>

-----------------------------------------------------------------------------
(* The owner's review of the translations *)

\* corpusValidate: every shard has succeeded, and its proof matches its output and input.
Validated(ledger) ==
  /\ SourcesIntact
  /\ \A s \in Shards : /\ ledger[s].status = "succeeded"
                       /\ output[s] # None /\ proof[s] # None /\ ProofHolds(s)

\* validateTranslationReviewReceipt: the receipt signs the translations as they are.
ReceiptMatches == signed = output

\* commitReviewedBatch: a row for every shard, with the receipt, in one transaction.
Remembered == [s \in Shards |-> [text |-> output[s], reviewed |-> TRUE]]

\* corpusTranslationReviewPacket: the owner reads the job's translations and signs them.
OwnerSigns ==
  /\ job # None /\ Validated(View)
  /\ signed' = output
  /\ approved' = approved \cup {<<s, output[s]>> : s \in Shards}
  /\ UNCHANGED <<settingVars, startVars, ledgerVars, fileVars, memory, edited, pc, holderVars, mem, memJob,
                 passVars, childVars, boundVars>>

\* corpusCommitTranslationMemory: the job validates, and its content is what the
\* receipt signs ...
Review ==
  /\ pc = "reading" /\ intent = "commit"
  /\ IF Validated(mem) /\ ReceiptMatches
     THEN pc' = "reviewing" /\ Continue /\ UNCHANGED <<mem, commit>>
     ELSE Release
  /\ UNCHANGED <<settingVars, ledgerVars, fileVars, memoryVars, edited, childVars, boundVars>>

\* Mutant: the translations are not compared with the signed digests again.
CommitMemory_Unchecked ==
  /\ pc = "reviewing"
  /\ memory' = Remembered
  /\ Release
  /\ UNCHANGED <<settingVars, ledgerVars, fileVars, approved, signed, edited, childVars, boundVars>>

\* ... and is still so when it is read again for the memory.
CommitMemory ==
  /\ pc = "reviewing"
  /\ IF SourcesIntact /\ ReceiptMatches THEN memory' = Remembered ELSE UNCHANGED memory
  /\ Release
  /\ UNCHANGED <<settingVars, ledgerVars, fileVars, approved, signed, edited, childVars, boundVars>>

-----------------------------------------------------------------------------
(* Time, edits from outside and failures *)

MayFail == crashes + faults + changes < MaxMishaps

Due(row) == IF row.retry = "later" THEN [row EXCEPT !.retry = "due"] ELSE row

\* Every copy of a shard's next_retry_at is in the past.
BackoffElapses(s) ==
  /\ rows' = [rows EXCEPT ![s] = Due(@)] /\ mem' = [mem EXCEPT ![s] = Due(@)]
  /\ stale' = [stale EXCEPT !.rows[s] = Due(@)]
  /\ UNCHANGED <<settingVars, starter, job, noted, fileVars, memoryVars, edited, pc, holderVars, memJob,
                 passVars, childVars, boundVars>>

EditSource(s) ==
  /\ MayFail /\ s \notin edited
  /\ edited' = edited \cup {s} /\ changes' = changes + 1
  /\ UNCHANGED <<settingVars, startVars, ledgerVars, fileVars, memoryVars, pc, holderVars, mem, memJob,
                 passVars, childVars, crashes, faults>>

EditOutput(s, t) ==
  /\ MayFail /\ output[s] \notin {None, t}
  /\ output' = [output EXCEPT ![s] = t] /\ changes' = changes + 1
  /\ UNCHANGED <<settingVars, startVars, ledgerVars, proof, memoryVars, edited, pc, holderVars, mem, memJob,
                 passVars, childVars, crashes, faults>>

\* The holder of the lock dies, or a call outside the try block throws.
Stop ==
  /\ pc # "free"
  /\ \/ MayFail /\ crashes' = crashes + 1 /\ UNCHANGED faults
     \/ /\ pc \notin {"submitting", "sending", "collecting", "output", "proof", "checkpoint"}
        /\ MayFail /\ faults' = faults + 1 /\ UNCHANGED crashes
  /\ Release
  /\ UNCHANGED <<settingVars, ledgerVars, fileVars, memoryVars, edited, childVars, changes>>

\* The starter dies before it has the lock.
CrashStarter ==
  /\ starter \in {"manifest", "ledger", "waiting"} /\ ~fresh /\ MayFail
  /\ crashes' = crashes + 1
  /\ starter' = "done" /\ stale' = NewLedger
  /\ UNCHANGED <<settingVars, ledgerVars, fileVars, memoryVars, edited, pc, holderVars, mem, memJob,
                 passVars, childVars, faults, changes>>

\* The run is refused or throws, or its results cannot be read.
RunFault ==
  /\ pc \in {"submitting", "sending", "collecting"} /\ MayFail
  /\ faults' = faults + 1
  /\ BatchFails
  /\ UNCHANGED <<settingVars, startVars, ledgerVars, fileVars, memoryVars, edited, holderVars, memJob, batch, childVars, crashes, changes>>

\* A publication throws.
CommitFault ==
  /\ pc \in {"output", "proof", "checkpoint"} /\ MayFail
  /\ faults' = faults + 1
  /\ CommitFails
  /\ UNCHANGED <<settingVars, ledgerVars, fileVars, memoryVars, edited, childVars, crashes, changes>>

-----------------------------------------------------------------------------
Starter == StartManifest \/ (\E e \in BOOLEAN : StartLedger(e)) \/ StartRead \/ StartLocks \/ StartRefused

HolderStep ==
  \/ Cancel \/ StopEarly \/ Recover \/ Reconcile \/ Gate
  \/ LookUp \/ InputRefused \/ Looked
  \/ Lease \/ SaveLeases \/ PrepareRun \/ Submit
  \/ \E s \in Shards, t \in Texts \cup {None} : Send(s, t)
  \/ RunEnds \/ Collect \/ Collected \/ End \/ Save
  \/ PublishOutput \/ PublishProof \/ WriteCheckpoint \/ Review \/ CommitMemory

Fault == Stop \/ CrashStarter \/ RunFault \/ CommitFault

Edit == \E s \in Shards : EditSource(s) \/ \E t \in Texts : EditOutput(s, t)

Next ==
  \/ Starter \/ HolderStep \/ Fault \/ Edit \/ OwnerSigns
  \/ \E what \in {"resume", "cancel", "commit"} : Begin(what)
  \/ \E s \in Shards : BackoffElapses(s)

Spec == Init /\ [][Next]_vars

\* A process that has the lock goes on; the supervisor resumes a job for as long as
\* its ledger says running, and gets the lock between the calls of others; clocks advance.
Fairness ==
  /\ WF_vars(HolderStep) /\ SF_vars(job = "running" /\ Begin("resume"))
  /\ \A s \in Shards : WF_vars(BackoffElapses(s))

FairSpec == Spec /\ Fairness
-----------------------------------------------------------------------------
(* Properties *)

\* No crash, error, retry or resume sends a shard live a second time: the signed
\* receipt is in the starter's memory only, and an interrupted run is left to its
\* owner (corpus.ts:1425 "signed authority is not persisted").
LiveSentOnce == lane = "live" => \A s \in Shards : sent[s] <= 1

\* The translation memory holds as reviewed, and a job takes from it, only what an
\* owner signed, however the files change between the review and the commit
\* (docs: "owner-signed review receipt"; corpus.ts:838-842).
MemoryIsApproved ==
  \A s \in Shards :
    /\ memory[s] # None /\ memory[s].reviewed => <<s, memory[s].text>> \in approved
    /\ proof[s] # None /\ proof[s].memory => <<s, proof[s].text>> \in approved

\* A completed job has every shard succeeded with its output, and its proof unless a
\* publication failed: among the results of a run the row says succeeded before the
\* proof is written, and the error leaves it so (corpus.ts:1580, 1768).
CompletedIsCertified ==
  job = "completed" =>
    \A s \in Shards :
      /\ View[s].status = "succeeded" /\ output[s] # None
      /\ faults = 0 => proof[s] # None
      /\ proof[s] # None /\ changes = 0 => proof[s].text = output[s]

\* A cancelled job is neither revived nor sent, except by the start that read its
\* ledger before the cancellation and waited for the lock (corpus.ts:213-220).
CancelledUnlessStale ==
  [][job = "cancelled" => (job' = "cancelled" /\ sent' = sent) \/ (fresh /\ stale.job # "cancelled")]_vars

\* An interrupted run yielded another text than the one already published for a shard.
Conflicted ==
  \E s \in Shards : /\ rows[s].status = "running" /\ rows[s].run # 0
                    /\ output[s] # None /\ child[rows[s].run][s] \notin {None, output[s]}

\* A pass ended after it had published a memory hit and before the shard was entered in the
\* ledger; the text is not the normalised one, so the hash in the proof is not the text's.
Stranded ==
  pc = "free" /\ \E s \in Shards : View[s].status \notin Final /\ proof[s] # None /\ ~HashesInput(s)

\* A job without live authority that is worked on whenever it says running concludes,
\* unless its files are edited or conflict, or a memory hit is stranded: a pass then stops
\* at the same error each time.  Files conflict when a stale start sent again what a dead
\* worker had sent, and died in turn.
DryJobConcludes ==
  (job = "running" /\ lane = "dry") ~> (job # "running" \/ changes > 0 \/ Conflicted \/ Stranded)

\* docs/corpus-heavy-workloads.md:15 says "Shard publication is crash-recoverable": a job
\* that nobody edits and whose files do not conflict concludes, wherever its passes die.  The
\* code does not keep this: it is DryJobConcludes without the exception Stranded.
PublicationsAreRecovered ==
  (job = "running" /\ lane = "dry") ~> (job # "running" \/ changes > 0 \/ Conflicted)
=============================================================================
