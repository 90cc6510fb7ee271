---------------------------- MODULE CorpusLedger ----------------------------
(***************************************************************************)
(* One corpus job of a synchronous processor (copy_text, local_ocr): its   *)
(* ledger.json, the shard checkpoints laid over it, the published outputs  *)
(* and proofs, and the processes that start, resume and cancel the job     *)
(* (src/corpus.ts).                                                        *)
(*                                                                         *)
(* A pass (corpusResumeSync) reads the ledger into memory, works on at     *)
(* most BatchCap shards, and writes the ledger back.  What it does to a    *)
(* shard meanwhile is on disk as output, proof and checkpoint only.  Every *)
(* publication (link or rename of a flushed temporary file) is a step, and *)
(* the process may die, or the call may throw, before any of them.         *)
(*                                                                         *)
(* The job's worker lock is abstracted to Exclusive: module WorkerLock     *)
(* says when it excludes, and with Exclusive = FALSE two processes work at *)
(* once.  corpusStart writes the first ledger without the lock.            *)
(***************************************************************************)
EXTENDS Integers, FiniteSets

CONSTANTS
  Shards,       \* shard ids; the ledger's order is the order on Nat
  Workers,      \* processes that may resume or cancel the job
  Texts,        \* what processing a shard may yield; OCR need not yield the same twice
  Truncates,    \* pairs <<t, u>> of texts, t a proper prefix of u
  MaxRetries,   \* ledger.max_retries
  BatchCap,     \* ledger.max_shards_per_batch
  Exclusive,    \* whether the worker lock excludes
  MaxCrashes,   \* bound on process deaths
  MaxFaults,    \* bound on calls that throw: extraction, publication, checkpoint, ledger
  None          \* no file

ASSUME ShardsAssumption == Shards \subseteq Nat /\ IsFiniteSet(Shards)
ASSUME TextsAssumption == None \notin Texts /\ Truncates \subseteq Texts \X Texts
ASSUME LimitsAssumption == MaxRetries \in Nat /\ BatchCap \in Nat \ {0}
ASSUME SettingAssumption == Exclusive \in BOOLEAN /\ MaxCrashes \in Nat /\ MaxFaults \in Nat

VARIABLES
  starter,      \* where corpusStartSync is
  job,          \* ledger.status in ledger.json, None before the file exists
  rows,         \* the shards of ledger.json
  checkpoint,   \* shard-checkpoints/, None where there is no file
  output,       \* the text in outputs/, None where there is no file
  proof,        \* the text whose digest the file in proof/ certifies, None likewise
  pc, intent,   \* where each process is, and whether it resumes or cancels
  mem, memJob,  \* the ledger in a process's memory
  left, done,   \* shards the pass has not come to, and how many it processed
  cur, text,    \* the shard in work and what its processing yielded
  runs,         \* history: how often a shard was processed
  crashes, faults

diskVars   == <<job, rows, checkpoint, output, proof>>
passVars   == <<left, done, cur, text>>
memVars    == <<mem, memJob>>
boundVars  == <<crashes, faults>>
vars == <<starter, diskVars, pc, intent, memVars, passVars, runs, boundVars>>

Open     == {"pending", "running"}
Statuses == Open \cup {"succeeded", "failed", "quarantined", "cancelled"}
\* next_retry_at: absent, in the future, or past
Retries  == {"null", "later", "due"}
Row      == [status : Statuses, attempts : Nat, retry : Retries]
JobStatuses == {"running", "completed", "failed", "cancelled"}
Places   == {"idle", "reading", "passing", "working", "publishing", "proving",
             "committing", "noting", "ending", "saving", "clearing"}

ASSUME NoneAssumption == None \notin Row /\ None \notin JobStatuses

NewRow == [status |-> "pending", attempts |-> 0, retry |-> "null"]

TypeOK ==
  /\ starter \in {"none", "manifest", "ledger", "done"}
  /\ job \in JobStatuses \cup {None}
  /\ rows \in [Shards -> Row]
  /\ checkpoint \in [Shards -> Row \cup {None}]
  /\ output \in [Shards -> Texts \cup {None}]
  /\ proof \in [Shards -> Texts \cup {None}]
  /\ pc \in [Workers -> Places]
  /\ intent \in [Workers -> {"resume", "cancel"}]
  /\ mem \in [Workers -> [Shards -> Row]]
  /\ memJob \in [Workers -> JobStatuses]
  /\ left \in [Workers -> SUBSET Shards]
  /\ done \in [Workers -> 0 .. BatchCap]
  /\ cur \in [Workers -> Shards \cup {None}]
  /\ text \in [Workers -> Texts \cup {None}]
  /\ runs \in [Shards -> Nat]
  /\ crashes \in 0 .. MaxCrashes /\ faults \in 0 .. MaxFaults
  /\ \A s \in Shards : checkpoint[s] # None => checkpoint[s].status \notin Open

Init ==
  /\ starter = "none"
  /\ job = None
  /\ rows = [s \in Shards |-> NewRow]
  /\ checkpoint = [s \in Shards |-> None]
  /\ output = [s \in Shards |-> None]
  /\ proof = [s \in Shards |-> None]
  /\ pc = [w \in Workers |-> "idle"]
  /\ intent = [w \in Workers |-> "resume"]
  /\ mem = [w \in Workers |-> [s \in Shards |-> NewRow]]
  /\ memJob = [w \in Workers |-> "running"]
  /\ left = [w \in Workers |-> {}]
  /\ done = [w \in Workers |-> 0]
  /\ cur = [w \in Workers |-> None]
  /\ text = [w \in Workers |-> None]
  /\ runs = [s \in Shards |-> 0]
  /\ crashes = 0 /\ faults = 0

-----------------------------------------------------------------------------
(* Helpers *)

Goto(w, place)  == pc' = [pc EXCEPT ![w] = place]
NoCheckpoints   == [s \in Shards |-> None]

\* applyShardCheckpoints: a shard's checkpoint replaces its row.
Overlay(ledger) == [s \in Shards |-> IF checkpoint[s] = None THEN ledger[s] ELSE checkpoint[s]]

\* What the code writes into a shard's row: leased and running, committed or
\* recovered, out of retries, failed (markShardFailed), cancelled if under way.
Leased(row)      == [row EXCEPT !.status = "running", !.attempts = @ + 1]
Succeeded(row)   == [row EXCEPT !.status = "succeeded", !.retry = "null"]
Quarantined(row) == [row EXCEPT !.status = "quarantined", !.retry = "null"]
Failed(row) ==
  [row EXCEPT !.status = "failed", !.retry = IF row.attempts < MaxRetries THEN "later" ELSE "null"]
Cancelled(row) == IF row.status \in Open THEN [row EXCEPT !.status = "cancelled"] ELSE row

\* Mutant: recovery leaves the failed shards to their retries.
Recovered_NotFailed(ledger) ==
  [s \in Shards |->
    IF ledger[s].status \in Open /\ output[s] # None /\ proof[s] # None
    THEN Succeeded(ledger[s])
    ELSE ledger[s]]

\* recoverCompletedShardProofs: a shard that is neither final nor set aside and has
\* its output and proof on disk has succeeded, whatever its row says.
Recovered(ledger) ==
  [s \in Shards |->
    IF ledger[s].status \in Open \cup {"failed"} /\ output[s] # None /\ proof[s] # None
    THEN Succeeded(ledger[s])
    ELSE ledger[s]]

\* Mutant: the comparison with Date.now() is the wrong way round.
RetryDue_Inverted(row) == row.retry \in {"null", "later"}

RetryDue(row) == row.retry # "later"

\* Mutant: off by one, attempts > max_retries.
Exhausted_OffByOne(row) == row.status = "failed" /\ row.attempts > MaxRetries

Exhausted(row) == row.status = "failed" /\ row.attempts >= MaxRetries

\* The rows the pass does not skip.
Workable(row) == row.status \in Open \/ (row.status = "failed" /\ RetryDue(row))

\* Mutant: only the failed rows make a job failed.
FinalStatus_QuarantinedIgnored(ledger) ==
  IF \E s \in Shards : Exhausted(ledger[s]) THEN "failed"
  ELSE IF \E s \in Shards : ledger[s].status \in Open \cup {"failed"} THEN "running"
  ELSE "completed"

\* finaliseLedgerStatus
FinalStatus(ledger) ==
  IF \E s \in Shards : Exhausted(ledger[s]) \/ ledger[s].status = "quarantined" THEN "failed"
  ELSE IF \E s \in Shards : ledger[s].status \in Open \cup {"failed"} THEN "running"
  ELSE "completed"

\* writeShardArtifactNoClobber: nothing there, the same bytes, or a truncated remnant.
MayPublish(file, new) == file \in {None, new} \/ <<file, new>> \in Truncates

-----------------------------------------------------------------------------
(* corpusStartSync, without the worker lock *)

\* The manifest is created exclusively.
StartManifest ==
  /\ starter = "none" /\ job = None
  /\ starter' = "manifest"
  /\ UNCHANGED <<diskVars, pc, intent, memVars, passVars, runs, boundVars>>

\* writeLedger renames the first ledger into place, ...
StartLedger ==
  /\ starter = "manifest"
  /\ starter' = "ledger"
  /\ job' = "running"
  /\ rows' = [s \in Shards |-> NewRow]
  /\ UNCHANGED <<checkpoint, output, proof, pc, intent, memVars, passVars, runs, boundVars>>

\* ... and then removes the checkpoints, another process's included.
StartClear ==
  /\ starter = "ledger"
  /\ starter' = "done"
  /\ checkpoint' = NoCheckpoints
  /\ UNCHANGED <<job, rows, output, proof, pc, intent, memVars, passVars, runs, boundVars>>

-----------------------------------------------------------------------------
(* The beginning of a pass *)

\* corpusResume or corpusCancel takes the worker lock and reads ledger.json, ...
Begin(w, what) ==
  /\ pc[w] = "idle" /\ job # None
  /\ Exclusive => \A v \in Workers : pc[v] = "idle"
  /\ intent' = [intent EXCEPT ![w] = what]
  /\ mem' = [mem EXCEPT ![w] = rows]
  /\ memJob' = [memJob EXCEPT ![w] = job]
  /\ Goto(w, "reading")
  /\ UNCHANGED <<starter, diskVars, passVars, runs, boundVars>>

\* Mutant: a pass does not look at the status of the job it read.
Resume_Cancelled(w) ==
  /\ pc[w] = "reading" /\ intent[w] = "resume"
  /\ mem' = [mem EXCEPT ![w] = Recovered(Overlay(@))]
  /\ left' = [left EXCEPT ![w] = Shards]
  /\ done' = [done EXCEPT ![w] = 0]
  /\ Goto(w, "passing")
  /\ UNCHANGED <<starter, diskVars, intent, memJob, cur, text, runs, boundVars>>

\* ... then the checkpoints.  A pass over a job that is not cancelled goes on to
\* recover the shards whose proofs are on disk.
Resume(w) ==
  /\ pc[w] = "reading" /\ intent[w] = "resume"
  /\ IF memJob[w] = "cancelled"
     THEN Goto(w, "idle") /\ UNCHANGED <<mem, left, done>>
     ELSE /\ mem' = [mem EXCEPT ![w] = Recovered(Overlay(@))]
          /\ left' = [left EXCEPT ![w] = Shards]
          /\ done' = [done EXCEPT ![w] = 0]
          /\ Goto(w, "passing")
  /\ UNCHANGED <<starter, diskVars, intent, memJob, cur, text, runs, boundVars>>

Cancel(w) ==
  /\ pc[w] = "reading" /\ intent[w] = "cancel"
  /\ LET ledger == Overlay(mem[w])
     IN  mem' = [mem EXCEPT ![w] = [s \in Shards |-> Cancelled(ledger[s])]]
  /\ memJob' = [memJob EXCEPT ![w] = "cancelled"]
  /\ Goto(w, "saving")
  /\ UNCHANGED <<starter, diskVars, intent, passVars, runs, boundVars>>

-----------------------------------------------------------------------------
(* The loop over the shards *)

\* Mutant: off by one, the loop stops when processed > batchCap.
NextShard_OffByOne(w, s) ==
  /\ pc[w] = "passing" /\ done[w] <= BatchCap
  /\ s \in left[w] /\ Workable(mem[w][s])
  /\ \A r \in left[w] : r < s => ~Workable(mem[w][r])

\* The next shard the loop does not skip.
NextShard(w, s) ==
  /\ pc[w] = "passing" /\ done[w] < BatchCap
  /\ s \in left[w] /\ Workable(mem[w][s])
  /\ \A r \in left[w] : r < s => ~Workable(mem[w][r])

\* A shard that failed as often as it may is quarantined, and checkpointed so.
Quarantine(w, s) ==
  /\ NextShard(w, s) /\ Exhausted(mem[w][s])
  /\ mem' = [mem EXCEPT ![w][s] = Quarantined(@)]
  /\ checkpoint' = [checkpoint EXCEPT ![s] = Quarantined(mem[w][s])]
  /\ left' = [left EXCEPT ![w] = {r \in @ : r > s}]
  /\ UNCHANGED <<starter, job, rows, output, proof, pc, intent, memJob, done, cur, text, runs, boundVars>>

\* processCorpusShard: leased and running, in memory only.
Lease(w, s) ==
  /\ NextShard(w, s) /\ ~Exhausted(mem[w][s])
  /\ mem' = [mem EXCEPT ![w][s] = Leased(@)]
  /\ left' = [left EXCEPT ![w] = {r \in @ : r > s}]
  /\ done' = [done EXCEPT ![w] = @ + 1]
  /\ cur' = [cur EXCEPT ![w] = s]
  /\ runs' = [runs EXCEPT ![s] = @ + 1]
  /\ Goto(w, "working")
  /\ UNCHANGED <<starter, diskVars, intent, memJob, text, boundVars>>

\* The input is read, or the page recognised.
Extract(w, t) ==
  /\ pc[w] = "working"
  /\ text' = [text EXCEPT ![w] = t]
  /\ Goto(w, "publishing")
  /\ UNCHANGED <<starter, diskVars, intent, memVars, left, done, cur, runs, boundVars>>

\* The shard fails: an error anywhere in processCorpusShard's try block.
Fail(w) ==
  /\ mem' = [mem EXCEPT ![w][cur[w]] = Failed(@)]
  /\ Goto(w, "ending")

\* commitShardOutput: the output is linked into place, unless another text is there.
PublishOutput(w) ==
  /\ pc[w] = "publishing"
  /\ IF MayPublish(output[cur[w]], text[w])
     THEN /\ output' = [output EXCEPT ![cur[w]] = text[w]]
          /\ mem' = [mem EXCEPT ![w][cur[w]] = Succeeded(@)]
          /\ Goto(w, "proving")
     ELSE Fail(w) /\ UNCHANGED output
  /\ UNCHANGED <<starter, job, rows, checkpoint, proof, intent, memJob, passVars, runs, boundVars>>

\* Then its proof.  It holds the time of the commit: no two proofs are the same.
PublishProof(w) ==
  /\ pc[w] = "proving"
  /\ IF proof[cur[w]] = None
     THEN proof' = [proof EXCEPT ![cur[w]] = text[w]] /\ Goto(w, "committing") /\ UNCHANGED mem
     ELSE Fail(w) /\ UNCHANGED proof
  /\ UNCHANGED <<starter, job, rows, checkpoint, output, intent, memJob, passVars, runs, boundVars>>

\* writeShardCheckpoint
WriteCheckpoint(w) == checkpoint' = [checkpoint EXCEPT ![cur[w]] = mem[w][cur[w]]]

CommitCheckpoint(w) ==
  /\ pc[w] = "committing"
  /\ WriteCheckpoint(w)
  /\ Goto(w, "noting")
  /\ UNCHANGED <<starter, job, rows, output, proof, intent, memVars, passVars, runs, boundVars>>

\* The shard_succeeded event is the last thing in the try block.
NoteSuccess(w) ==
  /\ pc[w] = "noting"
  /\ Goto(w, "ending")
  /\ UNCHANGED <<starter, diskVars, intent, memVars, passVars, runs, boundVars>>

\* Success or failure, the shard is checkpointed before the loop goes on.
EndShard(w) ==
  /\ pc[w] = "ending"
  /\ WriteCheckpoint(w)
  /\ cur' = [cur EXCEPT ![w] = None]
  /\ text' = [text EXCEPT ![w] = None]
  /\ Goto(w, "passing")
  /\ UNCHANGED <<starter, job, rows, output, proof, intent, memVars, left, done, runs, boundVars>>

-----------------------------------------------------------------------------
(* The end of a pass *)

\* The list or the batch is exhausted: finaliseLedgerStatus.
Finalise(w) ==
  /\ pc[w] = "passing"
  /\ done[w] = BatchCap \/ \A s \in left[w] : ~Workable(mem[w][s])
  /\ memJob' = [memJob EXCEPT ![w] = FinalStatus(mem[w])]
  /\ left' = [left EXCEPT ![w] = {}]
  /\ Goto(w, "saving")
  /\ UNCHANGED <<starter, diskVars, intent, mem, done, cur, text, runs, boundVars>>

\* writeLedger renames the ledger into place, ...
SaveLedger(w) ==
  /\ pc[w] = "saving"
  /\ job' = memJob[w]
  /\ rows' = mem[w]
  /\ Goto(w, "clearing")
  /\ UNCHANGED <<starter, checkpoint, output, proof, intent, memVars, passVars, runs, boundVars>>

\* ... then removes the checkpoints it contains; the lock is released.
ClearCheckpoints(w) ==
  /\ pc[w] = "clearing"
  /\ checkpoint' = NoCheckpoints
  /\ Goto(w, "idle")
  /\ UNCHANGED <<starter, job, rows, output, proof, intent, memVars, passVars, runs, boundVars>>

\* Time passes: every copy of a shard's next_retry_at is in the past.
Due(row) == IF row = None THEN None ELSE IF row.retry = "later" THEN [row EXCEPT !.retry = "due"] ELSE row

BackoffElapses(s) ==
  /\ rows' = [rows EXCEPT ![s] = Due(@)]
  /\ checkpoint' = [checkpoint EXCEPT ![s] = Due(@)]
  /\ mem' = [w \in Workers |-> [mem[w] EXCEPT ![s] = Due(@)]]
  /\ UNCHANGED <<starter, job, output, proof, pc, intent, memJob, passVars, runs, boundVars>>

-----------------------------------------------------------------------------
(* Failures *)

\* The process loses its memory and, dead or out of its finally block, the lock.
Forget(w) ==
  /\ Goto(w, "idle")
  /\ left' = [left EXCEPT ![w] = {}]
  /\ cur' = [cur EXCEPT ![w] = None]
  /\ text' = [text EXCEPT ![w] = None]

Crash(w) ==
  /\ pc[w] # "idle" /\ crashes < MaxCrashes
  /\ crashes' = crashes + 1
  /\ Forget(w)
  /\ UNCHANGED <<starter, diskVars, intent, memVars, done, runs, faults>>

CrashStarter ==
  /\ starter \in {"manifest", "ledger"} /\ crashes < MaxCrashes
  /\ crashes' = crashes + 1
  /\ starter' = "done"
  /\ UNCHANGED <<diskVars, pc, intent, memVars, passVars, runs, faults>>

\* A call inside the try block throws: the shard is marked failed.
ShardFault(w) ==
  /\ pc[w] \in {"working", "publishing", "proving", "committing", "noting"} /\ faults < MaxFaults
  /\ faults' = faults + 1
  /\ Fail(w)
  /\ UNCHANGED <<starter, diskVars, intent, memJob, passVars, runs, crashes>>

\* A call outside it throws: the pass ends without its ledger.
PassFault(w) ==
  /\ pc[w] \in {"reading", "passing", "ending", "saving", "clearing"} /\ faults < MaxFaults
  /\ faults' = faults + 1
  /\ Forget(w)
  /\ UNCHANGED <<starter, diskVars, intent, memVars, done, runs, crashes>>

-----------------------------------------------------------------------------
WorkerStep(w) ==
  \/ Resume(w) \/ Cancel(w)
  \/ \E s \in Shards : Quarantine(w, s) \/ Lease(w, s)
  \/ \E t \in Texts : Extract(w, t)
  \/ PublishOutput(w) \/ PublishProof(w) \/ CommitCheckpoint(w) \/ NoteSuccess(w)
  \/ EndShard(w) \/ Finalise(w) \/ SaveLedger(w) \/ ClearCheckpoints(w)

WorkerFault(w) == Crash(w) \/ ShardFault(w) \/ PassFault(w)

StarterStep == StartManifest \/ StartLedger \/ StartClear \/ CrashStarter

Next ==
  \/ StarterStep
  \/ \E w \in Workers :
       \/ Begin(w, "resume") \/ Begin(w, "cancel")
       \/ WorkerStep(w) \/ WorkerFault(w)
  \/ \E s \in Shards : BackoffElapses(s)

Spec == Init /\ [][Next]_vars

\* A process that has begun goes on; the supervisor comes back to a job for as
\* long as its ledger says running; and clocks advance.  Nobody need start a job.
Fairness ==
  /\ \A w \in Workers : WF_vars(WorkerStep(w)) /\ WF_vars(job = "running" /\ Begin(w, "resume"))
  /\ \A s \in Shards : WF_vars(BackoffElapses(s))

FairSpec == Spec /\ Fairness
-----------------------------------------------------------------------------
(* Properties *)

\* What a reader of the job sees: readLedger.
View == Overlay(rows)

\* A shard whose output and proof are published is never processed again, whatever
\* the crash, the failing call or the late checkpoint removal left in the ledger
\* (docs/corpus-heavy-workloads.md:11-13).
CommittedNeverRedone ==
  [][\A s \in Shards : proof[s] # None => runs'[s] = runs[s]]_vars

\* A finished shard is never given up: what is quarantined has no published proof.
FinishedWorkIsKept == \A s \in Shards : View[s].status = "quarantined" => proof[s] = None

\* A shard is processed as often as its retries allow, and once more for each crash
\* or error that lost an attempt.
RetriesBounded ==
  \A s \in Shards : runs[s] <= (IF MaxRetries = 0 THEN 1 ELSE MaxRetries) + crashes + faults

\* What ledger.json says of the job is true of its shards and files: a completed job
\* has every output and its proof, a failed one a shard that is out of retries, a
\* cancelled one no shard under way.
JobStatusAgrees ==
  /\ job = "completed" => \A s \in Shards : /\ Recovered(View)[s].status = "succeeded"
                                            /\ output[s] # None /\ proof[s] = output[s]
  /\ job = "failed" => \E s \in Shards : Exhausted(View[s]) \/ View[s].status = "quarantined"
  /\ job = "cancelled" => \A s \in Shards : View[s].status \notin Open

\* What the ledger says of a shard or of the job is what the published outputs and proofs say
\* (recoverCompletedShardProofs, finaliseLedgerStatus).
LedgerTellsTruth == FinishedWorkIsKept /\ JobStatusAgrees

\* A cancelled job stays cancelled, and none of its shards is processed again.
CancelIsFinal ==
  [][job = "cancelled" => job' = "cancelled" /\ runs' = runs]_vars

\* A proof certifies the very output that is on disk.  With texts that do not
\* truncate one another it holds for two processes at once.
ProofCertifiesOutput == \A s \in Shards : proof[s] # None => output[s] = proof[s]

\* A job that is worked on whenever it says running concludes.
JobConcludes == (job = "running") ~> (job \in {"completed", "failed", "cancelled"})

\* docs/corpus-heavy-workloads.md:11-12 "Completed shards use atomic local checkpoints":
\* when no process is at work, a completed job is read with every shard succeeded.
CompletedJobReadsCompleted ==
  job = "completed" /\ (\A w \in Workers : pc[w] = "idle") => \A s \in Shards : View[s].status = "succeeded"
=============================================================================
