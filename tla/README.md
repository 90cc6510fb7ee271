# Verification of the MorpheOS-Code harness

TLA+ models of the parts of this repository that keep state, the TLC runs that
check them on small instances, and theorems about them proved with TLAPS.
Every definition is translated from the TypeScript source; `PROJECT.json` names
the lines of each.  Paths below are relative to `src/src/` unless they say
otherwise.

## 1. The system

The program runs batches of model calls, works large corpora in shards, and
hosts an interactive coding agent.  Its processes are short-lived Node programs
(a CLI call, an MCP server, a supervisor started by launchd).  They share one
SQLite database and one artifact directory, and nothing else: no daemon owns
the state, so any two of them may run at once, and any may die at any step.

| Component | State it keeps | Operations | What makes it hard |
|---|---|---|---|
| Batch engine (`runner.ts`) | slots of `mapLimit`, rows it listed | submit, processRun, processItem, cancel, results | awaits between statements; cancel from another process; a second processRun |
| Store (`store.ts`) | tables runs, items, events, receipts, reservations, sessions | one method per table operation | all but two methods are single autocommitted statements |
| Live authority and budget (`approval.ts`, `budget.ts`, `store.ts`) | consumed receipts, budget ledger, rolling daily window | validate, authorise and reserve, reconcile, redact | replays, crashes between gate and reconciliation, unknown usage |
| Worker lock (`corpus.ts` 2364-2455) | `worker.lock`, `supervisor.lock` | acquire, remove stale, release | file-system check-then-act, dead owners |
| Corpus jobs (`corpus.ts`) | manifest, `ledger.json`, shard checkpoints, outputs, proofs | start, resume, cancel, reconcile, validate | crash between any two publications, retries, quarantine |
| Hosted corpus batches (`corpus.ts` 1383-1671) | the ledger and a child run of the batch engine | submit, process, adopt an interrupted run | two stores that must agree; awaits under the lock |
| Corpus supervisor (`corpus_supervisor.ts`) | rotation cursor, supervisor lock | discover, cycle, loop | fairness to jobs, failing jobs, a lost cursor |
| Corpus builders (`corpus_ingest.ts`, `corpus_ocr.ts`, `corpus_media.ts`, `corpus_authoring.ts`, `corpus_translation.ts`, `workloads.ts`) | none after the manifest is returned | seven builders; plan, start and passes that check a manifest again | boundaries of chunks, records and pages; files that change between two reads |
| Translation memory (`corpus_translation_memory.ts`, `corpus_translation_review.ts`) | reviewed segments in SQLite | review, commit a batch, look up | files that change between the review and the commit |
| Agent turn loop (`agent/loop.ts`, `stream.ts`, `context.ts`) | the conversation | turn, tool rounds, abort, truncation | abort or error between tool calls and results |
| Agent tools and permissions (`agent/tools.ts`, `permissions.ts`, `dispatch.ts`) | mode, approvals | run a tool, ask, deny | the gate must precede every effect |
| Agent sessions, memory, background jobs, checkpoints (`agent/session.ts`, `memory.ts`, `background.ts`, `checkpoint.ts`) | session rows, memory files, child processes, file snapshots | create, append, undo, start, cancel | read-modify-write, exit after cancel |
| MCP client (`agent/mcp-client.ts`) | pending requests | connect, request, timeout, close | late answers, exit of the child |
| CLI, TUI, MCP server, product commands, paths, privacy scan, Rust reporter | none of their own | parse, print, dispatch | none a model checker reaches |

Interactions.  The CLI and the MCP server call the batch engine and the corpus
functions directly.  The batch engine calls the store for every transition and
the live gate once per run.  The supervisor finds jobs by their ledgers and
calls corpus resume on each; resume takes the job's worker lock.  A hosted
corpus batch submits a run to the batch engine and reads its rows back.  The
agent loop calls tools, the tools may call the MCP client, background jobs and
checkpoints.  All of these calls are synchronous apart from the model calls,
child processes and timers; the shared state is the database and the files.

What makes each component correct, in a sentence each:

- *Batch engine*: an item is executed at most once per process that works the
  run, a finished run tells the truth about its items and its artifacts, a
  cancelled one is left alone, and the slots are never exceeded.
- *Live authority*: nothing is billed before its receipt is consumed and its
  cost reserved, the ceiling holds, and the ledger never undercounts.
- *Worker lock*: two processes hold it only in the one situation named below.
- *Corpus jobs*: a finished shard is never redone or given up, a proof certifies
  the output on disk, the job's status is true, retries are bounded, a worked
  job concludes.
- *Supervisor*: no job starves.  *Agent*: the conversation stays well-formed,
  the permission gate precedes every effect, a turn ends, no edit is lost.
- *Hosted batches*: a shard is sent live at most once, a completed job is
  certified, a cancelled one stays so, a dry one concludes, and the memory holds
  only what an owner signed.
- *Builders*: a manifest declares the whole of its source, what a shard commits
  is what was declared, and a manifest just built can be started.

`PROJECT.json` lists every hazard found, at its line, with the properties that
watch it; a hazard that none watches says why.

## 2. The modules

| Module | Models | Composed with |
|---|---|---|
| `RunContract` | abstract specification: exactly once, truthful status | refined by `BatchRun` |
| `BatchRun` | one run: store rows, `processRun`, `mapLimit`, `cancelRun` | `RunContract`, `BatchRun_proofs` |
| `LiveAuthority` | several live runs: receipts, reservations, the rolling ceiling | `MCLiveAuthority`, `LiveAuthority_proofs` |
| `WorkerLock` | the lock file, one file-system call at a time | `WorkerLock_proofs` |
| `CorpusLedger` | one corpus job of a synchronous processor | `MCCorpusLedger`, `CorpusLedger_proofs` |
| `Supervisor` | the rotation of the supervisor over the jobs, and its cursor | `Supervisor_proofs` |
| `CorpusHosted` | one job of the hosted processor: starter, lock holder, child runs, translation memory | `MCCorpusHosted`, `CorpusHosted_proofs` |
| `AgentFiles` | a file, the tools that change it, its checkpoints | extended by `AgentConsole`; `MCAgentFiles` |
| `AgentConsole` | a chat session: console, turns, gate, stored conversation, MCP server | `AgentFiles`, `MCAgentConsole`, `AgentConsole_proofs` |
| `CorpusSource` | the state of a builder's call: files, locals, manifest | extended by the builders |
| `TextBuilders` | the text, book, long-form and translation builders | `CorpusManifests` |
| `JsonlBuilder` | the record builder's single pass over a file in blocks | `CorpusManifests` |
| `ScanBuilders` | the OCR and media builders, which ask a tool and hash in another call | `CorpusManifests` |
| `WorkloadContract` | what each workload demands of a manifest | `CorpusManifests` |
| `CorpusManifests` | the builders composed with the caller, plan, start and a pass | the five above, `MCCorpusManifests`, `CorpusManifests_proofs` |

Each names its properties at its end, its mutants (deliberately wrong forms of
a definition, used to see that a property can fail) directly before the
definition they alter.

### BatchRun

The store methods run in SQLite's autocommit mode, so **one SQL statement is
one step**, and a process may be overtaken between any two of its statements by
another process.  Within one process JavaScript runs to the next `await`: `at[w]`
and `cur[w]` hold the next statement of such a segment, and while they are set
that process can do nothing else.  `Awaiting` says when a continuation may run:
only while the loop itself awaits, in `Promise.race` (`racing`) or in
`Promise.allSettled` (`settling`).

`active` holds the items whose call is in flight, `spent` the promises that
settled before the loop had awaited anything; both occupy slots.  A rejected
promise is seen by `Promise.race`, which aborts the run (`AbortRun`), and is
dropped by `Promise.allSettled`.

Any statement may throw.  In an item's segment the three places with different
consequences are `StartFault`, `CompletionFault` and `FailureFault`; `CheckFault` is
the read of the run's status before an item is started.  Outside the items `processRun`
itself throws (`RunFault`), and leaves what it had done: `setRunStatus` is an UPDATE and
the INSERT of an event, each committed by itself, so that the status may be committed
although the call threw (`Leave(w, FinalStatus(...))`, `store.ts:277-282`), and then no
artifact is written.  `WriteSummary` and `WriteResults` are the two artifacts, one after
the other.  `CancelItems` and `CancelStatus` are the two statements of `cancelRun`, and
`CancelFault` and `CrashCanceller` end it between or in them.  A crash forgets what is in
memory and keeps the rows.  `unreported` is history: a final status is committed, and the
process that committed it stopped before both artifacts were written.

Transports are the local ones (fake, dry-run), whose plan cannot be refused
after submission; the live gate is `LiveAuthority`.  The two modules share the
run statuses and the loop, so `LiveAuthority` makes its calls one at a time.

### LiveAuthority

`receiptOf` is the receipt each run's manifest carries, any assignment, so that two
runs may carry the same one.  `Authorise` is one `BEGIN IMMEDIATE` transaction and therefore one step: replay
check, rolling sum, consumption, reservation.  A statement that throws inside it
rolls all of it back (`GateFault` in place `planned`); one that throws after the
COMMIT does not (`authorised`).  `Redact` follows the COMMIT as a step of its
own.  Money is whole units and time whole ticks; `Costs` is what a call may be
billed, more than its estimate included.  `ObservedCost` is null as soon as one
row has no usage, and `Reconcile` then keeps the whole reservation.  The plan
blockers of `validateApprovalReceipt` are one test: the stored manifest still
has its signature and the receipt has not expired.

### WorkerLock

Every file-system call is a step: the exclusive open, the read and judgement of
a file in the way, the unlink, the second open, the write of the pid, the
release.  `contested` remembers that two processes judged one lock stale at the
same time.  Pids are not reused in the model.  The release unlinks whatever is
at the path, as the code does.

### CorpusLedger

`rows` and `job` are `ledger.json`, `checkpoint` the files laid over it by every
reader (`Overlay`), `output` and `proof` the published artifacts.  A pass holds
the ledger in memory (`mem`), so a crash loses whatever is not yet on disk.  A
shard goes through lease, extraction, output, proof, checkpoint, event and a
second checkpoint, each a step; a call that throws inside the try block marks it
failed (`ShardFault`), one outside it ends the pass (`PassFault`).

Abstractions: `leased` and `running` are one status, since nothing happens
between them that a reader can see; `invalidated` is a status no code sets; the
existence test and the link of `writeShardArtifactNoClobber` are one step,
because `link` itself refuses to replace a file; a file that is a proper prefix
of the new text may be replaced (`Truncates`), which the code allows for
remnants of writes that were not atomic.  Extraction may yield another text the
next time (`Texts`), as OCR may; a proof contains the time of its commit, so two
proofs are never equal.  `BackoffElapses` lets a shard's retry time pass in
every copy of its row at once.  The worker lock is the constant `Exclusive`:
with TRUE one process is in a pass at a time, which is what `WorkerLock` gives
until a lock is contested, and with FALSE a theorem says what remains without it.
`corpusStart` does not take the lock in the code, nor in the model.

### Supervisor

A job is a number, its place in the order of `compareSupervisorJobs`; `Before` is
that order turned so that it begins after the cursor, and `Selected` the first
`MaxJobs` eligible jobs in it.  `cursor` is the loop's position: the in-memory
cursor when a cycle begins, then the last job worked, which at the end of the cycle
is the code's next cursor.  Discovery, the save and each worked job are steps, so
jobs appear, are cancelled and conclude in between, and a worked job need no longer
be running.  A worker of a job is one step: its inside is `CorpusLedger`.  Errors of
a worker are caught, and the job stays running; errors outside that block are a
`Crash`.  `overtaken` and `found` are history.

The cursor is saved past the whole selection before any of it is worked.  A death
in between therefore skips the rest: `RotationIsFair` grants each death one more
overtaking.  A job whose work kills the process every time could in this way hold
back those selected after it in the same cycle for ever; the liveness property
bounds the deaths and says nothing of that case.

### CorpusHosted

The starter (`corpusStartAsync`) writes the manifest and the ledger, or reads the
ledger of an existing job, *before* it takes the worker lock; `stale` is what it
read.  The holder of the lock is one process at a time (`WorkerLock` says when that
fails), so its place is `pc` and its ledger `mem`.  It reconciles interrupted
child runs, serves shards from the memory, leases the rest of a batch, saves the
ledger, submits a child run and publishes its results; the save before the
submission and the one after it are steps.  `child` is the batch engine seen from
here: the results of each run, `None` for a failed item.  A live job has one run,
and its signed receipt lives in the starter's memory only (`fresh`).  `Begin` is a
call of resume, cancel or commit that has got the lock.

A publication is three steps, as in the code: the output, the proof, the checkpoint
(`PublishOutput`, `PublishProof`, `WriteCheckpoint`), and a pass may stop or throw
between any two.  `raw` names the shards whose text is not in the normalised form the
memory is keyed by (CRLF turned to LF, NFC).  The proof of a memory hit has the hash of
that form and every other proof the hash of the text itself; `ProofHolds` is what
recovery and validation compare.

`memory` holds one row for each shard's input.  An owner signs the payload of the
outputs (`OwnerSigns`); `Review` and `CommitMemory` are the two times at which the
code reads the files, and `EditSource`, `EditOutput` change them in between.

### AgentConsole and AgentFiles

Node has one thread: what a turn does between two awaits is one step, and while a
turn can go on (`Busy`) no key, answer or exit of a child comes in between.
`gates` are the tool registries there have been, the last the console's: a change
of the rules builds a new one, and a turn keeps the one it began with.  `approval`
is the request the terminal shows and `resolver` the single slot for who gets the
answer.  `history` is the stored conversation; `Context` is the window of it that
is sent, and `Accepted` the provider's rule that each call has its answer.  The
consoles differ in who may submit, interrupt and approve (`mode`).

The MCP server may be silent for ever: nothing in `mcp-client.ts` bounds a call of a
tool.  `McpFails` is a connection that is refused or a child that exits during it;
`ChildError` is an error nobody listens to (a child that cannot be started, a broken
pipe), which ends the process.  `Faulty` says what may fail in a run.

In `AgentFiles` a content is a number and every write makes a new one, so that
"nothing is lost" can be said: `saved`, `redo` and the file itself hold what there
has been, `unsaved` and `spoiled` name the losses the code accepts.  Every write may
throw: the snapshot before a change, the change itself (`ChangeFails`), the redo point
of an undo (the code swallows that and restores all the same) and the restoring write.
Checkpoints are read and written as UTF-8: with `binary` the first content is something
else, and what a checkpoint of it holds (`Decoded`) is not what the file held.
`FilesSpec` is the file by itself, under any order of these operations; the console
drives it through fewer.

### The manifests

One call of a builder is a sequence of steps, one for each time the code turns to
the file system or a child process, and other programs may change a file in
between (`EditFile`).  Bytes are tokens, a SHA-256 digest *is* what it was taken
of, and a chunk's text is a slice.  `Cut` is one iteration of the three chunking
loops; the bound the code computes in closed form before them is `PlanBounded`.
`ScanBlock` is one block of the record scan and `TakeByte` its inner loop.
`HandEdit` is the caller who changes or drops one field of the manifest.  `Plan`,
`StartChecks`/`StartVerifies`, `BeginPass`, `ProcessShard`, `Extract` and `Rehash`
are what becomes of it; retries, crashes and the ledger are `CorpusLedger`'s.

`CallsAssumption` says what a call is: a builder, one of its files, options of their
types, and, where the caller may edit the manifest, a digest that is no file's.  A few
operators are written out where the library's are recursive and so mean nothing to the
prover: `Joined` for `@@`, `InOrder` for a sorted set, and in `AgentConsole` the function
in `Context` for `SelectSeq`.

## 3. The runs

| Run | What it shows | Bounds and why they are enough |
|---|---|---|
| `batch_single` | one process works a run again and again, an operator cancels at any time, a crash, failing statements: types, attempts, slots, truthful status, events and artifacts (`RunRecordsAgree`), a cancelled run left alone, a started run concludes, and `BatchRun` implements `RunContract` until it is disturbed | 3 items on 2 slots: a full loop, one item waiting, and two continuations in either order; 1 crash and 2 store faults, so that a pass that repairs the artifacts may fail as well (305,158 states) |
| `batch_resume` | *violation*: a run reworked after a crash is completed with an item left running | 1 crash |
| `live` | two processes, two runs that chose the same receipt or different ones: spend is authorised and covered by the ledger, one process past the gate, receipts match the ledger, the ceiling holds over the rolling window | reservations, ceilings and expiries such that either run fits alone and both do not always; a call may cost more than its estimate; a window of one tick in three times, so that a reservation leaves it |
| `lock_crash` | exclusion unless contested; a stale lock is reclaimed | 4 processes, 3 deaths, 1 failed write: a reclaimer may die, its reclaimer too |
| `lock_contested` | *violation*: a live lock is unlinked by a process that judged its predecessor stale | 3 processes, 1 death |
| `corpus_crash` | a job through a crash, two failing calls, retries, quarantine, cancels: finished work kept and not redone, proofs certify outputs, truthful status, a worked job concludes | 2 shards with a batch cap of 1, so that a pass ends in the middle; 2 retries, so that one is taken and one exhausted |
| `corpus_reads_completed` | *violation*: a completed ledger is read with a failed shard | 1 shard |
| `supervisor_rotation` | no waiting job is overtaken unfairly, none starves | 3 eligible jobs for 2 places, so that a selection wraps around and one is left out; a live job among them; runs of 2 cycles; 2 deaths |
| `hosted` | a live or dry job through one mishap of any kind: a shard is sent live once, what the memory holds as reviewed was signed, a completed job is certified, a cancelled one is not revived but by a stale start, a dry one concludes unless it was edited, conflicts, or is stranded | 2 shards in four settings (in the memory with normalised texts and without, cut by bytes, oversized), 1 or 2 attempts, two translations; one death, failing call or edit |
| `agent` | two turns in each of the three consoles: effects were allowed, every stored call is answered (`HistoryIsAnswered`), the window that is sent is one the provider takes (`ContextIsWhole`), turns end unless they wait for the server | 2 turns, 1 round of tools, replies with up to 2 calls, a window of 3 messages, so that it cuts between a call and its answer; 1 command, 1 fault of the server |
| `agent_files` | no text is lost through changes, undos, rewinds and failures of any write but in the ways `NothingIsLost` names | a first content that is UTF-8 or not, 3 more, 4 checkpoints: an undo of an undo, a redo point overwritten, any number of failures (3,052,058 states) |
| `manifests` | a manifest is whole, a shard commits what was declared, a manifest just built is refused for four named reasons only, and start honours a plan that said ok (`PlanIsHonoured`) | every text of up to 5 tokens for the book builder and of up to 6 for records, chunks of up to 4 with every overlap, blocks of 2 bytes, so that records span blocks; PDFs of 2 pages, directories of 3 files; two edits of a file, so that it may be changed and changed back, and one of the manifest |

Deadlock is checked except in `live`, `agent` and `manifests`, where the system
really stops: at the last tick a run whose receipt expired before its submission
can do nothing, the operator may leave the console, and a builder's call ends.

`RunRecordsAgree`, `CeilingHolds` and `LedgerTellsTruth` are conjunctions of the
properties named in them; each part is stated, and has a mutant beside the code it
guards, in its module.  The type invariants of `CorpusHosted`, `AgentConsole` and
`CorpusManifests` hold under the configurations of their runs as well, and are
proved; so are those of `WorkerLock` and `Supervisor`, which their runs leave out for
that reason: a run lists what says more about the code than its types.

Larger instances without error, too slow to keep as runs: `hosted` with two mishaps
(1,862,136 states, liveness included: the exception `Conflicted` needs two deaths and is
met only there) and `agent` with two commands (2,293,687 states, safety only).

`batch_single` has one process.  What holds of any number of them is proved
(section 4).  The statements on final status, artifacts and cancellation hold of
a single writer only: nothing in the code claims a run or its rows, so two
`processRun`s execute one item at the same time, although
`docs/storage/SYNC_STRATEGY.md` asks for a single writer.

The three violations are disagreements between the code and its documentation,
quoted in `PROJECT.json` under "findings": a run is not resumable after a crash
(`batch_resume`), the stale lock is removed by path after it was judged by
content (`lock_contested`), and a ledger and the checkpoints it replaces are
published one after the other with no recovery for the gap
(`corpus_reads_completed`).  A gap of the same kind, between the manifest and the
first ledger of a job, is listed as a hazard without a property.

Two more disagreements are exceptions of properties that pass.  Each is also stated as
a property without the exception, which TLC refutes in seconds; the
configurations are beside the modules and not among the runs.

- *A dry job may be stranded* (`CorpusHosted_PublicationsAreRecovered.cfg`, with
  `MCCorpusHosted`).  A memory hit replaces the shard's `input_sha256` by the hash of the
  normalised source (`corpus.ts:1036`: CRLF to LF, NFC), and recovery compares the proof
  with the hash of the text as it is and throws (`corpus.ts:2021-2036`).  A pass that dies
  between the proof and the checkpoint of such a hit leaves a job whose every later pass
  throws, although nobody edited a file; `docs/corpus-heavy-workloads.md:15` says "Shard
  publication is crash-recoverable".  `DryJobConcludes` excepts it by name (`Stranded`).
- *Ctrl-C does not end a turn that waits for an MCP server*
  (`AgentConsole_AbortedTurnEnds.cfg`, with `MCAgentConsole`).  `callTool` is given no
  signal and `sendRequest` sets no timeout (`agent/mcp-client.ts:128`), so the turn waits for
  as long as the server is silent and no line can be submitted meanwhile;
  `docs/user-guide.md:107` says "`Ctrl-C` cancels an active turn".  `TurnsConclude` excepts
  the turns that wait for a server.

### Fairness

- `BatchRun!FairSpec`: weak fairness of each process's next step.  A process
  that has begun is scheduled, the synchronous calls return, and every transport
  call ends, since the local ones return and the live one has a timeout.  Nobody
  is obliged to submit, start or cancel.
- `WorkerLock!FairSpec`: the same, and that processes keep asking: the supervisor
  runs cycle after cycle and launchd restarts it.
- `CorpusLedger!FairSpec`: the same, that the supervisor comes back to a job as
  long as its ledger says running (its selection rule), and that clocks advance.
- `Supervisor!FairSpec`: the supervisor goes on when it runs and is started again
  when it does not (the launchd example, `docs/corpus-heavy-workloads.md:203`).
  No job is obliged to conclude, so the starving of a job behind broken ones would
  show.
- `CorpusHosted!FairSpec`: the holder of the lock goes on and clocks advance; and
  strong fairness of a resume while the ledger says running, because the supervisor
  tries every cycle and the lock is free again and again between the calls of others.
- `AgentConsole!FairSpec`: a turn goes on, since model requests, commands and reviews
  have timeouts.  One assumption is about the world and not the code: an operator
  answers the request that is shown.  Nothing obliges an MCP server to answer or to
  connect (`ServerAnswers` has no fairness), since a call of its tools has neither a
  timeout nor the abort signal; `TurnsConclude` exempts the turns that wait for it.
- `CorpusManifests` has none: its properties are about safety.

### What the models showed

Besides the findings, these are behaviours of the code the models reach and its
documents do not speak of.

*Hosted batches.*  A start that read the ledger before a cancellation revives the
cancelled job (`CancelledUnlessStale` names it).  An error in the publication of a
run's result leaves a shard "succeeded" without its proof, and a job may complete so
(`CompletedIsCertified`).  With two deaths and a stale start a dry job never
concludes, because an adopted run's text differs from the one published
(`Conflicted`).  A live job whose starter died stays "running", and every pass
throws `corpus_live_receipt_not_persisted`.  A job that took from the memory a shard whose
text is not normalised never validates, crash or not (`proof_input_hash_mismatch`), so
that its translations cannot be reviewed.  Validation does not count cancelled
shards as blockers.  Two shards with one source text make the commit of the whole
reviewed batch fail.

*Batches.*  When the event of the final status cannot be inserted, the run is completed
and has no artifacts, or those of an earlier pass, until it is processed once more.

*Agent.*  While a turn waits for an MCP server that does not answer, Ctrl-D does not
leave the terminal interface.  A server that cannot be started ends the whole process.
An undo whose redo point cannot be saved replaces the file all the same, without a
word.  An approval
request that takes the place of another leaves the first turn waiting for ever.  A
turn that ended between its calls makes the provider refuse the next ones until it
has left the window.  The plain consoles never set the checkpoint manager, so
nothing is snapshot there.  A second undo of one checkpoint overwrites what the
first replaced, and a rewind keeps nothing.  `pairedTurn` neither executes tool
calls nor sees the abort signal.  A change of the rules during `/mcp add` registers
the tools in the registry that is no longer used.

*Manifests.*  A text or translation source that begins with a byte-order mark gets a
digest no plan or start will ever accept, since the builder digests the decoded text
and the job the bytes.  A media directory with a file of a sensitive name is
catalogued and the whole manifest then refused.  The builders take a project name
the schema finds too long.  The text builder makes manifests of every workload:
of translation and media no start accepts them, of book and dataset no plan does,
although start would.  The page count of a PDF is taken before its digest: without `pdfinfo`
nothing rechecks it, and pages added in between are never read.  A file that is changed and
changed back between two hashes is not noticed (the run reaches it, and
`ProcessedIsDeclared` excepts it).
When a source path has become a directory, the check of its digest is skipped;
inline text is still held to its own.

## 4. The theorems

All are proved for every set of items, processes, shards, texts, turns and tools and
for every bound.  They rest on the named `ASSUME`s of the modules: constants have
their types, sets that are counted are finite, and a "none" value is not a member of
what it is none of.  Two groups of theorems assume something more, in their statement:

- `SingleWriter` (three theorems of `BatchRun`): one process executes the run, as
  `docs/storage/SYNC_STRATEGY.md:48` asks; any operator may cancel it.  With two, the
  statements are false.
- `Exclusive` (five theorems of `CorpusLedger`): at most one process is in a pass,
  which is what `LockExcludes` gives until a lock is contested.  Without it
  `ProofsCertifyWithoutLock` remains, where `Truncates` is empty: no text is the
  beginning of another, so that publication replaces nothing.  With truncated texts
  *and* without the lock the property is false.

Few of the properties are inductive by themselves.  Each proof therefore has an
invariant of its own, named below, that says *why* the property holds; they were found
with TLC, under the configuration of the module's run.

| Module | Theorems | Inductive invariant |
|---|---|---|
| `BatchRun_proofs` | `TypeCorrect`, `AttemptsAreBounded`, `ConcurrencyIsRespected`, `NoItemIsOrphaned`; for a single writer `RecordsAgree`, `CancelStopsTheBatch`, `BatchKeepsContract` | `BoundsInv`, `WriterInv` |
| `LiveAuthority_proofs` | `SpendIsAlwaysAuthorised`, `ReceiptsAlwaysMatchLedger`, `OnlyOneProcessPastTheGate`, `LedgerSettledOnce`, `TypeCorrect`, `CeilingAlwaysHolds` | `GateInv`, `BudgetInv` |
| `WorkerLock_proofs` | `LockExcludes`, `TypeCorrect` | `LockInv` |
| `CorpusLedger_proofs` | `TypeCorrect`; under `Exclusive` `RecoveryNeverRedoes`, `ProofsCertifyOutputs`, `RetriesAreBounded`, `LedgerAlwaysTrue`, `CancellationIsFinal`; without it `ProofsCertifyWithoutLock` | `RecoveryInv`, `LedgerInv`, `SharedInv` |
| `Supervisor_proofs` | `TypeCorrect`, `RotationAlwaysFair` | `IInv` |
| `CorpusHosted_proofs` | `TypeCorrect`, `LiveNeverResent`, `MemoryAlwaysApproved`, `CompletedAlwaysCertified`, `CancellationHolds` | `HostedInv` |
| `AgentConsole_proofs` | `TypeCorrect`, `FilesAreDriven`, `ContentsAreKept`, `EffectsAlwaysAllowed`, `ConversationIsAnswered`, `ContextsAreWhole` | `ConsoleInv`, `FilesInv`, `HistInv`, `WindowInv` |
| `CorpusManifests_proofs` | `TypeCorrect`, `PlansAreHonoured`, `ManifestsAreWhole`, `RefusalsAreExplained`, `PartsAreProcessed` | `PlanInv`, `LoopInv`, `BuiltInv`, `PassInv` |

**BatchRun.**  `AttemptsAreBounded`: nothing in the property says why a process that
will start an item has not done so already.  `StartsBounded` counts attempts plus the
processes that *may still* start the item; `CheckRun` and `MarkItemRunning` move a
process from the second to the first, and a queued row with zero attempts
(`UnstartedWhileQueued`) is the only way in.  `ConcurrencyIsRespected` uses
`TakenOnce` (an item is in the snapshot, in a slot or at the next statement, never
twice), `NoItemIsOrphaned` `RunningIsAnswered`, which names the process that still
owes the outcome.

With a single writer, `WriterInv` ties the rows to the place the writer is at: what a
row may say of an item that is waiting, at a statement or in a slot (`RowsInHand`),
that what the writer listed at the end is final (`ListedIsFinal`), that the artifacts
were written from rows that have not changed since, unless a cancel stopped half-way or
the run is `unreported` (`ArtifactsFresh`), and that an item
whose event is missing is the one in hand or was let go of by a crash or a failing
statement (`EventsCounted`).  A cancel leaves at most the start that had already
passed its check (`LateStartsBounded`).  `BatchKeepsContract` is the refinement of
`RunContract`: `WriterInv` gives the guards of the abstract `Start`,
`Finish` and `Conclude`, every other step is a stutter, and a crash, a cancel or a
failing statement ends the obligation.

**LiveAuthority.**  `GateInv`: a process past the gate has a run whose receipt *it*
consumed and whose reservation is still open (`PastIsReserved`).  `BudgetInv` adds the
books (what is in the ledger is what the run was billed, until usage is unknown), and
that some row of the rolling window, the last one authorised, had a ceiling that the
whole window stays within (`CapKept`); time only takes rows out of the window, a
reconciliation only lowers a row unless a call cost more than its estimate.  What
these proofs need of sums over finite sets (adding one member, monotony, a sum
is natural) is had without induction over operators: a set for which the fact fails
has a minimal subset for which it does (`MinimalSet`), and that is absurd.

**WorkerLock.**  Until a lock is contested the file at the path is its owner's, and
one that is about to be unlinked is still that of a dead process (`Undisturbed`).

**CorpusLedger.**  `RecoveryInv`: a shard a pass has still before it and that has its
proof will be skipped (`Passed`), the one in work has none yet (`Fresh`), and the text
whose proof comes next is the one on disk (`Matched`).  `LedgerInv` relates the three
copies of a row, on disk, in a checkpoint and in the memory of the pass: a later copy
forgets nothing an earlier one said of a shard (`Keeps`), each copy tells the truth of
the published files (`Sound`), the job's status is true of the rows it is saved with
(`Verdict`), and every time a shard was processed is counted in a row or was lost to a
crash or an error (`CountedOnDisk`, `CountedInMemory`).  `SharedInv`, for any number of
processes, is `Matched` and the property: a process that found its own text at the path
may count on it, since nothing replaces it.

**Supervisor.**  `OvertakenByThosePassed` says that k has overtaken j once more than
there were deaths only if the position lies behind k and before j.  Working a job moves
the position over that job alone, because the selection is an initial piece of the
order (`SelectedComeFirst`, a counting argument, and `QueueComesFirst`), and the file
holds the end of the selection (`FileIsWhereTheSelectionEnds`), so that a restart goes
on from there.

**CorpusHosted.**  No lock is assumed beyond the one holder the model has, and all four
parts of `HostedInv` hold at any number of mishaps.  `LiveInv`: until the starter's pass
submits, nothing was sent; after it no pass of a live job can submit.  `ApprovalInv`:
whatever a review or a commit has in hand between its two readings was signed.
`CertInv`: a shard that succeeded *in any of the three ledgers*, the starter's stale
one, the disk's and the holder's, is published, and its proof is missing only if a
publication failed or is the next step; a checkpoint is written of a shard whose proof is
there.  `CancelInv`: a holder other than a stale
start whose job is cancelled on disk knows it.

**AgentConsole.**  `ConsoleInv`: a turn that waits for an answer is the one shown, or
was replaced and can only be aborted; a call that may have its effect carries the rule
or the approval that allows it (`CallsInv`).  `FilesInv` is `NothingIsLost` with the
shape of the stacks.  `ContentsAreKept` is a theorem of `FilesSpec`, the file under any
order of operations and failures, and `FilesAreDriven` says that every behaviour of the
console is one of `FilesSpec`: the two give `NothingIsLost` for the console.  `HistInv`: unless two turns overlapped, the one reply without all
its results is the last, and its results and the calls left to its turn make up the
calls of that reply (`InProgress`).  `WindowInv`, for `ContextsAreWhole`, adds that the
window of a turn begins at a user's message or at the conversation's first, that nobody
else has spoken since the turn began (`WindowOk`), and that between a reply and its
results there are only results (`ResultsFollow`): so a window that begins with a user
cuts none of them off.  Turns end in the order they begin (`TurnsInOrder`), which is why
a failure the property excuses is always an earlier one's.  It assumes that the window
has room for a message (`Recent` is 25 in the code).

**CorpusManifests.** `PlanInv`: until a file changes after a plan that said ok, the
manifest is one that both parts of start admit.  The steps of all seven builders come
before the plan, and are dealt with by one lemma.

`ManifestsAreWhole` needs to know what each builder's loop has done so far: `LoopInv`
has one part for each.  `ScanningInv`: the records found, and what is left of the last,
are those of the bytes read, whatever blocks they came in.  `CountingInv`: the page
count is that of the file, unless it has changed since.  `CataloguingInv`: a duration
belongs to the content that was digested, and no file is catalogued twice.  `CutInv`:
the shards so far cover the text up to where the loop is and follow each other with the
overlap, and their counts with those of the rest are what the plan was bounded for.
The other builders' claims follow from the shape of what they return.  The functions
that the property itself is stated with are recursive functions over chunks, records
and pages of any number; what they compute is shown by a set of counterexamples, which
if not empty has a least member (`LeastNatural` in the proofs), in place of induction
over an operator.

`RefusalsAreExplained`: `BuiltInv` gives the shape of the manifest of each builder and,
until a file changes, that its digests are those on disk.  With the contract of the
workloads (`WorkloadContract`) every check of start then passes but for the four
reasons the property names.  `PartsAreProcessed`: `HandInv` says what one edit by the
caller leaves as the builder wrote it, `PassInv` how far the pass has come, `PagesInv`
that a page is extracted from the bytes that were digested, and `CommittedInv` is the
first half of the property.  Proving it showed that one claim had to be given up: a PDF
that is changed before a page is read *and changed back* before it is hashed again is
not noticed, so for OCR the property speaks of one edit (`edits < 2`).

`TypeCorrect` adds what there is at each stage (`StageInv`): a manifest once it is
returned, results once a pass has begun.

### Only model-checked

- Everything under fairness, which this prover does not do: `RunConcludes`,
  `StaleLockIsReclaimed`, `JobConcludes`, `JobsAreServed`, `DryJobConcludes`,
  `TurnsConclude`.
- That the three violations, and the two refutations of section 3, are reached.

Every safety property that a passing run checks is a theorem.

## 5. Not modelled

- The MCP server (`mcp.ts`), the CLI (`cli.ts`), `product.ts`, `dispatch.ts`,
  `workloads.ts`: they parse arguments, call one of the functions modelled here and
  print its result, and keep no state between calls.
- The privacy scan (`privacy.ts`), pricing tables, prompts, themes and rendering:
  pure text and tables, with no order of steps in them.
- `corpusReconcile`, which concatenates the outputs of a job that has concluded;
  export and statistics of the translation memory; the heuristics of
  `evaluateTranslationQa` and the scoring of near matches.
- Session totals and memory notes of the agent; `BackgroundManager.run`, which
  nothing calls.
- The several checks of a live receipt's own fields (one Boolean in `LiveAuthority`).
- Network, provider, SQLite, OCR engines and `ffprobe` themselves: external, modelled
  by how the code uses them (a call answers, fails, or answers without usage; a
  statement commits or throws; a tool is absent, times out or reads the file).
- A surrogate pair, a placeholder or a glossary term cut in two by the boundary of a
  chunk: a token of the model is never half a character.
- The Rust reporter and the install scripts: not part of the running system.
- The page count of a PDF is cached by size and modification time (`corpus_ocr.ts:307`);
  every edit in the model changes the modification time, so that a stale entry of this
  cache is never used.  A rewrite that keeps both is not modelled.
- A write that fails half-way, in `AgentFiles`: a failed write leaves its file as it was.
- Clocks are not set back; pids are not reused.

## 6. Plan

Modelled: the batch engine with its contract, the live gate, the worker lock, both
kinds of corpus job, the supervisor, the builders, and the agent's console, turns,
tools, checkpoints and MCP client.  Proved: every safety property of the passing runs.
What is left, in this order:

1. `BatchRun` and `LiveAuthority` composed, for the run that one process marks failed
   while another executes it; the checks of a receipt's fields as a pure operator.
2. The publication of a job's manifest before its first ledger, with the crash between
   them, in `CorpusLedger`; the memory files of the agent under two writers.
