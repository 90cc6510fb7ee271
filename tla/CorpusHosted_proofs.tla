------------------------ MODULE CorpusHosted_proofs ------------------------
(* Theorems about CorpusHosted, for every set of shards, texts and settings. *)
EXTENDS CorpusHosted, SequenceTheorems, NaturalsInduction, WellFoundedInduction, TLAPS

\* A commit is going on.
Committing == pc \in {"output", "proof", "checkpoint"}

\* The ledgers.
LedgersInv ==
  /\ maxRetries \in Nat /\ stale \in Ledger /\ rows \in [Shards -> Row] /\ mem \in [Shards -> Row]
  /\ job \in JobStatuses \cup {None} /\ memJob \in JobStatuses

\* The runs, and those the rows of the ledgers name.
RunsInv ==
  /\ child \in Seq([Shards -> Texts \cup {None}])
  /\ \A s \in Shards : /\ rows[s].run <= Len(child) /\ mem[s].run <= Len(child)
                       /\ stale.rows[s].run <= Len(child)

\* What each place of the starter and of the call implies of the variables they use.
PlacesInv ==
  /\ Committing => commit \in [shard : Shards, text : Texts, back : {"reconciling", "hitting", "collecting"}]
  /\ pc \in {"submitting", "sending", "collecting"} => Len(child) > 0
  /\ Committing /\ commit.back = "collecting" => Len(child) > 0
  /\ starter \in {"none", "manifest"} => job = None
  /\ starter \in {"ledger", "waiting"} => job # None
  /\ job = None => pc = "free"
  /\ fresh => starter = "waiting" /\ intent = "resume"
  /\ pc = "free" => ~fresh /\ intent = "resume" /\ memJob = "running" /\ mem = NewLedger.rows
  /\ intent = "cancel" => pc \in {"reading", "saving"}
  /\ intent = "commit" => pc \in {"reading", "reviewing"} /\ signed \in [Shards -> Texts]
  /\ pc = "reviewing" => intent = "commit"

TypeInv == TypeOK /\ LedgersInv /\ RunsInv /\ PlacesInv

\* The holder of a cancelled ledger cannot do more than write it again; and it has a
\* cancelled ledger if it read the ledger after the cancellation.
CancelInv ==
  /\ memJob = "cancelled" => pc \in {"reading", "saving", "reviewing"}
  /\ memJob = "cancelled" /\ pc = "saving" => intent = "cancel"
  /\ pc = "saving" /\ intent = "cancel" => memJob = "cancelled"
  /\ job = "cancelled" /\ pc # "free" /\ ~fresh => memJob = "cancelled"
  /\ fresh /\ stale.job = "cancelled" => memJob = "cancelled"

\* Where the starter's pass has not sent anything yet.
Unsent ==
  \/ pc \in {"free", "reading", "reconciling", "looking", "hitting", "leasing", "leased",
             "preparing", "submitting", "reviewing"}
  \/ Committing /\ commit.back # "collecting"

\* Live, only the starter sends, and what is left of its batch has not been sent.
LiveInv ==
  lane = "live" =>
    /\ (starter # "done" /\ (fresh => Unsent)) => \A s \in Shards : sent[s] = 0
    /\ pc = "sending" => fresh /\ \A s \in left : sent[s] = 0
    /\ \A s \in Shards : sent[s] <= 1

\* What a review or a commit has in hand was signed.
ApprovalInv ==
  /\ MemoryIsApproved
  /\ signed # None => \A s \in Shards : <<s, signed[s]>> \in approved
  /\ intent = "commit" => \A s \in Shards : <<s, signed[s]>> \in approved
  /\ Committing /\ commit.back = "hitting" => <<commit.shard, commit.text>> \in approved

\* A shard that has succeeded is published; its proof is missing only if a
\* publication failed, or is at hand.
Out(s)       == output[s] # None
Published(s) == Out(s) /\ (faults = 0 => proof[s] # None)
AtHand(s)    == pc = "proof" /\ commit.shard = s

\* A ledger is cancelled if a shard is, and completed if every shard has succeeded.
Coherent(status, ledger) ==
  /\ status # "cancelled" => \A s \in Shards : ledger[s].status # "cancelled"
  /\ status = "completed" => \A s \in Shards : ledger[s].status = "succeeded"

\* The publications: a proof is that of the output, until somebody edits it.
FilesCert ==
  /\ \A s \in Shards : proof[s] # None => Out(s) /\ (changes = 0 => proof[s].text = output[s])
  /\ pc = "proof" => Out(commit.shard) /\ (changes = 0 => output[commit.shard] = commit.text)
  /\ pc = "checkpoint" => proof[commit.shard] # None

\* The ledger on disk, under its checkpoints.
RowsCert ==
  /\ \A s \in Shards : rows[s].status = "succeeded" \/ s \in noted => Published(s)
  /\ \A s \in Shards : rows[s].status = "cancelled" => job = "cancelled"
  /\ job = "completed" => \A s \in Shards : rows[s].status = "succeeded" \/ s \in noted

\* The ledger the starter read before it had the lock.
StaleCert ==
  /\ \A s \in Shards : stale.rows[s].status = "succeeded" => Published(s)
  /\ Coherent(stale.job, stale.rows)

\* The ledger of the holder.
MemCert ==
  /\ \A s \in Shards : mem[s].status = "succeeded" => Published(s) \/ AtHand(s)
  /\ Coherent(memJob, mem)
  /\ pc = "proof" => mem[commit.shard].status = "succeeded"
  /\ memJob = "completed" => /\ pc \in {"reading", "reconciling", "looking", "saving", "reviewing"}
                             /\ pc = "looking" => batch = {} /\ left = {}

CertInv == FilesCert /\ RowsCert /\ StaleCert /\ MemCert

LEMMA StepCancelInv ==
  ASSUME TypeInv, CancelInv, [Next]_vars
  PROVE  CancelInv'
<1> USE NoneAssumption
<1> USE DEF settingVars, startVars, ledgerVars, fileVars, memoryVars, holderVars, passVars,
           childVars, boundVars, CancelInv, TypeInv, PlacesInv, Committing, NewLedger, Unworked
<1>1. CASE StartManifest
  BY <1>1 DEF StartManifest
<1>2. ASSUME NEW e \in BOOLEAN, StartLedger(e) PROVE CancelInv'
  BY <1>2 DEF StartLedger, NewLedger, NewRow
<1>3. CASE StartRead
  BY <1>3 DEF StartRead, View, OnlyIn, Succeeded
<1>4. CASE StartLocks
  BY <1>4 DEF StartLocks
<1>5. CASE StartRefused
  BY <1>5 DEF StartRefused, NewLedger, NewRow
<1>6. CASE Cancel
  BY <1>6 DEF Cancel, OnlyIn, Cancelled
<1>7. CASE StopEarly
  BY <1>7 DEF StopEarly, Release
<1>8. CASE Recover
  BY <1>8 DEF Recover, Recoverable, OnlyIn, Succeeded
<1>9. CASE Reconcile
  BY <1>9 DEF Reconcile, StartCommit, Interrupted, Quarantined
<1>10. CASE Gate
  BY <1>10 DEF Gate, Conclude, FinalStatus
<1>11. CASE LookUp
  BY <1>11 DEF LookUp, StartCommit, Known, Looking
<1>12. CASE InputRefused
  BY <1>12 DEF InputRefused, Release, Looking
<1>13. CASE Looked
  BY <1>13 DEF Looked, Conclude, FinalStatus, Looking
<1>14. CASE Lease
  BY <1>14 DEF Lease, OnlyIn, Selected, Leased, Quarantined
<1>15. CASE SaveLeases
  BY <1>15 DEF SaveLeases, Conclude, FinalStatus
<1>16. CASE PrepareRun
  BY <1>16 DEF PrepareRun
<1>17. CASE Submit
  BY <1>17 DEF Submit, BatchFails, OnlyIn, Failed, Authorised
<1>18. ASSUME NEW s \in Shards, NEW t \in Texts \cup {None}, Send(s, t) PROVE CancelInv'
  BY <1>18 DEF Send
<1>19. CASE RunEnds
  BY <1>19 DEF RunEnds
<1>20. CASE Collect
  BY <1>20 DEF Collect, StartCommit, Failed
<1>21. CASE Collected
  BY <1>21 DEF Collected
<1>22. CASE End
  BY <1>22 DEF End, Conclude, FinalStatus
<1>23. CASE Save
  BY <1>23 DEF Save, Release
<1>24. CASE PublishOutput
  BY <1>24 DEF PublishOutput, Continue, CommitFails, BatchFails, Release, OnlyIn, Failed, Succeeded
<1>25. CASE PublishProof
  BY <1>25 DEF PublishProof, Continue, CommitFails, BatchFails, Release, OnlyIn, Failed
<1>26. CASE WriteCheckpoint
  BY <1>26 DEF WriteCheckpoint, Continue
<1>27. CASE Review
  BY <1>27 DEF Review, Continue, Release
<1>28. CASE CommitMemory
  BY <1>28 DEF CommitMemory, Release, Remembered, ReceiptMatches
<1>29. CASE Stop
  BY <1>29 DEF Stop, Release
<1>30. CASE CrashStarter
  BY <1>30 DEF CrashStarter, NewLedger, NewRow
<1>31. CASE RunFault
  BY <1>31 DEF RunFault, BatchFails, OnlyIn, Failed
<1>32. CASE CommitFault
  BY <1>32 DEF CommitFault, CommitFails, BatchFails, Release, OnlyIn, Failed
<1>33. ASSUME NEW s \in Shards, EditSource(s) PROVE CancelInv'
  BY <1>33 DEF EditSource
<1>34. ASSUME NEW s \in Shards, NEW t \in Texts, EditOutput(s, t) PROVE CancelInv'
  BY <1>34 DEF EditOutput
<1>35. CASE OwnerSigns
  BY <1>35 DEF OwnerSigns, Validated, View, OnlyIn, Succeeded
<1>36. ASSUME NEW what \in {"resume", "cancel", "commit"}, Begin(what) PROVE CancelInv'
  BY <1>36 DEF Begin, View, OnlyIn, Succeeded
<1>37. ASSUME NEW s \in Shards, BackoffElapses(s) PROVE CancelInv'
  BY <1>37 DEF BackoffElapses, Due
<1>38. CASE UNCHANGED vars
  BY <1>38 DEF vars
<1> QED
  BY <1>1, <1>2, <1>3, <1>4, <1>5, <1>6, <1>7, <1>8, <1>9, <1>10, <1>11, <1>12, <1>13, <1>14,
     <1>15, <1>16, <1>17, <1>18, <1>19, <1>20, <1>21, <1>22, <1>23, <1>24, <1>25, <1>26, <1>27,
     <1>28, <1>29, <1>30, <1>31, <1>32, <1>33, <1>34, <1>35, <1>36, <1>37, <1>38
     DEF Next, Starter, HolderStep, Fault, Edit

LEMMA StepApprovalInv ==
  ASSUME TypeInv, TypeInv', ApprovalInv, [Next]_vars
  PROVE  ApprovalInv'
<1> USE NoneAssumption
<1> USE DEF settingVars, startVars, ledgerVars, fileVars, memoryVars, holderVars, passVars,
           childVars, boundVars, ApprovalInv, MemoryIsApproved, TypeInv, PlacesInv, TypeOK,
           Committing, Unworked, MemoryRow, Proof
<1>1. CASE StartManifest
  BY <1>1 DEF StartManifest
<1>2. ASSUME NEW e \in BOOLEAN, StartLedger(e) PROVE ApprovalInv'
  BY <1>2 DEF StartLedger, NewLedger, NewRow
<1>3. CASE StartRead
  BY <1>3 DEF StartRead, View, OnlyIn, Succeeded
<1>4. CASE StartLocks
  BY <1>4 DEF StartLocks
<1>5. CASE StartRefused
  BY <1>5 DEF StartRefused, NewLedger, NewRow
<1>6. CASE Cancel
  BY <1>6 DEF Cancel, OnlyIn, Cancelled
<1>7. CASE StopEarly
  BY <1>7 DEF StopEarly, Release
<1>8. CASE Recover
  BY <1>8 DEF Recover, Recoverable, OnlyIn, Succeeded
<1>9. CASE Reconcile
  <2>1. Committing' => commit'.back # "hitting"
    BY <1>9 DEF Reconcile, StartCommit
  <2> QED
    BY <1>9, <2>1 DEF Reconcile
<1>10. CASE Gate
  BY <1>10 DEF Gate, Conclude, Candidates, Candidate
<1>11. CASE LookUp
  <2>1. Committing' => <<commit'.shard, commit'.text>> \in approved'
    <3>1. PICK s : /\ UNCHANGED approved
                   /\ \/ Known(s) /\ StartCommit(s, memory[s].text, "hitting")
                      \/ UNCHANGED <<pc, commit>>
      BY <1>11 DEF LookUp
    <3>2. CASE Known(s) /\ StartCommit(s, memory[s].text, "hitting")
      <4>1. s \in Shards
        BY <1>11, <3>2 DEF LookUp, StartCommit
      <4> QED
        BY <3>1, <3>2, <4>1 DEF StartCommit, Known
    <3>3. CASE UNCHANGED <<pc, commit>>
      BY <1>11, <3>1, <3>3 DEF LookUp, Looking
    <3> QED
      BY <3>1, <3>2, <3>3
  <2> QED
    BY <1>11, <2>1 DEF LookUp
<1>12. CASE InputRefused
  BY <1>12 DEF InputRefused, Release, Looking
<1>13. CASE Looked
  BY <1>13 DEF Looked, Conclude, Looking
<1>14. CASE Lease
  BY <1>14 DEF Lease, OnlyIn, Selected, Leased, Quarantined
<1>15. CASE SaveLeases
  BY <1>15 DEF SaveLeases, Conclude
<1>16. CASE PrepareRun
  BY <1>16 DEF PrepareRun
<1>17. CASE Submit
  BY <1>17 DEF Submit, BatchFails, OnlyIn, Failed, Authorised
<1>18. ASSUME NEW s \in Shards, NEW t \in Texts \cup {None}, Send(s, t) PROVE ApprovalInv'
  BY <1>18 DEF Send
<1>19. CASE RunEnds
  BY <1>19 DEF RunEnds
<1>20. CASE Collect
  <2>1. Committing' => commit'.back # "hitting"
    BY <1>20 DEF Collect, StartCommit
  <2> QED
    BY <1>20, <2>1 DEF Collect
<1>21. CASE Collected
  BY <1>21 DEF Collected
<1>22. CASE End
  BY <1>22 DEF End, Conclude, OnlyIn, Quarantined
<1>23. CASE Save
  BY <1>23 DEF Save, Release
<1>24. CASE PublishOutput
  BY <1>24 DEF PublishOutput, Continue, CommitFails, BatchFails, Release, OnlyIn, Failed, Succeeded
<1>25. CASE PublishProof
  <2>1. Committing' => commit' = commit /\ Committing
    BY <1>25 DEF PublishProof, Continue, CommitFails, BatchFails, Release
  <2>2. intent' = "commit" => intent = "commit"
    BY <1>25 DEF PublishProof, Continue, CommitFails, BatchFails, Release
  <2>3. \A s \in Shards : \/ proof'[s] = proof[s]
                         \/ /\ commit.shard = s
                            /\ proof'[s] = [text |-> commit.text, memory |-> commit.back = "hitting"]
    BY <1>25 DEF PublishProof
  <2>4. UNCHANGED <<memory, approved, signed>>
    BY <1>25 DEF PublishProof
  <2>5. \A s \in Shards : proof'[s] # None /\ proof'[s].memory => <<s, proof'[s].text>> \in approved
    <3> TAKE s \in Shards
    <3>1. CASE proof'[s] = proof[s]
      BY <3>1
    <3>2. CASE commit.shard = s /\ proof'[s] = [text |-> commit.text, memory |-> commit.back = "hitting"]
      <4>1. Committing
        BY <1>25 DEF PublishProof
      <4>2. proof'[s].text = commit.text /\ proof'[s].memory = (commit.back = "hitting")
        BY ONLY <3>2
      <4> QED
        BY <3>2, <4>1, <4>2
    <3> QED
      BY <2>3, <3>1, <3>2
  <2> QED
    BY <2>1, <2>2, <2>4, <2>5
<1>26. CASE WriteCheckpoint
  BY <1>26 DEF WriteCheckpoint, Continue
<1>27. CASE Review
  BY <1>27 DEF Review, Continue, Release
<1>28. CASE CommitMemory
  <2>1. ~Committing' /\ intent' = "resume" /\ UNCHANGED <<proof, approved, signed>>
    BY <1>28 DEF CommitMemory, Release
  <2>2. memory' = memory \/ (signed = output /\ memory' = Remembered)
    BY <1>28 DEF CommitMemory, ReceiptMatches
  <2>3. intent = "commit"
    BY <1>28 DEF CommitMemory
  <2>4. \A s \in Shards : memory'[s] # None /\ memory'[s].reviewed => <<s, memory'[s].text>> \in approved
    <3> TAKE s \in Shards
    <3>1. memory'[s] = memory[s] \/ (memory'[s] = [text |-> signed[s], reviewed |-> TRUE])
      BY <2>2 DEF Remembered
    <3> QED
      <4>1. CASE memory'[s] = memory[s]
        BY <4>1
      <4>2. CASE memory'[s] = [text |-> signed[s], reviewed |-> TRUE]
        <5>1. memory'[s].text = signed[s]
          BY ONLY <4>2
        <5> QED
          BY <2>3, <5>1
      <4> QED
        BY <3>1, <4>1, <4>2
  <2> QED
    BY <2>1, <2>4
<1>29. CASE Stop
  BY <1>29 DEF Stop, Release
<1>30. CASE CrashStarter
  BY <1>30 DEF CrashStarter, NewLedger, NewRow
<1>31. CASE RunFault
  BY <1>31 DEF RunFault, BatchFails, OnlyIn, Failed
<1>32. CASE CommitFault
  BY <1>32 DEF CommitFault, CommitFails, BatchFails, Release, OnlyIn, Failed
<1>33. ASSUME NEW s \in Shards, EditSource(s) PROVE ApprovalInv'
  BY <1>33 DEF EditSource
<1>34. ASSUME NEW s \in Shards, NEW t \in Texts, EditOutput(s, t) PROVE ApprovalInv'
  BY <1>34 DEF EditOutput
<1>35. CASE OwnerSigns
  BY <1>35 DEF OwnerSigns, Validated, View, OnlyIn, Succeeded
<1>36. ASSUME NEW what \in {"resume", "cancel", "commit"}, Begin(what) PROVE ApprovalInv'
  BY <1>36 DEF Begin, View, OnlyIn, Succeeded
<1>37. ASSUME NEW s \in Shards, BackoffElapses(s) PROVE ApprovalInv'
  BY <1>37 DEF BackoffElapses, Due
<1>38. CASE UNCHANGED vars
  BY <1>38 DEF vars
<1> QED
  BY <1>1, <1>2, <1>3, <1>4, <1>5, <1>6, <1>7, <1>8, <1>9, <1>10, <1>11, <1>12, <1>13, <1>14,
     <1>15, <1>16, <1>17, <1>18, <1>19, <1>20, <1>21, <1>22, <1>23, <1>24, <1>25, <1>26, <1>27,
     <1>28, <1>29, <1>30, <1>31, <1>32, <1>33, <1>34, <1>35, <1>36, <1>37, <1>38
     DEF Next, Starter, HolderStep, Fault, Edit

LEMMA StepLiveInv ==
  ASSUME TypeInv, TypeInv', LiveInv, [Next]_vars
  PROVE  LiveInv'
<1> USE NoneAssumption
<1> USE DEF settingVars, startVars, ledgerVars, fileVars, memoryVars, holderVars, passVars,
           childVars, boundVars, LiveInv, TypeInv, PlacesInv, TypeOK, Committing, Unworked, Unsent
<1>1. CASE StartManifest
  BY <1>1 DEF StartManifest
<1>2. ASSUME NEW e \in BOOLEAN, StartLedger(e) PROVE LiveInv'
  BY <1>2 DEF StartLedger, NewLedger, NewRow
<1>3. CASE StartRead
  BY <1>3 DEF StartRead, View, OnlyIn, Succeeded
<1>4. CASE StartLocks
  BY <1>4 DEF StartLocks
<1>5. CASE StartRefused
  BY <1>5 DEF StartRefused, NewLedger, NewRow
<1>6. CASE Cancel
  BY <1>6 DEF Cancel, OnlyIn, Cancelled
<1>7. CASE StopEarly
  BY <1>7 DEF StopEarly, Release
<1>8. CASE Recover
  BY <1>8 DEF Recover, Recoverable, OnlyIn, Succeeded
<1>9. CASE Reconcile
  BY <1>9 DEF Reconcile, StartCommit, Interrupted, Quarantined
<1>10. CASE Gate
  BY <1>10 DEF Gate, Conclude, Candidates, Candidate
<1>11. CASE LookUp
  BY <1>11 DEF LookUp, StartCommit, Known, Looking
<1>12. CASE InputRefused
  BY <1>12 DEF InputRefused, Release, Looking
<1>13. CASE Looked
  BY <1>13 DEF Looked, Conclude, Looking
<1>14. CASE Lease
  BY <1>14 DEF Lease, OnlyIn, Selected, Leased, Quarantined
<1>15. CASE SaveLeases
  BY <1>15 DEF SaveLeases, Conclude
<1>16. CASE PrepareRun
  BY <1>16 DEF PrepareRun
<1>17. CASE Submit
  BY <1>17 DEF Submit, BatchFails, OnlyIn, Failed, Authorised
<1>18. ASSUME NEW s \in Shards, NEW t \in Texts \cup {None}, Send(s, t) PROVE LiveInv'
  BY <1>18 DEF Send
<1>19. CASE RunEnds
  BY <1>19 DEF RunEnds
<1>20. CASE Collect
  <2>1. pc' \in {"collecting", "output"} /\ UNCHANGED <<lane, starter, fresh, sent>>
    BY <1>20 DEF Collect, StartCommit
  <2>2. Committing' => commit'.back = "collecting"
    BY <1>20 DEF Collect, StartCommit
  <2>3. ~Unsent /\ ~Unsent'
    BY <1>20, <2>1, <2>2 DEF Collect
  <2>4. UNCHANGED <<lane, starter, fresh, sent>> /\ pc' # "sending"
    BY <1>20 DEF Collect, StartCommit
  <2> QED
    BY <2>3, <2>4
<1>21. CASE Collected
  BY <1>21 DEF Collected
<1>22. CASE End
  BY <1>22 DEF End, Conclude, OnlyIn, Quarantined
<1>23. CASE Save
  BY <1>23 DEF Save, Release
<1>24. CASE PublishOutput
  BY <1>24 DEF PublishOutput, Continue, CommitFails, BatchFails, Release, OnlyIn, Failed, Succeeded
<1>25. CASE PublishProof
  BY <1>25 DEF PublishProof, Continue, CommitFails, BatchFails, Release, OnlyIn, Failed
<1>26. CASE WriteCheckpoint
  BY <1>26 DEF WriteCheckpoint, Continue
<1>27. CASE Review
  BY <1>27 DEF Review, Continue, Release
<1>28. CASE CommitMemory
  BY <1>28 DEF CommitMemory, Release, Remembered, ReceiptMatches
<1>29. CASE Stop
  BY <1>29 DEF Stop, Release
<1>30. CASE CrashStarter
  BY <1>30 DEF CrashStarter, NewLedger, NewRow
<1>31. CASE RunFault
  BY <1>31 DEF RunFault, BatchFails, OnlyIn, Failed
<1>32. CASE CommitFault
  BY <1>32 DEF CommitFault, CommitFails, BatchFails, Release, OnlyIn, Failed
<1>33. ASSUME NEW s \in Shards, EditSource(s) PROVE LiveInv'
  BY <1>33 DEF EditSource
<1>34. ASSUME NEW s \in Shards, NEW t \in Texts, EditOutput(s, t) PROVE LiveInv'
  BY <1>34 DEF EditOutput
<1>35. CASE OwnerSigns
  BY <1>35 DEF OwnerSigns, Validated, View, OnlyIn, Succeeded
<1>36. ASSUME NEW what \in {"resume", "cancel", "commit"}, Begin(what) PROVE LiveInv'
  BY <1>36 DEF Begin, View, OnlyIn, Succeeded
<1>37. ASSUME NEW s \in Shards, BackoffElapses(s) PROVE LiveInv'
  BY <1>37 DEF BackoffElapses, Due
<1>38. CASE UNCHANGED vars
  BY <1>38 DEF vars
<1> QED
  BY <1>1, <1>2, <1>3, <1>4, <1>5, <1>6, <1>7, <1>8, <1>9, <1>10, <1>11, <1>12, <1>13, <1>14,
     <1>15, <1>16, <1>17, <1>18, <1>19, <1>20, <1>21, <1>22, <1>23, <1>24, <1>25, <1>26, <1>27,
     <1>28, <1>29, <1>30, <1>31, <1>32, <1>33, <1>34, <1>35, <1>36, <1>37, <1>38
     DEF Next, Starter, HolderStep, Fault, Edit

\* What the code writes into a shard's row is a row, and has the status it is named for.
LEMMA RowOps ==
  ASSUME maxRetries \in Nat
  PROVE  \A row \in Row :
           /\ Leased(row) \in Row /\ Leased(row).status = "running" /\ Leased(row).run = row.run
           /\ Succeeded(row) \in Row /\ Succeeded(row).status = "succeeded" /\ Succeeded(row).run = row.run
           /\ Quarantined(row) \in Row /\ Quarantined(row).status = "quarantined"
           /\ Quarantined(row).run = row.run
           /\ Failed(row) \in Row /\ Failed(row).status = "failed" /\ Failed(row).run = row.run
           /\ Due(row) \in Row /\ Due(row).status = row.status /\ Due(row).run = row.run
           /\ Cancelled(row) \in Row /\ Cancelled(row).run = row.run
           /\ Cancelled(row).status = IF row.status \in Open THEN "cancelled" ELSE row.status
<1> USE DEF Row, Statuses, Open
<1> TAKE row \in Row
<1>0. Leased(row) \in Row /\ Leased(row).status = "running" /\ Leased(row).run = row.run
  <2>1. row.attempts + 1 \in Nat
    OBVIOUS
  <2>2. \A n \in Nat : LET new == [row EXCEPT !.status = "running", !.attempts = n]
                       IN  new \in Row /\ new.status = "running" /\ new.run = row.run
    OBVIOUS
  <2> QED
    BY <2>1, <2>2 DEF Leased
<1>1. Succeeded(row) \in Row /\ Succeeded(row).status = "succeeded" /\ Succeeded(row).run = row.run
  BY DEF Succeeded
<1>2. /\ Quarantined(row) \in Row /\ Quarantined(row).status = "quarantined"
      /\ Quarantined(row).run = row.run
  BY DEF Quarantined
<1>3. Failed(row) \in Row /\ Failed(row).status = "failed" /\ Failed(row).run = row.run
  BY DEF Failed
<1>4. Due(row) \in Row /\ Due(row).status = row.status /\ Due(row).run = row.run
  BY DEF Due
<1>5. /\ Cancelled(row) \in Row /\ Cancelled(row).run = row.run
      /\ Cancelled(row).status = IF row.status \in Open THEN "cancelled" ELSE row.status
  BY DEF Cancelled
<1> QED
  BY <1>0, <1>1, <1>2, <1>3, <1>4, <1>5

LEMMA NewLedgerOK ==
  /\ NewLedger \in Ledger /\ NewLedger.job = "running" /\ NewLedger.rows \in [Shards -> Row]
  /\ \A s \in Shards : NewLedger.rows[s].status = "pending" /\ NewLedger.rows[s].run = 0
<1>1. NewRow \in Row /\ NewRow.status = "pending" /\ NewRow.run = 0
  BY DEF NewRow, Row, Statuses, Open
<1>2. NewLedger.rows = [s \in Shards |-> NewRow] /\ NewLedger.job = "running"
  BY DEF NewLedger
<1>3. NewLedger.rows \in [Shards -> Row]
  BY <1>1, <1>2
<1>4. NewLedger \in Ledger
  BY <1>3 DEF NewLedger, Ledger, JobStatuses
<1> QED
  BY <1>1, <1>2, <1>3, <1>4

\* Which step writes what.
Writes ==
  /\ UNCHANGED <<lane, size, raw, maxRetries>>
  /\ UNCHANGED child \/ PrepareRun \/ \E s \in Shards, t \in Texts \cup {None} : Send(s, t)
  /\ UNCHANGED sent \/ \E s \in Shards, t \in Texts \cup {None} : Send(s, t)
  /\ UNCHANGED output \/ PublishOutput \/ \E s \in Shards, t \in Texts : EditOutput(s, t)
  /\ UNCHANGED proof \/ PublishProof
  /\ pc' = "proof" => PublishOutput \/ (pc = "proof" /\ UNCHANGED commit)
  /\ UNCHANGED memory \/ CommitMemory
  /\ UNCHANGED <<approved, signed>> \/ OwnerSigns
  /\ UNCHANGED edited \/ \E s \in Shards : EditSource(s)
  /\ \/ UNCHANGED <<job, rows, noted>>
     \/ (\E e \in BOOLEAN : StartLedger(e)) \/ Looked \/ SaveLeases \/ PrepareRun \/ Save
     \/ WriteCheckpoint \/ \E s \in Shards : BackoffElapses(s)
  /\ \/ UNCHANGED stale \/ StartRead \/ stale' = NewLedger
     \/ \E s \in Shards : BackoffElapses(s)
  /\ \/ memJob' \in {memJob, stale.job, "cancelled", "running", FinalStatus(mem')}
     \/ (memJob' = job /\ job # None)
  /\ \/ UNCHANGED boundVars
     \/ /\ MayFail
        /\ \/ (crashes' = crashes + 1 /\ UNCHANGED <<faults, changes>>)
           \/ (faults' = faults + 1 /\ UNCHANGED <<crashes, changes>>)
           \/ (changes' = changes + 1 /\ UNCHANGED <<crashes, faults>>)

LEMMA Writers ==
  ASSUME TypeInv, [Next]_vars
  PROVE  Writes
<1>0. Committing => commit.back \in {"reconciling", "hitting", "collecting"}
  BY DEF TypeInv, PlacesInv
<1> USE DEF settingVars, startVars, ledgerVars, fileVars, memoryVars, holderVars, passVars,
           childVars, boundVars
<1> USE DEF Writes
<1>1. CASE StartManifest
  BY <1>1 DEF StartManifest
<1>2. ASSUME NEW e \in BOOLEAN, StartLedger(e) PROVE Writes
  BY <1>2 DEF StartLedger
<1>3. CASE StartRead
  BY <1>3 DEF StartRead
<1>4. CASE StartLocks
  BY <1>4 DEF StartLocks
<1>5. CASE StartRefused
  BY <1>5 DEF StartRefused
<1>6. CASE Cancel
  BY <1>6 DEF Cancel
<1>7. CASE StopEarly
  BY <1>7 DEF StopEarly, Release
<1>8. CASE Recover
  BY <1>8 DEF Recover
<1>9. CASE Reconcile
  BY <1>9 DEF Reconcile, StartCommit
<1>10. CASE Gate
  BY <1>10 DEF Gate, Conclude
<1>11. CASE LookUp
  BY <1>11 DEF LookUp, StartCommit, Looking
<1>12. CASE InputRefused
  BY <1>12 DEF InputRefused, Release, Looking
<1>13. CASE Looked
  BY <1>13 DEF Looked, Conclude, Looking
<1>14. CASE Lease
  BY <1>14 DEF Lease
<1>15. CASE SaveLeases
  BY <1>15 DEF SaveLeases, Conclude
<1>16. CASE PrepareRun
  BY <1>16 DEF PrepareRun
<1>17. CASE Submit
  BY <1>17 DEF Submit, BatchFails
<1>18. ASSUME NEW s \in Shards, NEW t \in Texts \cup {None}, Send(s, t) PROVE Writes
  BY <1>18 DEF Send
<1>19. CASE RunEnds
  BY <1>19 DEF RunEnds
<1>20. CASE Collect
  BY <1>20 DEF Collect, StartCommit
<1>21. CASE Collected
  BY <1>21 DEF Collected
<1>22. CASE End
  BY <1>22 DEF End, Conclude
<1>23. CASE Save
  BY <1>23 DEF Save, Release
<1>24. CASE PublishOutput
  BY <1>24 DEF PublishOutput, Continue, CommitFails, BatchFails, Release
<1>25. CASE PublishProof
  BY <1>25, <1>0 DEF PublishProof, Continue, CommitFails, BatchFails, Release, Committing
<1>26. CASE WriteCheckpoint
  BY <1>26, <1>0 DEF WriteCheckpoint, Continue, Committing
<1>27. CASE Review
  BY <1>27 DEF Review, Continue, Release
<1>28. CASE CommitMemory
  BY <1>28 DEF CommitMemory, Release
<1>29. CASE Stop
  BY <1>29 DEF Stop, Release
<1>30. CASE CrashStarter
  BY <1>30 DEF CrashStarter
<1>31. CASE RunFault
  BY <1>31 DEF RunFault, BatchFails
<1>32. CASE CommitFault
  BY <1>32 DEF CommitFault, CommitFails, BatchFails, Release
<1>33. ASSUME NEW s \in Shards, EditSource(s) PROVE Writes
  BY <1>33 DEF EditSource
<1>34. ASSUME NEW s \in Shards, NEW t \in Texts, EditOutput(s, t) PROVE Writes
  BY <1>34 DEF EditOutput
<1>35. CASE OwnerSigns
  BY <1>35 DEF OwnerSigns
<1>36. ASSUME NEW what \in {"resume", "cancel", "commit"}, Begin(what) PROVE Writes
  BY <1>36 DEF Begin
<1>37. ASSUME NEW s \in Shards, BackoffElapses(s) PROVE Writes
  BY <1>37 DEF BackoffElapses
<1>38. CASE UNCHANGED vars
  BY <1>38 DEF vars
<1> QED
  BY <1>1, <1>2, <1>3, <1>4, <1>5, <1>6, <1>7, <1>8, <1>9, <1>10, <1>11, <1>12, <1>13, <1>14,
     <1>15, <1>16, <1>17, <1>18, <1>19, <1>20, <1>21, <1>22, <1>23, <1>24, <1>25, <1>26, <1>27,
     <1>28, <1>29, <1>30, <1>31, <1>32, <1>33, <1>34, <1>35, <1>36, <1>37, <1>38
     DEF Next, Starter, HolderStep, Fault, Edit

\* What is published stays so, and a counter that is zero has been zero.
LEMMA PublishedStays ==
  ASSUME TypeInv, [Next]_vars
  PROVE  /\ \A s \in Shards : /\ Out(s) => Out(s)'
                              /\ proof[s] # None => proof'[s] = proof[s]
                              /\ output'[s] = output[s] \/ changes' # 0 \/ ~Out(s)
         /\ faults' = 0 => faults = 0
         /\ changes' = 0 => changes = 0
<1>0. /\ output \in [Shards -> Texts \cup {None}]
      /\ proof \in [Shards -> Proof \cup {None}]
      /\ faults \in Nat /\ changes \in Nat
      /\ Committing => commit.shard \in Shards /\ commit.text \in Texts
  BY DEF TypeInv, PlacesInv, TypeOK
<1>1. (faults' = 0 => faults = 0) /\ (changes' = 0 => changes = 0)
  BY <1>0, Writers DEF Writes, boundVars
<1>2. \A s \in Shards : /\ Out(s) => Out(s)'
                        /\ output'[s] = output[s] \/ changes' # 0 \/ ~Out(s)
  <2>1. CASE PublishOutput
    BY <1>0, <2>1, NoneAssumption DEF PublishOutput, Out, Committing
  <2>2. ASSUME NEW s \in Shards, NEW t \in Texts, EditOutput(s, t)
        PROVE  changes' # 0 /\ \A r \in Shards : Out(r) => Out(r)'
    BY <1>0, <2>2, NoneAssumption DEF EditOutput, Out
  <2>3. CASE UNCHANGED output
    BY <2>3 DEF Out
  <2> QED
    BY <2>1, <2>2, <2>3, Writers DEF Writes
<1>3. \A s \in Shards : proof[s] # None => proof'[s] = proof[s]
  <2>1. CASE PublishProof
    BY <1>0, <2>1 DEF PublishProof
  <2> QED
    BY <2>1, Writers DEF Writes
<1> QED
  BY <1>1, <1>2, <1>3

LEMMA StepStaleCert ==
  ASSUME TypeInv, CertInv, [Next]_vars
  PROVE  StaleCert'
<1> USE NoneAssumption
<1> USE DEF settingVars, startVars, ledgerVars, fileVars, memoryVars, holderVars, passVars,
           childVars, boundVars, StaleCert, RowsCert, CertInv, Coherent
<1>0. /\ rows \in [Shards -> Row] /\ mem \in [Shards -> Row] /\ noted \subseteq Shards
      /\ stale \in Ledger /\ stale.rows \in [Shards -> Row] /\ maxRetries \in Nat
  BY DEF TypeInv, PlacesInv, TypeOK, Ledger
<1>p. /\ \A s \in Shards : Published(s) => Published(s)'
      /\ \A s \in Shards : Out(s) => Out(s)'
  BY PublishedStays DEF Published
<1>r. \A row \in Row :
        /\ Succeeded(row).status = "succeeded" /\ Quarantined(row).status = "quarantined"
        /\ Leased(row).status = "running" /\ Failed(row).status = "failed"
        /\ Due(row).status = row.status
        /\ Cancelled(row).status = IF row.status \in Open THEN "cancelled" ELSE row.status
  BY <1>0, RowOps
<1>n. NewLedger.job = "running" /\ \A s \in Shards : NewLedger.rows[s].status = "pending"
  BY NewLedgerOK
<1> USE <1>p, <1>r, <1>n
<1>1. CASE StartRead
  BY <1>1, <1>0 DEF StartRead, View, OnlyIn
<1>2. ASSUME NEW s \in Shards, BackoffElapses(s) PROVE StaleCert'
  BY <1>2, <1>0 DEF BackoffElapses
<1>3. CASE UNCHANGED stale
  BY <1>3, <1>0
<1>4. CASE stale' = NewLedger
  BY <1>4, <1>0
<1> QED
  BY Writers, <1>1, <1>2, <1>3, <1>4 DEF Writes

\* After a failed commit nothing has newly succeeded; the ledger's status is as before,
\* or the process has none.
LEMMA CommitFailsMem ==
  ASSUME TypeInv, CommitFails, Committing
  PROVE  /\ pc' \in {"ending", "free"}
         /\ \/ /\ memJob' = memJob
               /\ \A s \in Shards : mem'[s].status \in {mem[s].status, "failed"}
            \/ /\ memJob' = "running"
               /\ \A s \in Shards : mem'[s].status = "pending"
<1>0. mem \in [Shards -> Row] /\ maxRetries \in Nat
  BY DEF TypeInv, PlacesInv, TypeOK
<1>1. CASE commit.back = "collecting"
  <2>1. pc' = "ending" /\ memJob' = memJob
    BY <1>1 DEF CommitFails, BatchFails
  <2>2. \A s \in Shards : mem'[s] \in {mem[s], Failed(mem[s])}
    BY <1>0, <1>1 DEF CommitFails, BatchFails, OnlyIn
  <2>3. \A s \in Shards : Failed(mem[s]).status = "failed"
    BY <1>0, RowOps
  <2> QED
    BY <2>1, <2>2, <2>3
<1>2. CASE commit.back # "collecting"
  BY <1>2, NewLedgerOK DEF CommitFails, Release
<1> QED
  BY <1>1, <1>2

\* The proof that is published is that of a published output.
LEMMA ProofPublished ==
  ASSUME TypeInv, FilesCert, PublishProof, NEW s, s = commit.shard, proof[s] = None
  PROVE  proof'[s] # None /\ Published(s)'
<1>1. s \in Shards /\ commit.text \in Texts /\ Out(s)
  BY DEF PublishProof, TypeInv, PlacesInv, Committing, FilesCert
<1>2. [text |-> commit.text, memory |-> commit.back = "hitting"] \in Proof
  BY <1>1 DEF Proof
<1>3. s \in DOMAIN proof
  BY <1>1 DEF TypeInv, PlacesInv, TypeOK
<1>4. proof'[s] # None
  BY <1>2, <1>3, NoneAssumption DEF PublishProof
<1>5. output'[s] # None
  BY <1>1 DEF PublishProof, Out
<1> QED
  BY <1>4, <1>5 DEF Published, Out

LEMMA StepRowsCert ==
  ASSUME TypeInv, CertInv, [Next]_vars
  PROVE  RowsCert'
<1> USE NoneAssumption
<1> USE DEF settingVars, startVars, ledgerVars, fileVars, memoryVars, holderVars, passVars,
           childVars, boundVars, RowsCert, MemCert, CertInv, Coherent, AtHand
<1>0. /\ rows \in [Shards -> Row] /\ mem \in [Shards -> Row] /\ noted \subseteq Shards
      /\ stale \in Ledger /\ stale.rows \in [Shards -> Row] /\ maxRetries \in Nat
  BY DEF TypeInv, PlacesInv, TypeOK, Ledger
<1>p. /\ \A s \in Shards : Published(s) => Published(s)'
      /\ \A s \in Shards : Out(s) => Out(s)'
  BY PublishedStays DEF Published
<1>r. \A row \in Row :
        /\ Succeeded(row).status = "succeeded" /\ Quarantined(row).status = "quarantined"
        /\ Leased(row).status = "running" /\ Failed(row).status = "failed"
        /\ Due(row).status = row.status
        /\ Cancelled(row).status = IF row.status \in Open THEN "cancelled" ELSE row.status
  BY <1>0, RowOps
<1>n. NewLedger.job = "running" /\ \A s \in Shards : NewLedger.rows[s].status = "pending"
  BY NewLedgerOK
<1> USE <1>p, <1>r, <1>n
<1>1. ASSUME NEW e \in BOOLEAN, StartLedger(e) PROVE RowsCert'
  BY <1>1, <1>0 DEF StartLedger
<1>2. CASE Looked
  BY <1>2, <1>0 DEF Looked, Looking
<1>3. CASE SaveLeases
  BY <1>3, <1>0 DEF SaveLeases
<1>4. CASE PrepareRun
  BY <1>4, <1>0 DEF PrepareRun
<1>5. CASE Save
  BY <1>5, <1>0 DEF Save, Release
<1>6. CASE WriteCheckpoint
  <2>1. commit.shard \in Shards
    BY <1>6 DEF WriteCheckpoint, TypeInv, PlacesInv, Committing
  <2>2. UNCHANGED <<job, rows>> /\ noted' = noted \cup {commit.shard}
    BY <1>6 DEF WriteCheckpoint
  <2>3. \A s \in Shards : s = commit.shard => Published(s)'
    <3>1. \A s \in Shards : s = commit.shard => Published(s)
      BY <1>6 DEF WriteCheckpoint, FilesCert, Published
    <3> QED
      BY <3>1
  <2>4. \A s \in noted' : Published(s)'
    BY <1>0, <2>1, <2>2, <2>3
  <2> QED
    BY <2>2, <2>4
<1>7. ASSUME NEW s \in Shards, BackoffElapses(s) PROVE RowsCert'
  BY <1>7, <1>0 DEF BackoffElapses
<1>8. CASE UNCHANGED <<job, rows, noted>>
  BY <1>8, <1>0
<1> QED
  BY Writers, <1>1, <1>2, <1>3, <1>4, <1>5, <1>6, <1>7, <1>8 DEF Writes

LEMMA StepFilesCert ==
  ASSUME TypeInv, CertInv, [Next]_vars
  PROVE  FilesCert'
<1> USE NoneAssumption
<1> USE DEF settingVars, startVars, ledgerVars, fileVars, memoryVars, holderVars, passVars,
           childVars, boundVars, FilesCert, Out, CertInv
<1>0. /\ output \in [Shards -> Texts \cup {None}]
      /\ proof \in [Shards -> Proof \cup {None}]
      /\ changes \in Nat
      /\ Committing => /\ commit.shard \in Shards /\ commit.text \in Texts
                       /\ commit.back \in {"reconciling", "hitting", "collecting"}
  BY DEF TypeInv, PlacesInv, TypeOK
<1>1. CASE StartManifest
  BY <1>1, <1>0 DEF StartManifest
<1>2. ASSUME NEW e \in BOOLEAN, StartLedger(e) PROVE FilesCert'
  BY <1>2, <1>0 DEF StartLedger
<1>3. CASE StartRead
  BY <1>3, <1>0 DEF StartRead, View, OnlyIn
<1>4. CASE StartLocks
  BY <1>4, <1>0 DEF StartLocks
<1>5. CASE StartRefused
  BY <1>5, <1>0 DEF StartRefused
<1>6. CASE Cancel
  BY <1>6, <1>0 DEF Cancel, OnlyIn
<1>7. CASE StopEarly
  BY <1>7, <1>0 DEF StopEarly, Release
<1>8. CASE Recover
  BY <1>8, <1>0 DEF Recover, Recoverable, OnlyIn
<1>9. CASE Reconcile
  BY <1>9, <1>0 DEF Reconcile, StartCommit, Interrupted
<1>10. CASE Gate
  BY <1>10, <1>0 DEF Gate, Conclude
<1>11. CASE LookUp
  BY <1>11, <1>0 DEF LookUp, StartCommit, Looking
<1>12. CASE InputRefused
  BY <1>12, <1>0 DEF InputRefused, Release, Looking
<1>13. CASE Looked
  BY <1>13, <1>0 DEF Looked, Conclude
<1>14. CASE Lease
  BY <1>14, <1>0 DEF Lease, OnlyIn
<1>15. CASE SaveLeases
  BY <1>15, <1>0 DEF SaveLeases, Conclude
<1>16. CASE PrepareRun
  BY <1>16, <1>0 DEF PrepareRun
<1>17. CASE Submit
  BY <1>17, <1>0 DEF Submit, BatchFails, OnlyIn, Authorised
<1>18. ASSUME NEW s \in Shards, NEW t \in Texts \cup {None}, Send(s, t) PROVE FilesCert'
  BY <1>18, <1>0 DEF Send
<1>19. CASE RunEnds
  BY <1>19, <1>0 DEF RunEnds
<1>20. CASE Collect
  BY <1>20, <1>0 DEF Collect, StartCommit
<1>21. CASE Collected
  BY <1>21, <1>0 DEF Collected
<1>22. CASE End
  BY <1>22, <1>0 DEF End, Conclude
<1>23. CASE Save
  BY <1>23, <1>0 DEF Save, Release
<1>24. CASE PublishOutput
  BY <1>24, <1>0 DEF PublishOutput, Continue, CommitFails, BatchFails, Release, Committing
<1>25. CASE PublishProof
  <2>0. /\ commit.shard \in Shards /\ commit.text \in Texts /\ output' = output /\ changes' = changes
        /\ pc' # "proof" /\ (pc' = "checkpoint" => commit' = commit /\ proof[commit.shard] = None)
    BY <1>25, <1>0 DEF PublishProof, Continue, TypeInv, PlacesInv, Committing, CommitFails, BatchFails, Release
  <2>1. \A s \in Shards : \/ proof'[s] = proof[s]
                         \/ /\ s = commit.shard
                            /\ proof'[s] = [text |-> commit.text, memory |-> commit.back = "hitting"]
    BY <1>25, <1>0 DEF PublishProof
  <2>2. \A s \in Shards : proof'[s] = proof[s] \/ (s = commit.shard /\ proof'[s].text = commit.text)
    <3> TAKE s \in Shards
    <3>1. CASE proof'[s] = [text |-> commit.text, memory |-> commit.back = "hitting"]
      BY <3>1, <2>1
    <3> QED
      BY <2>1, <3>1
  <2>3. pc' = "checkpoint" => proof'[commit.shard] # None
    BY <1>25, <2>0, ProofPublished
  <2> QED
    BY <1>25, <2>0, <2>2, <2>3 DEF PublishProof
<1>26. CASE WriteCheckpoint
  BY <1>26, <1>0 DEF WriteCheckpoint, Continue, Committing
<1>27. CASE Review
  BY <1>27, <1>0 DEF Review, Continue, Release
<1>28. CASE CommitMemory
  BY <1>28, <1>0 DEF CommitMemory, Release, Remembered, ReceiptMatches
<1>29. CASE Stop
  BY <1>29, <1>0 DEF Stop, Release
<1>30. CASE CrashStarter
  BY <1>30, <1>0 DEF CrashStarter
<1>31. CASE RunFault
  BY <1>31, <1>0 DEF RunFault, BatchFails, OnlyIn
<1>32. CASE CommitFault
  BY <1>32, <1>0 DEF CommitFault, CommitFails, BatchFails, Release, OnlyIn
<1>33. ASSUME NEW s \in Shards, EditSource(s) PROVE FilesCert'
  BY <1>33, <1>0 DEF EditSource
<1>34. ASSUME NEW s \in Shards, NEW t \in Texts, EditOutput(s, t) PROVE FilesCert'
  BY <1>34, <1>0 DEF EditOutput
<1>35. CASE OwnerSigns
  BY <1>35, <1>0 DEF OwnerSigns, Validated, View, OnlyIn
<1>36. ASSUME NEW what \in {"resume", "cancel", "commit"}, Begin(what) PROVE FilesCert'
  BY <1>36, <1>0 DEF Begin, View, OnlyIn
<1>37. ASSUME NEW s \in Shards, BackoffElapses(s) PROVE FilesCert'
  BY <1>37, <1>0 DEF BackoffElapses
<1>38. CASE UNCHANGED vars
  BY <1>38, <1>0 DEF vars
<1> QED
  BY <1>1, <1>2, <1>3, <1>4, <1>5, <1>6, <1>7, <1>8, <1>9, <1>10, <1>11, <1>12, <1>13, <1>14,
     <1>15, <1>16, <1>17, <1>18, <1>19, <1>20, <1>21, <1>22, <1>23, <1>24, <1>25, <1>26, <1>27,
     <1>28, <1>29, <1>30, <1>31, <1>32, <1>33, <1>34, <1>35, <1>36, <1>37, <1>38
     DEF Next, Starter, HolderStep, Fault, Edit

\* A ledger no shard of which is cancelled is not concluded as cancelled, and as
\* completed only if every shard has succeeded.
LEMMA FinalStatusCoherent ==
  ASSUME NEW led \in [Shards -> Row], \A s \in Shards : led[s].status # "cancelled"
  PROVE  /\ FinalStatus(led) # "cancelled"
         /\ FinalStatus(led) = "completed" => \A s \in Shards : led[s].status = "succeeded"
BY DEF FinalStatus, Row, Statuses, Open

LEMMA StepMemCert ==
  ASSUME TypeInv, CancelInv, CertInv, [Next]_vars
  PROVE  MemCert'
<1> USE NoneAssumption
<1> USE DEF settingVars, startVars, ledgerVars, fileVars, memoryVars, holderVars, passVars,
           childVars, boundVars, Committing,
        MemCert, RowsCert, StaleCert, CertInv, Coherent, AtHand, Open, Final, Statuses
<1>0. /\ rows \in [Shards -> Row] /\ mem \in [Shards -> Row] /\ noted \subseteq Shards
      /\ stale \in Ledger /\ stale.rows \in [Shards -> Row] /\ maxRetries \in Nat
      /\ batch \subseteq Shards /\ left \subseteq Shards
      /\ pc = "free" => memJob = "running" /\ mem = NewLedger.rows
      /\ Committing => commit.shard \in Shards /\ commit.back \in {"reconciling", "hitting", "collecting"}
  BY DEF TypeInv, PlacesInv, TypeOK, Ledger
<1>p. /\ \A s \in Shards : Published(s) => Published(s)'
      /\ \A s \in Shards : Out(s) => Out(s)'
  BY PublishedStays DEF Published
<1>r. \A row \in Row :
        /\ Succeeded(row).status = "succeeded" /\ Quarantined(row).status = "quarantined"
        /\ Leased(row).status = "running" /\ Failed(row).status = "failed"
        /\ Due(row).status = row.status
        /\ Cancelled(row).status = IF row.status \in Open THEN "cancelled" ELSE row.status
  BY <1>0, RowOps
<1>n. NewLedger.job = "running" /\ \A s \in Shards : NewLedger.rows[s].status = "pending"
  BY NewLedgerOK
<1>a. \A s \in Shards : mem[s].status = "succeeded" /\ pc # "proof" => Published(s)'
  BY <1>p DEF AtHand
<1>d. memJob = "cancelled" => pc \in {"reading", "saving", "reviewing"}
  BY DEF CancelInv
<1> USE <1>a, <1>d, <1>p, <1>r, <1>n
<1>1. CASE StartManifest
  BY <1>1, <1>0 DEF StartManifest
<1>2. ASSUME NEW e \in BOOLEAN, StartLedger(e) PROVE MemCert'
  BY <1>2, <1>0 DEF StartLedger
<1>3. CASE StartRead
  BY <1>3, <1>0 DEF StartRead, View, OnlyIn
<1>4. CASE StartLocks
  BY <1>4, <1>0 DEF StartLocks
<1>5. CASE StartRefused
  BY <1>5, <1>0 DEF StartRefused
<1>6. CASE Cancel
  BY <1>6, <1>0 DEF Cancel, OnlyIn
<1>7. CASE StopEarly
  BY <1>7, <1>0 DEF StopEarly, Release
<1>8. CASE Recover
  <2>1. pc' = "reconciling" /\ memJob' = memJob /\ memJob # "cancelled" /\ pc = "reading"
    BY <1>8 DEF Recover
  <2>2. \A s \in Shards : \/ mem'[s].status = mem[s].status
                         \/ (mem'[s].status = "succeeded" /\ output[s] # None /\ proof[s] # None)
    <3>1. \A s \in Shards : \/ mem'[s] = mem[s]
                           \/ (mem'[s] = Succeeded(mem[s]) /\ output[s] # None /\ proof[s] # None)
      BY <1>8, <1>0 DEF Recover, OnlyIn, Recoverable
    <3> QED
      BY <1>0, <3>1
  <2>3. \A s \in Shards : output[s] # None /\ proof[s] # None => Published(s)'
    BY DEF Published, Out
  <2> QED
    BY <2>1, <2>2, <2>3
<1>9. CASE Reconcile
  <2>1. memJob' = memJob /\ pc = "reconciling" /\ pc' \in {"reconciling", "output"}
    BY <1>9 DEF Reconcile, StartCommit
  <2>2. \A s \in Shards : mem'[s].status \in {mem[s].status, "quarantined"}
    <3>1. \A s \in Shards : mem'[s] \in {mem[s], Quarantined(mem[s])}
      BY <1>9, <1>0 DEF Reconcile
    <3>2. \A s \in Shards : Quarantined(mem[s]).status = "quarantined"
      BY <1>0
    <3> QED
      BY ONLY <3>1, <3>2
  <2>3. memJob # "completed"
    BY <1>9 DEF Reconcile, Interrupted
  <2> QED
    BY <2>1, <2>2, <2>3
<1>10. CASE Gate
  <2>1. pc = "reconciling" /\ mem' = mem
    BY <1>10 DEF Gate, Conclude
  <2>2. CASE memJob' = FinalStatus(mem) /\ pc' = "saving"
    BY <1>0, <2>1, <2>2, FinalStatusCoherent
  <2>3. CASE memJob' = memJob /\ pc' = "looking" /\ left' = Candidates /\ batch' = Candidates
    <3>1. memJob = "completed" => Candidates = {}
      BY <2>1 DEF Candidates, Candidate
    <3> QED
      BY <2>1, <2>3, <3>1
  <2> QED
    BY <1>10, <2>2, <2>3 DEF Gate, Conclude
<1>11. CASE LookUp
  <2>1. UNCHANGED <<mem, memJob>> /\ pc \in {"looking", "hitting"} /\ pc' \in {pc, "output"}
    BY <1>11 DEF LookUp, Looking, StartCommit
  <2>2. memJob # "completed"
    BY <1>11 DEF LookUp, Looking
  <2> QED
    BY <2>1, <2>2
<1>12. CASE InputRefused
  BY <1>12, <1>0 DEF InputRefused, Release, Looking
<1>13. CASE Looked
  <2>1. pc \in {"looking", "hitting", "leased"} /\ mem' = mem
    BY <1>13 DEF Looked, Conclude, Looking
  <2>2. CASE memJob' = FinalStatus(mem) /\ pc' = "saving"
    BY <1>0, <2>1, <2>2, FinalStatusCoherent
  <2>3. CASE memJob' = memJob /\ pc' \in {"leasing", "preparing"} /\ batch # {}
    BY <2>1, <2>3
  <2> QED
    BY <1>13, <2>2, <2>3 DEF Looked, Conclude
<1>14. CASE Lease
  <2>1. memJob' = memJob /\ memJob # "completed" /\ pc = "leasing" /\ pc' = "leased"
    BY <1>14 DEF Lease
  <2>2. \A s \in Shards : mem'[s].status \in {mem[s].status, "quarantined", "running"}
    <3> TAKE s \in Shards
    <3>1. PICK row \in {mem[s], Quarantined(mem[s])} : mem'[s] \in {row, Leased(row)}
      BY <1>0, <1>14 DEF Lease, OnlyIn
    <3>2. mem[s] \in Row /\ Quarantined(mem[s]) \in Row
      BY <1>0, RowOps
    <3>3. row \in Row /\ row.status \in {mem[s].status, "quarantined"}
      BY <3>1, <3>2
    <3> QED
      BY <3>1, <3>3
  <2>3. memJob # "cancelled" /\ pc # "proof"
    BY <2>1
  <2>4. \A s \in Shards : mem'[s].status = "succeeded" => mem[s].status = "succeeded"
    BY <2>2
  <2>5. \A s \in Shards : mem'[s].status = "cancelled" => mem[s].status = "cancelled"
    BY <2>2
  <2> QED
    BY <2>1, <2>3, <2>4, <2>5
<1>15. CASE SaveLeases
  <2>1. pc \in {"looking", "hitting", "leased"} /\ mem' = mem
    BY <1>15 DEF SaveLeases, Conclude, Looking
  <2>2. CASE memJob' = FinalStatus(mem) /\ pc' = "saving"
    BY <1>0, <2>1, <2>2, FinalStatusCoherent
  <2>3. CASE memJob' = memJob /\ pc' \in {"leasing", "preparing"} /\ batch # {}
    BY <2>1, <2>3
  <2> QED
    BY <1>15, <2>2, <2>3 DEF SaveLeases, Conclude
<1>16. CASE PrepareRun
  BY <1>16, <1>0 DEF PrepareRun
<1>17. CASE Submit
  <2>1. memJob' = memJob /\ pc = "submitting" /\ pc' \in {"sending", "ending"}
    BY <1>17 DEF Submit, BatchFails
  <2>2. \A s \in Shards : mem'[s].status \in {mem[s].status, "failed"}
    <3>1. \A s \in Shards : mem'[s] \in {mem[s], Failed(mem[s])}
      BY <1>17, <1>0 DEF Submit, BatchFails, OnlyIn
    <3>2. \A s \in Shards : Failed(mem[s]).status = "failed"
      BY <1>0
    <3> QED
      BY ONLY <3>1, <3>2
  <2> QED
    BY <2>1, <2>2
<1>18. ASSUME NEW s \in Shards, NEW t \in Texts \cup {None}, Send(s, t) PROVE MemCert'
  BY <1>18, <1>0 DEF Send
<1>19. CASE RunEnds
  BY <1>19, <1>0 DEF RunEnds
<1>20. CASE Collect
  <2>1. memJob' = memJob /\ pc = "collecting" /\ pc' \in {"collecting", "output"}
    BY <1>20 DEF Collect, StartCommit
  <2>2. \A s \in Shards : mem'[s].status \in {mem[s].status, "failed"}
    <3>1. \A s \in Shards : mem'[s] \in {mem[s], Failed(mem[s])}
      BY <1>20, <1>0 DEF Collect
    <3>2. \A s \in Shards : Failed(mem[s]).status = "failed"
      BY <1>0
    <3> QED
      BY ONLY <3>1, <3>2
  <2> QED
    BY <2>1, <2>2
<1>21. CASE Collected
  BY <1>21, <1>0 DEF Collected
<1>22. CASE End
  <2>1. pc = "ending" /\ memJob' = FinalStatus(mem') /\ pc' = "saving"
    BY <1>22 DEF End, Conclude
  <2>2. mem' \in [Shards -> Row]
    BY <1>22, <1>0, RowOps DEF End, Conclude, OnlyIn
  <2>3. \A s \in Shards : mem'[s].status \in {mem[s].status, "quarantined"}
    BY <1>22, <1>0 DEF End, Conclude, OnlyIn
  <2>4. \A s \in Shards : mem'[s].status # "cancelled"
    BY <2>1, <2>3
  <2>5. /\ memJob' # "cancelled"
        /\ memJob' = "completed" => \A s \in Shards : mem'[s].status = "succeeded"
    BY <2>1, <2>2, <2>4, FinalStatusCoherent
  <2> QED
    BY <2>1, <2>3, <2>4, <2>5
<1>23. CASE Save
  BY <1>23, <1>0 DEF Save, Release
<1>24. CASE PublishOutput
  <2>0. pc = "output" /\ memJob # "completed" /\ memJob # "cancelled" /\ commit.shard \in Shards
    BY <1>24, <1>0 DEF PublishOutput
  <2>1. CASE CommitFails
    BY <2>0, <2>1, CommitFailsMem
  <2>2. CASE /\ mem' = [mem EXCEPT ![commit.shard] = Succeeded(@)]
             /\ pc' = "proof" /\ UNCHANGED <<commit, memJob>>
    BY <1>0, <2>0, <2>2 DEF AtHand
  <2> QED
    BY <1>24, <2>1, <2>2 DEF PublishOutput, Continue
<1>25. CASE PublishProof
  <2>0. pc = "proof" /\ memJob # "completed" /\ memJob # "cancelled" /\ commit.shard \in Shards
    BY <1>25, <1>0 DEF PublishProof
  <2>1. CASE CommitFails /\ proof[commit.shard] # None /\ UNCHANGED <<output, proof, faults>>
    <3>1. Published(commit.shard)
      BY <2>0, <2>1 DEF Published, FilesCert
    <3> QED
      BY <2>0, <2>1, <3>1, CommitFailsMem DEF AtHand
  <2>2. CASE /\ proof[commit.shard] = None /\ pc' = "checkpoint" /\ UNCHANGED <<mem, memJob>>
    <3>1. \A s \in Shards : s = commit.shard => Published(s)'
      BY <1>25, <2>2, ProofPublished
    <3>2. \A s \in Shards : mem[s].status = "succeeded" => Published(s)'
      BY <2>0, <3>1 DEF AtHand
    <3> QED
      BY <2>0, <2>2, <3>2
  <2> QED
    BY <1>25, <2>1, <2>2 DEF PublishProof, Continue
<1>26. CASE WriteCheckpoint
  BY <1>26, <1>0 DEF WriteCheckpoint, Continue
<1>27. CASE Review
  BY <1>27, <1>0 DEF Review, Continue, Release
<1>28. CASE CommitMemory
  BY <1>28, <1>0 DEF CommitMemory, Release, Remembered, ReceiptMatches
<1>29. CASE Stop
  BY <1>29, <1>0 DEF Stop, Release
<1>30. CASE CrashStarter
  BY <1>30, <1>0 DEF CrashStarter
<1>31. CASE RunFault
  BY <1>31, <1>0 DEF RunFault, BatchFails, OnlyIn
<1>32. CASE CommitFault
  <2>0. memJob # "completed" /\ memJob # "cancelled" /\ faults' # 0
    BY <1>32 DEF CommitFault, TypeInv, PlacesInv, TypeOK
  <2>1. CommitFails /\ Committing /\ UNCHANGED output
    BY <1>32 DEF CommitFault, Committing
  <2>2. \A s \in Shards : mem[s].status = "succeeded" => Published(s)'
    BY <1>32, <2>0, <2>1 DEF Published, Out, CommitFault, AtHand, FilesCert
  <2> QED
    BY <2>0, <2>1, <2>2, CommitFailsMem
<1>33. ASSUME NEW s \in Shards, EditSource(s) PROVE MemCert'
  BY <1>33, <1>0 DEF EditSource
<1>34. ASSUME NEW s \in Shards, NEW t \in Texts, EditOutput(s, t) PROVE MemCert'
  BY <1>34, <1>0 DEF EditOutput
<1>35. CASE OwnerSigns
  BY <1>35, <1>0 DEF OwnerSigns, Validated, View, OnlyIn
<1>36. ASSUME NEW what \in {"resume", "cancel", "commit"}, Begin(what) PROVE MemCert'
  BY <1>36, <1>0 DEF Begin, View, OnlyIn
<1>37. ASSUME NEW s \in Shards, BackoffElapses(s) PROVE MemCert'
  BY <1>37, <1>0 DEF BackoffElapses
<1>38. CASE UNCHANGED vars
  BY <1>38, <1>0 DEF vars
<1> QED
  BY <1>1, <1>2, <1>3, <1>4, <1>5, <1>6, <1>7, <1>8, <1>9, <1>10, <1>11, <1>12, <1>13, <1>14,
     <1>15, <1>16, <1>17, <1>18, <1>19, <1>20, <1>21, <1>22, <1>23, <1>24, <1>25, <1>26, <1>27,
     <1>28, <1>29, <1>30, <1>31, <1>32, <1>33, <1>34, <1>35, <1>36, <1>37, <1>38
     DEF Next, Starter, HolderStep, Fault, Edit

\* The first of some shards is one of them.
LEMMA FirstIn ==
  ASSUME NEW some, some \subseteq Shards, some # {}
  PROVE  First(some) \in some
<1>0. some \subseteq Nat
  BY ShardsAssumption
<1>1. PICK n \in some : \A m \in some : <<m, n>> \notin OpToRel(<, Nat)
  BY <1>0, NatLessThanWellFounded, WFMin, Zenon
<1>2. \A m \in some : n <= m
  <2>1. \A k, m \in Nat : k < m => <<k, m>> \in OpToRel(<, Nat)
    <3> TAKE k, m \in Nat
    <3> HAVE k < m
    <3>1. <<k, m>> \in Nat \X Nat /\ <<k, m>>[1] < <<k, m>>[2]
      OBVIOUS
    <3> QED
      BY <3>1, Zenon DEF OpToRel
  <2>2. \A m \in some : ~(m < n)
    BY <1>0, <1>1, <2>1, Zenon
  <2> QED
    BY <1>0, <2>2
<1> QED
  BY <1>2 DEF First, Min

\* What the holder has in hand: the next shard it comes to, and that shard's result.
LEMMA InHand ==
  ASSUME TypeInv
  PROVE  /\ left # {} => First(left) \in Shards
         /\ Interrupted # {} => /\ First(Interrupted) \in Shards
                                /\ child[mem[First(Interrupted)].run][First(Interrupted)] \in Texts \cup {None}
         /\ pc = "collecting" /\ left # {} => child[Len(child)][First(left)] \in Texts \cup {None}
         /\ left # {} /\ Known(First(left)) => memory[First(left)].text \in Texts
<1>0. /\ left \subseteq Shards /\ mem \in [Shards -> Row] /\ memory \in [Shards -> MemoryRow \cup {None}]
      /\ Len(child) \in Nat /\ (pc = "collecting" => Len(child) > 0)
      /\ \A i \in 1 .. Len(child) : child[i] \in [Shards -> Texts \cup {None}]
      /\ \A s \in Shards : mem[s].run <= Len(child)
  BY DEF TypeInv, TypeOK, LedgersInv, RunsInv, PlacesInv
<1>1. left # {} => First(left) \in Shards
  BY <1>0, FirstIn
<1>2. ASSUME Interrupted # {}
      PROVE  /\ First(Interrupted) \in Shards
             /\ child[mem[First(Interrupted)].run][First(Interrupted)] \in Texts \cup {None}
  <2> DEFINE s == First(Interrupted)
  <2>1. s \in Interrupted
    BY <1>2, FirstIn DEF Interrupted
  <2>2. s \in Shards /\ mem[s].run # 0
    BY <2>1 DEF Interrupted
  <2>3. mem[s].run \in 1 .. Len(child)
    <3>1. mem[s].run \in Nat
      BY <1>0, <2>2 DEF Row
    <3> QED
      BY <1>0, <2>2, <3>1
  <2> HIDE DEF s
  <2>4. child[mem[s].run][s] \in Texts \cup {None}
    BY <1>0, <2>2, <2>3
  <2> QED
    BY <2>2, <2>4 DEF s
<1>3. pc = "collecting" /\ left # {} => child[Len(child)][First(left)] \in Texts \cup {None}
  <2>1. pc = "collecting" => Len(child) \in 1 .. Len(child)
    BY <1>0
  <2> QED
    BY <1>0, <1>1, <2>1
<1>4. left # {} /\ Known(First(left)) => memory[First(left)].text \in Texts
  BY <1>0, <1>1 DEF Known, MemoryRow
<1> QED
  BY <1>1, <1>2, <1>3, <1>4

\* Runs are added, and their results; none is removed.
LEMMA ChildGrows ==
  ASSUME TypeInv, [Next]_vars
  PROVE  child' \in Seq([Shards -> Texts \cup {None}]) /\ Len(child') >= Len(child)
<1> USE NoneAssumption
<1> USE DEF settingVars, startVars, ledgerVars, fileVars, memoryVars, holderVars, passVars,
           childVars, boundVars
<1> DEFINE Grows == child' \in Seq([Shards -> Texts \cup {None}]) /\ Len(child') >= Len(child)
<1>0. child \in Seq([Shards -> Texts \cup {None}]) /\ Len(child) \in Nat
  BY DEF TypeInv, RunsInv
<1>1. CASE PrepareRun
  BY <1>1, <1>0 DEF PrepareRun
<1>2. ASSUME NEW s \in Shards, NEW t \in Texts \cup {None}, Send(s, t) PROVE Grows
  <2>1. \/ UNCHANGED child
        \/ /\ Len(child) \in 1 .. Len(child)
           /\ child' = [child EXCEPT ![Len(child)] = [child[Len(child)] EXCEPT ![s] = t]]
    BY <1>2, <1>0 DEF Send, TypeInv, PlacesInv
  <2>2. \A f \in [Shards -> Texts \cup {None}] : [f EXCEPT ![s] = t] \in [Shards -> Texts \cup {None}]
    OBVIOUS
  <2>3. ASSUME Len(child) \in 1 .. Len(child) PROVE child[Len(child)] \in [Shards -> Texts \cup {None}]
    BY <1>0, <2>3
  <2> QED
    BY <1>0, <2>1, <2>2, <2>3, ExceptSeq
<1>3. CASE UNCHANGED child
  BY <1>3, <1>0
<1> QED
  BY Writers, <1>1, <1>2, <1>3 DEF Writes

LEMMA StepHolderLedger ==
  ASSUME TypeInv, [Next]_vars
  PROVE  /\ mem' \in [Shards -> Row]
         /\ \A s \in Shards : mem'[s].run \in {mem[s].run, rows[s].run, stale.rows[s].run, Len(child'), 0}
<1> USE NoneAssumption
<1> USE DEF settingVars, startVars, ledgerVars, fileVars, memoryVars, holderVars, passVars,
           childVars, boundVars
<1> DEFINE Goal == /\ mem' \in [Shards -> Row]
                   /\ \A s \in Shards : mem'[s].run \in {mem[s].run, rows[s].run, stale.rows[s].run, Len(child'), 0}
<1>0. /\ maxRetries \in Nat /\ rows \in [Shards -> Row] /\ mem \in [Shards -> Row]
      /\ job \in JobStatuses \cup {None} /\ memJob \in JobStatuses
      /\ stale.job \in JobStatuses /\ stale.rows \in [Shards -> Row]
      /\ stale = [job |-> stale.job, rows |-> stale.rows]
      /\ (starter = "ledger" => job # None)
      /\ \A j \in JobStatuses, led \in [Shards -> Row] : [job |-> j, rows |-> led] \in Ledger
  BY DEF TypeInv, LedgersInv, PlacesInv, Ledger
<1>r. \A row \in Row :
        /\ Leased(row) \in Row /\ Leased(row).run = row.run
        /\ Succeeded(row) \in Row /\ Succeeded(row).run = row.run
        /\ Quarantined(row) \in Row /\ Quarantined(row).run = row.run
        /\ Failed(row) \in Row /\ Failed(row).run = row.run
        /\ Due(row) \in Row /\ Due(row).run = row.run
        /\ Cancelled(row) \in Row /\ Cancelled(row).run = row.run
  BY <1>0, RowOps
<1>n. /\ NewLedger \in Ledger /\ NewLedger.job = "running" /\ NewLedger.rows \in [Shards -> Row]
      /\ \A s \in Shards : NewLedger.rows[s].run = 0
  BY NewLedgerOK
<1>c. Len(child') \in Nat
  BY ChildGrows
<1> USE <1>r, <1>n, <1>c
<1>1. CASE StartManifest
  BY <1>1, <1>0 DEF StartManifest
<1>2. ASSUME NEW e \in BOOLEAN, StartLedger(e) PROVE Goal
  BY <1>2, <1>0 DEF StartLedger
<1>3. CASE StartRead
  BY <1>3, <1>0 DEF StartRead, View, OnlyIn
<1>4. CASE StartLocks
  BY <1>4, <1>0 DEF StartLocks
<1>5. CASE StartRefused
  BY <1>5, <1>0 DEF StartRefused
<1>6. CASE Cancel
  BY <1>6, <1>0 DEF Cancel, OnlyIn
<1>7. CASE StopEarly
  BY <1>7, <1>0 DEF StopEarly, Release
<1>8. CASE Recover
  BY <1>8, <1>0 DEF Recover, OnlyIn
<1>9. CASE Reconcile
  BY <1>9, <1>0 DEF Reconcile, StartCommit
<1>10. CASE Gate
  BY <1>10, <1>0 DEF Gate, Conclude
<1>11. CASE LookUp
  BY <1>11, <1>0 DEF LookUp, StartCommit, Looking
<1>12. CASE InputRefused
  BY <1>12, <1>0 DEF InputRefused, Release, Looking
<1>13. CASE Looked
  BY <1>13, <1>0 DEF Looked, Conclude, Looking
<1>14. CASE Lease
  <2>1. \A s \in Shards : \E row \in {mem[s], Quarantined(mem[s])} : mem'[s] \in {row, Leased(row)}
    BY <1>14, <1>0 DEF Lease, OnlyIn
  <2>2. \A s \in Shards : mem'[s] \in Row /\ mem'[s].run = mem[s].run
    BY <1>0, <2>1
  <2>3. mem' = [s \in Shards |-> mem'[s]]
    BY <1>14 DEF Lease, OnlyIn
  <2> QED
    BY <2>2, <2>3
<1>15. CASE SaveLeases
  BY <1>15, <1>0 DEF SaveLeases, Conclude
<1>16. CASE PrepareRun
  <2>1. \A s \in Shards : mem'[s] \in {mem[s], [mem[s] EXCEPT !.run = Len(child')]}
    BY <1>16 DEF PrepareRun
  <2>2. DOMAIN mem' = Shards /\ \A s \in Shards : mem[s] \in Row
    BY <1>16, <1>0 DEF PrepareRun
  <2>3. \A s \in Shards : mem'[s] \in Row /\ mem'[s].run \in {mem[s].run, Len(child')}
    <3> TAKE s \in Shards
    <3>1. mem[s] \in Row /\ Len(child') \in Nat
      BY <2>2
    <3>2. [mem[s] EXCEPT !.run = Len(child')] \in Row /\ [mem[s] EXCEPT !.run = Len(child')].run = Len(child')
      BY ONLY <3>1 DEF Row
    <3> QED
      BY <2>1, <3>1, <3>2
  <2>4. mem' = [s \in Shards |-> mem'[s]]
    BY <1>16 DEF PrepareRun
  <2> QED
    BY <2>2, <2>3, <2>4
<1>17. CASE Submit
  BY <1>17, <1>0 DEF Submit, BatchFails, OnlyIn
<1>18. ASSUME NEW s \in Shards, NEW t \in Texts \cup {None}, Send(s, t) PROVE Goal
  BY <1>18, <1>0 DEF Send
<1>19. CASE RunEnds
  BY <1>19, <1>0 DEF RunEnds
<1>20. CASE Collect
  BY <1>20, <1>0 DEF Collect, StartCommit
<1>21. CASE Collected
  BY <1>21, <1>0 DEF Collected
<1>22. CASE End
  BY <1>22, <1>0 DEF End, Conclude, OnlyIn
<1>23. CASE Save
  BY <1>23, <1>0 DEF Save, Release
<1>24. CASE PublishOutput
  BY <1>24, <1>0 DEF PublishOutput, Continue, CommitFails, BatchFails, Release, OnlyIn
<1>25. CASE PublishProof
  BY <1>25, <1>0 DEF PublishProof, Continue, CommitFails, BatchFails, Release, OnlyIn
<1>26. CASE WriteCheckpoint
  BY <1>26, <1>0 DEF WriteCheckpoint, Continue
<1>27. CASE Review
  BY <1>27, <1>0 DEF Review, Continue, Release
<1>28. CASE CommitMemory
  BY <1>28, <1>0 DEF CommitMemory, Release
<1>29. CASE Stop
  BY <1>29, <1>0 DEF Stop, Release
<1>30. CASE CrashStarter
  BY <1>30, <1>0 DEF CrashStarter
<1>31. CASE RunFault
  BY <1>31, <1>0 DEF RunFault, BatchFails, OnlyIn
<1>32. CASE CommitFault
  BY <1>32, <1>0 DEF CommitFault, CommitFails, BatchFails, Release, OnlyIn
<1>33. ASSUME NEW s \in Shards, EditSource(s) PROVE Goal
  BY <1>33, <1>0 DEF EditSource
<1>34. ASSUME NEW s \in Shards, NEW t \in Texts, EditOutput(s, t) PROVE Goal
  BY <1>34, <1>0 DEF EditOutput
<1>35. CASE OwnerSigns
  BY <1>35, <1>0 DEF OwnerSigns
<1>36. ASSUME NEW what \in {"resume", "cancel", "commit"}, Begin(what) PROVE Goal
  BY <1>36, <1>0 DEF Begin, View, OnlyIn
<1>37. ASSUME NEW s \in Shards, BackoffElapses(s) PROVE Goal
  BY <1>37, <1>0 DEF BackoffElapses
<1>38. CASE UNCHANGED vars
  BY <1>38, <1>0 DEF vars
<1> QED
  BY <1>1, <1>2, <1>3, <1>4, <1>5, <1>6, <1>7, <1>8, <1>9, <1>10, <1>11, <1>12, <1>13, <1>14,
     <1>15, <1>16, <1>17, <1>18, <1>19, <1>20, <1>21, <1>22, <1>23, <1>24, <1>25, <1>26, <1>27,
     <1>28, <1>29, <1>30, <1>31, <1>32, <1>33, <1>34, <1>35, <1>36, <1>37, <1>38
     DEF Next, Starter, HolderStep, Fault, Edit

LEMMA StepStoredLedger ==
  ASSUME TypeInv, [Next]_vars
  PROVE  /\ rows' \in [Shards -> Row]
         /\ \A s \in Shards : rows'[s].run \in {mem[s].run, rows[s].run, stale.rows[s].run, Len(child'), 0}
<1> USE NoneAssumption
<1> USE DEF settingVars, startVars, ledgerVars, fileVars, memoryVars, holderVars, passVars,
           childVars, boundVars
<1> DEFINE Goal == /\ rows' \in [Shards -> Row]
                   /\ \A s \in Shards : rows'[s].run \in {mem[s].run, rows[s].run, stale.rows[s].run, Len(child'), 0}
<1>0. /\ maxRetries \in Nat /\ rows \in [Shards -> Row] /\ mem \in [Shards -> Row]
      /\ job \in JobStatuses \cup {None} /\ memJob \in JobStatuses
      /\ stale.job \in JobStatuses /\ stale.rows \in [Shards -> Row]
      /\ stale = [job |-> stale.job, rows |-> stale.rows]
      /\ (starter = "ledger" => job # None)
      /\ \A j \in JobStatuses, led \in [Shards -> Row] : [job |-> j, rows |-> led] \in Ledger
  BY DEF TypeInv, LedgersInv, PlacesInv, Ledger
<1>r. \A row \in Row :
        /\ Leased(row) \in Row /\ Leased(row).run = row.run
        /\ Succeeded(row) \in Row /\ Succeeded(row).run = row.run
        /\ Quarantined(row) \in Row /\ Quarantined(row).run = row.run
        /\ Failed(row) \in Row /\ Failed(row).run = row.run
        /\ Due(row) \in Row /\ Due(row).run = row.run
        /\ Cancelled(row) \in Row /\ Cancelled(row).run = row.run
  BY <1>0, RowOps
<1>n. /\ NewLedger \in Ledger /\ NewLedger.job = "running" /\ NewLedger.rows \in [Shards -> Row]
      /\ \A s \in Shards : NewLedger.rows[s].run = 0
  BY NewLedgerOK
<1>c. Len(child') \in Nat
  BY ChildGrows
<1> USE <1>r, <1>n, <1>c
<1>1. ASSUME NEW e \in BOOLEAN, StartLedger(e) PROVE Goal
  BY <1>1, <1>0 DEF StartLedger
<1>2. CASE Looked
  BY <1>2, <1>0 DEF Looked, Conclude, Looking
<1>3. CASE SaveLeases
  BY <1>3, <1>0 DEF SaveLeases, Conclude
<1>4. CASE PrepareRun
  <2>1. \A s \in Shards : mem'[s] \in {mem[s], [mem[s] EXCEPT !.run = Len(child')]}
    BY <1>4 DEF PrepareRun
  <2>2. DOMAIN mem' = Shards /\ rows' = mem' /\ \A s \in Shards : mem[s] \in Row
    BY <1>4, <1>0 DEF PrepareRun
  <2>3. \A s \in Shards : mem'[s] \in Row /\ mem'[s].run \in {mem[s].run, Len(child')}
    <3> TAKE s \in Shards
    <3>1. mem[s] \in Row /\ Len(child') \in Nat
      BY <2>2
    <3>2. [mem[s] EXCEPT !.run = Len(child')] \in Row /\ [mem[s] EXCEPT !.run = Len(child')].run = Len(child')
      BY ONLY <3>1 DEF Row
    <3> QED
      BY <2>1, <3>1, <3>2
  <2>4. mem' = [s \in Shards |-> mem'[s]]
    BY <1>4 DEF PrepareRun
  <2> QED
    BY <2>2, <2>3, <2>4
<1>5. CASE Save
  BY <1>5, <1>0 DEF Save, Release
<1>6. CASE WriteCheckpoint
  BY <1>6, <1>0 DEF WriteCheckpoint
<1>7. ASSUME NEW s \in Shards, BackoffElapses(s) PROVE Goal
  BY <1>7, <1>0 DEF BackoffElapses
<1>8. CASE UNCHANGED <<job, rows, noted>>
  BY <1>8, <1>0
<1> QED
  BY Writers, <1>1, <1>2, <1>3, <1>4, <1>5, <1>6, <1>7, <1>8 DEF Writes

LEMMA StepStaleLedger ==
  ASSUME TypeInv, [Next]_vars
  PROVE  /\ stale' \in Ledger
         /\ \A s \in Shards : stale'.rows[s].run \in {mem[s].run, rows[s].run, stale.rows[s].run, Len(child'), 0}
<1> USE NoneAssumption
<1> USE DEF settingVars, startVars, ledgerVars, fileVars, memoryVars, holderVars, passVars,
           childVars, boundVars
<1> DEFINE Goal == /\ stale' \in Ledger
                   /\ \A s \in Shards : stale'.rows[s].run \in {mem[s].run, rows[s].run, stale.rows[s].run, Len(child'), 0}
<1>0. /\ maxRetries \in Nat /\ rows \in [Shards -> Row] /\ mem \in [Shards -> Row]
      /\ job \in JobStatuses \cup {None} /\ memJob \in JobStatuses
      /\ stale.job \in JobStatuses /\ stale.rows \in [Shards -> Row]
      /\ stale = [job |-> stale.job, rows |-> stale.rows]
      /\ (starter = "ledger" => job # None)
      /\ \A j \in JobStatuses, led \in [Shards -> Row] : [job |-> j, rows |-> led] \in Ledger
  BY DEF TypeInv, LedgersInv, PlacesInv, Ledger
<1>r. \A row \in Row :
        /\ Leased(row) \in Row /\ Leased(row).run = row.run
        /\ Succeeded(row) \in Row /\ Succeeded(row).run = row.run
        /\ Quarantined(row) \in Row /\ Quarantined(row).run = row.run
        /\ Failed(row) \in Row /\ Failed(row).run = row.run
        /\ Due(row) \in Row /\ Due(row).run = row.run
        /\ Cancelled(row) \in Row /\ Cancelled(row).run = row.run
  BY <1>0, RowOps
<1>n. /\ NewLedger \in Ledger /\ NewLedger.job = "running" /\ NewLedger.rows \in [Shards -> Row]
      /\ \A s \in Shards : NewLedger.rows[s].run = 0
  BY NewLedgerOK
<1>c. Len(child') \in Nat
  BY ChildGrows
<1> USE <1>r, <1>n, <1>c
<1>1. CASE StartRead
  BY <1>1, <1>0 DEF StartRead, View, OnlyIn
<1>2. ASSUME NEW s \in Shards, BackoffElapses(s) PROVE Goal
  BY <1>2, <1>0 DEF BackoffElapses
<1>3. CASE UNCHANGED stale
  BY <1>3, <1>0
<1>4. CASE stale' = NewLedger
  BY <1>4, <1>0
<1> QED
  BY Writers, <1>1, <1>2, <1>3, <1>4 DEF Writes

LEMMA StepStatuses ==
  ASSUME TypeInv, [Next]_vars
  PROVE  maxRetries' \in Nat /\ job' \in JobStatuses \cup {None} /\ memJob' \in JobStatuses
<1>0. /\ maxRetries \in Nat /\ stale.job \in JobStatuses
      /\ job \in JobStatuses \cup {None} /\ memJob \in JobStatuses
  BY DEF TypeInv, LedgersInv, Ledger
<1>1. {"running", "cancelled", FinalStatus(mem')} \subseteq JobStatuses
  BY DEF FinalStatus, JobStatuses
<1>2. maxRetries' \in Nat /\ memJob' \in JobStatuses
  BY <1>0, <1>1, Writers DEF Writes
<1>3. job' \in {job, memJob, "running"}
  BY Writers DEF Writes, StartLedger, Looked, SaveLeases, PrepareRun, Save, WriteCheckpoint, BackoffElapses
<1> QED
  BY <1>0, <1>1, <1>2, <1>3

LEMMA StepRunsInv ==
  ASSUME TypeInv, [Next]_vars
  PROVE  RunsInv'
<1>1. child' \in Seq([Shards -> Texts \cup {None}]) /\ Len(child') >= Len(child)
  BY ChildGrows
<1>2. Len(child) \in Nat /\ Len(child') \in Nat
  BY <1>1 DEF TypeInv, RunsInv
<1>3. ASSUME NEW s \in Shards, NEW n \in {mem[s].run, rows[s].run, stale.rows[s].run, Len(child'), 0}
      PROVE  n <= Len(child')
  <2>1. mem[s].run \in Nat /\ rows[s].run \in Nat /\ stale.rows[s].run \in Nat
    BY DEF TypeInv, LedgersInv, Ledger, Row
  <2>2. mem[s].run <= Len(child) /\ rows[s].run <= Len(child) /\ stale.rows[s].run <= Len(child)
    BY DEF TypeInv, RunsInv
  <2> QED
    BY <1>1, <1>2, <2>1, <2>2
<1> QED
  BY <1>1, <1>3, StepHolderLedger, StepStoredLedger, StepStaleLedger DEF RunsInv

LEMMA StepPlacesInv ==
  ASSUME TypeInv, [Next]_vars
  PROVE  PlacesInv'
<1> USE NoneAssumption
<1> USE DEF settingVars, startVars, ledgerVars, fileVars, memoryVars, holderVars, passVars,
           childVars, boundVars, TypeInv, PlacesInv, Committing, JobStatuses
<1>0. job \in JobStatuses \cup {None} /\ memJob \in JobStatuses
  BY DEF TypeInv, LedgersInv
<1>g. Len(child') >= Len(child) /\ Len(child) \in Nat /\ Len(child') \in Nat
  BY ChildGrows DEF TypeInv, RunsInv
<1>h. /\ left # {} => First(left) \in Shards
      /\ Interrupted # {} => /\ First(Interrupted) \in Shards
                             /\ child[mem[First(Interrupted)].run][First(Interrupted)] \in Texts \cup {None}
      /\ pc = "collecting" /\ left # {} => child[Len(child)][First(left)] \in Texts \cup {None}
      /\ left # {} /\ Known(First(left)) => memory[First(left)].text \in Texts
  BY InHand
<1> USE <1>g, <1>h
<1>1. CASE StartManifest
  BY <1>1, <1>0 DEF StartManifest
<1>2. ASSUME NEW e \in BOOLEAN, StartLedger(e) PROVE PlacesInv'
  BY <1>2, <1>0 DEF StartLedger
<1>3. CASE StartRead
  BY <1>3, <1>0 DEF StartRead, View, OnlyIn
<1>4. CASE StartLocks
  BY <1>4, <1>0 DEF StartLocks
<1>5. CASE StartRefused
  BY <1>5, <1>0 DEF StartRefused
<1>6. CASE Cancel
  BY <1>6, <1>0 DEF Cancel, OnlyIn
<1>7. CASE StopEarly
  BY <1>7, <1>0 DEF StopEarly, Release
<1>8. CASE Recover
  BY <1>8, <1>0 DEF Recover, OnlyIn
<1>9. CASE Reconcile
  BY <1>9, <1>0 DEF Reconcile, StartCommit
<1>10. CASE Gate
  BY <1>10, <1>0 DEF Gate, Conclude
<1>11. CASE LookUp
  BY <1>11, <1>0 DEF LookUp, StartCommit, Looking
<1>12. CASE InputRefused
  BY <1>12, <1>0 DEF InputRefused, Release, Looking
<1>13. CASE Looked
  BY <1>13, <1>0 DEF Looked, Conclude, Looking
<1>14. CASE Lease
  BY <1>14, <1>0 DEF Lease, OnlyIn
<1>15. CASE SaveLeases
  BY <1>15, <1>0 DEF SaveLeases, Conclude
<1>16. CASE PrepareRun
  BY <1>16, <1>0 DEF PrepareRun
<1>17. CASE Submit
  BY <1>17, <1>0 DEF Submit, BatchFails, OnlyIn
<1>18. ASSUME NEW s \in Shards, NEW t \in Texts \cup {None}, Send(s, t) PROVE PlacesInv'
  BY <1>18, <1>0 DEF Send
<1>19. CASE RunEnds
  BY <1>19, <1>0 DEF RunEnds
<1>20. CASE Collect
  BY <1>20, <1>0 DEF Collect, StartCommit
<1>21. CASE Collected
  BY <1>21, <1>0 DEF Collected
<1>22. CASE End
  BY <1>22, <1>0 DEF End, Conclude, OnlyIn
<1>23. CASE Save
  BY <1>23, <1>0 DEF Save, Release
<1>24. CASE PublishOutput
  BY <1>24, <1>0 DEF PublishOutput, Continue, CommitFails, BatchFails, Release, OnlyIn
<1>25. CASE PublishProof
  BY <1>25, <1>0 DEF PublishProof, Continue, CommitFails, BatchFails, Release, OnlyIn
<1>26. CASE WriteCheckpoint
  BY <1>26, <1>0 DEF WriteCheckpoint, Continue
<1>27. CASE Review
  BY <1>27, <1>0 DEF Review, Continue, Release
<1>28. CASE CommitMemory
  BY <1>28, <1>0 DEF CommitMemory, Release
<1>29. CASE Stop
  BY <1>29, <1>0 DEF Stop, Release
<1>30. CASE CrashStarter
  BY <1>30, <1>0 DEF CrashStarter
<1>31. CASE RunFault
  BY <1>31, <1>0 DEF RunFault, BatchFails, OnlyIn
<1>32. CASE CommitFault
  BY <1>32, <1>0 DEF CommitFault, CommitFails, BatchFails, Release, OnlyIn
<1>33. ASSUME NEW s \in Shards, EditSource(s) PROVE PlacesInv'
  BY <1>33, <1>0 DEF EditSource
<1>34. ASSUME NEW s \in Shards, NEW t \in Texts, EditOutput(s, t) PROVE PlacesInv'
  BY <1>34, <1>0 DEF EditOutput
<1>35. CASE OwnerSigns
  <2>1. output \in [Shards -> Texts]
    BY <1>35 DEF OwnerSigns, Validated, TypeOK
  <2>2. signed' = output /\ UNCHANGED <<starter, job, pc, intent, fresh, mem, memJob, commit, child>>
    BY <1>35 DEF OwnerSigns
  <2> QED
    BY <2>1, <2>2
<1>36. ASSUME NEW what \in {"resume", "cancel", "commit"}, Begin(what) PROVE PlacesInv'
  <2>1. what = "commit" => signed \in [Shards -> Texts]
    BY <1>36 DEF Begin, TypeOK
  <2> QED
    BY <1>36, <1>0, <2>1 DEF Begin
<1>37. ASSUME NEW s \in Shards, BackoffElapses(s) PROVE PlacesInv'
  <2>1. UNCHANGED <<starter, job, signed, pc, intent, fresh, memJob, commit, child>>
    BY <1>37 DEF BackoffElapses
  <2>2. pc = "free" => mem' = mem
    <3>1. Due(NewRow) = NewRow
      BY DEF Due, NewRow
    <3>2. NewLedger.rows = [r \in Shards |-> NewRow]
      BY DEF NewLedger
    <3>3. mem' = [mem EXCEPT ![s] = Due(mem[s])]
      BY <1>37 DEF BackoffElapses
    <3>4. [NewLedger.rows EXCEPT ![s] = NewRow] = NewLedger.rows
      BY <3>2
    <3> QED
      BY <3>1, <3>2, <3>3, <3>4
  <2> QED
    BY <1>0, <2>1, <2>2
<1>38. CASE UNCHANGED vars
  BY <1>38, <1>0 DEF vars
<1> QED
  BY <1>1, <1>2, <1>3, <1>4, <1>5, <1>6, <1>7, <1>8, <1>9, <1>10, <1>11, <1>12, <1>13, <1>14,
     <1>15, <1>16, <1>17, <1>18, <1>19, <1>20, <1>21, <1>22, <1>23, <1>24, <1>25, <1>26, <1>27,
     <1>28, <1>29, <1>30, <1>31, <1>32, <1>33, <1>34, <1>35, <1>36, <1>37, <1>38
     DEF Next, Starter, HolderStep, Fault, Edit

\* The files, the memory and what was signed.
FilesInv ==
  /\ lane \in Lanes /\ size \in [Shards -> Nat \ {0}] /\ raw \subseteq Shards
  /\ noted \subseteq Shards /\ edited \subseteq Shards
  /\ output \in [Shards -> Texts \cup {None}] /\ proof \in [Shards -> Proof \cup {None}]
  /\ memory \in [Shards -> MemoryRow \cup {None}]
  /\ approved \subseteq Shards \X Texts /\ signed \in {None} \cup [Shards -> Texts]

\* The starter and the holder.
CallInv ==
  /\ starter \in {"none", "manifest", "ledger", "waiting", "done"}
  /\ pc \in Places /\ intent \in {"resume", "cancel", "commit"} /\ fresh \in BOOLEAN
  /\ left \subseteq Shards /\ batch \subseteq Shards
  /\ commit = Unworked \/ commit \in [shard : Shards, text : Texts, back : Places]

\* What is counted.
CountsInv ==
  /\ sent \in [Shards -> Nat]
  /\ crashes \in Nat /\ faults \in Nat /\ changes \in Nat /\ crashes + faults + changes <= MaxMishaps

LEMMA StepFilesInv ==
  ASSUME TypeInv, [Next]_vars
  PROVE  FilesInv'
<1> USE NoneAssumption
<1> USE DEF settingVars, startVars, ledgerVars, fileVars, memoryVars, holderVars, passVars,
           childVars, boundVars, FilesInv, Committing
<1>0. FilesInv
  BY DEF FilesInv, TypeInv, TypeOK
<1>c. Committing => commit.shard \in Shards /\ commit.text \in Texts
  BY DEF TypeInv, PlacesInv
<1>s. pc = "reviewing" /\ ReceiptMatches => signed \in {None} \cup [Shards -> Texts]
  BY <1>0 DEF FilesInv
<1> USE <1>c, <1>s
<1>1. CASE PublishOutput
  BY <1>1, <1>0 DEF PublishOutput, Continue, CommitFails, BatchFails, Release, OnlyIn
<1>2. CASE PublishProof
  <2>1. [text |-> commit.text, memory |-> commit.back = "hitting"] \in Proof /\ commit.shard \in Shards
    BY <1>2 DEF PublishProof, Proof
  <2>2. \/ proof' = proof
        \/ proof' = [proof EXCEPT ![commit.shard] = [text |-> commit.text, memory |-> commit.back = "hitting"]]
    BY <1>2 DEF PublishProof
  <2>3. proof' \in [Shards -> Proof \cup {None}]
    BY <1>0, <2>1, <2>2
  <2> QED
    BY <1>2, <1>0, <2>3 DEF PublishProof
<1>3. CASE CommitMemory
  <2>1. memory' = memory \/ (memory' = Remembered /\ output \in [Shards -> Texts])
    BY <1>3 DEF CommitMemory, ReceiptMatches, TypeInv, PlacesInv
  <2>2. output \in [Shards -> Texts] => Remembered \in [Shards -> MemoryRow \cup {None}]
    BY DEF Remembered, MemoryRow
  <2>3. memory' \in [Shards -> MemoryRow \cup {None}]
    BY <1>0, <2>1, <2>2
  <2> QED
    BY <1>3, <1>0, <2>3 DEF CommitMemory, Release
<1>4. CASE OwnerSigns
  <2>1. output \in [Shards -> Texts]
    BY <1>4, <1>0 DEF OwnerSigns, Validated
  <2> QED
    BY <1>4, <1>0, <2>1 DEF OwnerSigns
<1>5. ASSUME NEW s \in Shards, EditSource(s) PROVE FilesInv'
  BY <1>5, <1>0 DEF EditSource
<1>6. ASSUME NEW s \in Shards, NEW t \in Texts, EditOutput(s, t) PROVE FilesInv'
  BY <1>6, <1>0 DEF EditOutput
<1>7. ASSUME NEW e \in BOOLEAN, StartLedger(e) PROVE FilesInv'
  BY <1>7, <1>0 DEF StartLedger
<1>8. CASE Looked
  BY <1>8, <1>0 DEF Looked, Conclude, Looking
<1>9. CASE SaveLeases
  BY <1>9, <1>0 DEF SaveLeases, Conclude
<1>10. CASE PrepareRun
  BY <1>10, <1>0 DEF PrepareRun
<1>11. CASE Save
  BY <1>11, <1>0 DEF Save, Release
<1>12. ASSUME NEW s \in Shards, BackoffElapses(s) PROVE FilesInv'
  BY <1>12, <1>0 DEF BackoffElapses
<1>13. CASE WriteCheckpoint
  BY <1>13, <1>0 DEF WriteCheckpoint
<1>14. CASE UNCHANGED <<output, proof, memory, approved, signed, edited, noted>>
  BY <1>14, <1>0, Writers DEF Writes
<1> HIDE DEF FilesInv
<1> QED
  BY Writers, <1>1, <1>2, <1>3, <1>4, <1>5, <1>6, <1>7, <1>8, <1>9, <1>10, <1>11, <1>12, <1>13, <1>14
     DEF Writes

LEMMA StepCallInv ==
  ASSUME TypeInv, [Next]_vars
  PROVE  CallInv'
<1> USE NoneAssumption
<1> USE DEF settingVars, startVars, ledgerVars, fileVars, memoryVars, holderVars, passVars,
           childVars, boundVars, CallInv, Places, Unworked, Committing
<1>0. CallInv
  BY DEF CallInv, TypeInv, TypeOK
<1>c. Committing => commit.shard \in Shards /\ commit.text \in Texts /\ commit.back \in Places
  BY DEF TypeInv, PlacesInv, Places
<1>h. /\ left # {} => First(left) \in Shards
      /\ Interrupted # {} => /\ First(Interrupted) \in Shards
                             /\ child[mem[First(Interrupted)].run][First(Interrupted)] \in Texts \cup {None}
      /\ pc = "collecting" /\ left # {} => child[Len(child)][First(left)] \in Texts \cup {None}
      /\ left # {} /\ Known(First(left)) => memory[First(left)].text \in Texts
  BY InHand
<1> USE <1>c, <1>h
<1>1. CASE StartManifest
  BY <1>1, <1>0 DEF StartManifest
<1>2. ASSUME NEW e \in BOOLEAN, StartLedger(e) PROVE CallInv'
  BY <1>2, <1>0 DEF StartLedger
<1>3. CASE StartRead
  BY <1>3, <1>0 DEF StartRead, View, OnlyIn
<1>4. CASE StartLocks
  BY <1>4, <1>0 DEF StartLocks
<1>5. CASE StartRefused
  BY <1>5, <1>0 DEF StartRefused
<1>6. CASE Cancel
  BY <1>6, <1>0 DEF Cancel, OnlyIn
<1>7. CASE StopEarly
  BY <1>7, <1>0 DEF StopEarly, Release
<1>8. CASE Recover
  BY <1>8, <1>0 DEF Recover, OnlyIn
<1>9. CASE Reconcile
  <2>1. \/ (pc' = pc /\ commit' = commit)
        \/ (pc' = "output" /\ commit' \in [shard : Shards, text : Texts, back : Places])
    <3> DEFINE s == First(Interrupted)
               t == child[mem[First(Interrupted)].run][First(Interrupted)]
    <3>1. \/ (pc' = pc /\ commit' = commit)
          \/ (s \in Shards /\ t \in Texts /\ StartCommit(s, t, "reconciling"))
      BY ONLY <1>9, <1>h DEF Reconcile
    <3> HIDE DEF s, t
    <3> QED
      BY <3>1 DEF StartCommit
  <2>2. UNCHANGED <<starter, intent, fresh>> /\ left' \subseteq left /\ batch' \subseteq batch
    BY <1>9 DEF Reconcile
  <2> QED
    BY <1>0, <2>1, <2>2
<1>10. CASE Gate
  BY <1>10, <1>0 DEF Gate, Conclude, Candidates
<1>11. CASE LookUp
  <2>1. \/ (pc' = pc /\ commit' = commit)
        \/ (pc' = "output" /\ commit' \in [shard : Shards, text : Texts, back : Places])
    <3> DEFINE s == First(left)
               t == memory[First(left)].text
    <3>1. \/ (pc' = pc /\ commit' = commit)
          \/ (s \in Shards /\ t \in Texts /\ StartCommit(s, t, "hitting"))
      BY ONLY <1>11, <1>h DEF LookUp
    <3> HIDE DEF s, t
    <3> QED
      BY <3>1 DEF StartCommit
  <2>2. UNCHANGED <<starter, intent, fresh>> /\ left' \subseteq left /\ batch' \subseteq batch
    BY <1>11 DEF LookUp
  <2> QED
    BY <1>0, <2>1, <2>2
<1>12. CASE InputRefused
  BY <1>12, <1>0 DEF InputRefused, Release, Looking
<1>13. CASE Looked
  BY <1>13, <1>0 DEF Looked, Conclude, Looking
<1>14. CASE Lease
  BY <1>14, <1>0 DEF Lease, OnlyIn, Selected
<1>15. CASE SaveLeases
  BY <1>15, <1>0 DEF SaveLeases, Conclude
<1>16. CASE PrepareRun
  BY <1>16, <1>0 DEF PrepareRun
<1>17. CASE Submit
  BY <1>17, <1>0 DEF Submit, BatchFails, OnlyIn
<1>18. ASSUME NEW s \in Shards, NEW t \in Texts \cup {None}, Send(s, t) PROVE CallInv'
  BY <1>18, <1>0 DEF Send
<1>19. CASE RunEnds
  BY <1>19, <1>0 DEF RunEnds
<1>20. CASE Collect
  <2>1. \/ (pc' = pc /\ commit' = commit)
        \/ (pc' = "output" /\ commit' \in [shard : Shards, text : Texts, back : Places])
    <3> DEFINE s == First(left)
               t == child[Len(child)][First(left)]
    <3>1. \/ (pc' = pc /\ commit' = commit)
          \/ (s \in Shards /\ t \in Texts /\ StartCommit(s, t, "collecting"))
      BY ONLY <1>20, <1>h DEF Collect
    <3> HIDE DEF s, t
    <3> QED
      BY <3>1 DEF StartCommit
  <2>2. UNCHANGED <<starter, intent, fresh>> /\ left' \subseteq left /\ batch' \subseteq batch
    BY <1>20 DEF Collect
  <2> QED
    BY <1>0, <2>1, <2>2
<1>21. CASE Collected
  BY <1>21, <1>0 DEF Collected
<1>22. CASE End
  BY <1>22, <1>0 DEF End, Conclude, OnlyIn
<1>23. CASE Save
  BY <1>23, <1>0 DEF Save, Release
<1>24. CASE PublishOutput
  BY <1>24, <1>0 DEF PublishOutput, Continue, CommitFails, BatchFails, Release, OnlyIn
<1>25. CASE PublishProof
  BY <1>25, <1>0 DEF PublishProof, Continue, CommitFails, BatchFails, Release, OnlyIn
<1>26. CASE WriteCheckpoint
  BY <1>26, <1>0 DEF WriteCheckpoint, Continue
<1>27. CASE Review
  BY <1>27, <1>0 DEF Review, Continue, Release
<1>28. CASE CommitMemory
  BY <1>28, <1>0 DEF CommitMemory, Release
<1>29. CASE Stop
  BY <1>29, <1>0 DEF Stop, Release
<1>30. CASE CrashStarter
  BY <1>30, <1>0 DEF CrashStarter
<1>31. CASE RunFault
  BY <1>31, <1>0 DEF RunFault, BatchFails, OnlyIn
<1>32. CASE CommitFault
  BY <1>32, <1>0 DEF CommitFault, CommitFails, BatchFails, Release, OnlyIn
<1>33. ASSUME NEW s \in Shards, EditSource(s) PROVE CallInv'
  BY <1>33, <1>0 DEF EditSource
<1>34. ASSUME NEW s \in Shards, NEW t \in Texts, EditOutput(s, t) PROVE CallInv'
  BY <1>34, <1>0 DEF EditOutput
<1>35. CASE OwnerSigns
  BY <1>35, <1>0 DEF OwnerSigns
<1>36. ASSUME NEW what \in {"resume", "cancel", "commit"}, Begin(what) PROVE CallInv'
  BY <1>36, <1>0 DEF Begin, View, OnlyIn
<1>37. ASSUME NEW s \in Shards, BackoffElapses(s) PROVE CallInv'
  BY <1>37, <1>0 DEF BackoffElapses
<1>38. CASE UNCHANGED vars
  BY <1>38, <1>0 DEF vars
<1> QED
  BY <1>1, <1>2, <1>3, <1>4, <1>5, <1>6, <1>7, <1>8, <1>9, <1>10, <1>11, <1>12, <1>13, <1>14,
     <1>15, <1>16, <1>17, <1>18, <1>19, <1>20, <1>21, <1>22, <1>23, <1>24, <1>25, <1>26, <1>27,
     <1>28, <1>29, <1>30, <1>31, <1>32, <1>33, <1>34, <1>35, <1>36, <1>37, <1>38
     DEF Next, Starter, HolderStep, Fault, Edit

LEMMA StepCountsInv ==
  ASSUME TypeInv, [Next]_vars
  PROVE  CountsInv'
<1>0. CountsInv
  BY DEF CountsInv, TypeInv, TypeOK
<1>1. sent' \in [Shards -> Nat]
  <2>1. CASE UNCHANGED sent
    BY <2>1, <1>0 DEF CountsInv
  <2>2. ASSUME NEW s \in Shards, NEW t \in Texts \cup {None}, Send(s, t) PROVE sent' \in [Shards -> Nat]
    BY <2>2, <1>0 DEF Send, CountsInv
  <2> QED
    BY <2>1, <2>2, Writers DEF Writes
<1>2. MayFail => crashes + faults + changes + 1 <= MaxMishaps
  BY <1>0, BoundsAssumption DEF CountsInv, MayFail
<1> QED
  BY <1>0, <1>1, <1>2, Writers DEF Writes, CountsInv, boundVars

LEMMA StepTypeInv == TypeInv /\ [Next]_vars => TypeInv'
<1> SUFFICES ASSUME TypeInv, [Next]_vars PROVE TypeInv'
  OBVIOUS
<1>1. LedgersInv'
  BY StepHolderLedger, StepStoredLedger, StepStaleLedger, StepStatuses DEF LedgersInv
<1>2. RunsInv'
  BY StepRunsInv
<1>3. \A i \in 1 .. Len(child') : child'[i] \in [Shards -> Texts \cup {None}]
  BY <1>2 DEF RunsInv
<1>4. TypeOK'
  BY <1>1, <1>2, <1>3, StepFilesInv, StepCallInv, StepCountsInv
     DEF TypeOK, FilesInv, CallInv, CountsInv, LedgersInv, RunsInv
<1> QED
  BY <1>1, <1>2, <1>4, StepPlacesInv DEF TypeInv

\* Everything the theorems rest on.
HostedInv == TypeInv /\ CancelInv /\ LiveInv /\ ApprovalInv /\ CertInv

LEMMA InitHostedInv == Init => HostedInv
<1> SUFFICES ASSUME Init PROVE HostedInv
  OBVIOUS
<1> USE NoneAssumption, NewLedgerOK
<1>0. PICK setting \in Settings : /\ size = setting.size /\ raw = setting.raw
                                 /\ memory = setting.memory /\ maxRetries = setting.retries
  BY DEF Init
<1>1. /\ size \in [Shards -> Nat \ {0}] /\ raw \subseteq Shards /\ memory \in [Shards -> MemoryRow \cup {None}]
      /\ maxRetries \in Nat
  BY <1>0, SettingsAssumption
<1>2. /\ LedgersInv /\ child = <<>> /\ Len(child) = 0
      /\ \A s \in Shards : rows[s].run = 0 /\ mem[s].run = 0 /\ stale.rows[s].run = 0
  BY <1>1 DEF Init, LedgersInv, JobStatuses
<1>3. RunsInv
  BY <1>2 DEF RunsInv
<1>4. PlacesInv
  BY DEF Init, PlacesInv, Committing
<1>5. FilesInv
  <2>1. approved \subseteq Shards \X Texts
    BY <1>1 DEF Init, MemoryRow
  <2> QED
    BY <1>1, <2>1 DEF Init, FilesInv
<1>6. CallInv /\ CountsInv
  <2>1. CallInv
    BY DEF Init, CallInv, Places
  <2>2. sent \in [Shards -> Nat] /\ crashes = 0 /\ faults = 0 /\ changes = 0
    BY DEF Init
  <2> QED
    BY <2>1, <2>2, BoundsAssumption DEF CountsInv
<1>7. TypeInv
  BY <1>2, <1>3, <1>4, <1>5, <1>6
     DEF TypeInv, TypeOK, LedgersInv, RunsInv, FilesInv, CallInv, CountsInv
<1>8. CancelInv /\ LiveInv
  BY DEF Init, CancelInv, LiveInv
<1>9. ApprovalInv
  BY DEF Init, ApprovalInv, MemoryIsApproved, Committing
<1>10. CertInv
  <2>1. /\ \A s \in Shards : /\ mem[s].status = "pending" /\ rows[s].status = "pending"
                            /\ stale.rows[s].status = "pending" /\ proof[s] = None
        /\ noted = {} /\ pc = "free" /\ job = None /\ memJob = "running" /\ stale.job = "running"
    BY DEF Init
  <2>2. FilesCert /\ StaleCert /\ MemCert
    BY <2>1 DEF FilesCert, StaleCert, MemCert, Coherent
  <2>3. RowsCert
    BY <2>1 DEF RowsCert, JobStatuses
  <2> QED
    BY <2>2, <2>3 DEF CertInv
<1> QED
  BY <1>7, <1>8, <1>9, <1>10 DEF HostedInv

LEMMA StepHostedInv == HostedInv /\ [Next]_vars => HostedInv'
<1> SUFFICES ASSUME HostedInv, [Next]_vars PROVE HostedInv'
  OBVIOUS
<1>1. TypeInv'
  BY StepTypeInv DEF HostedInv
<1>2. CertInv'
  BY StepFilesCert, StepRowsCert, StepStaleCert, StepMemCert DEF HostedInv, CertInv
<1> QED
  BY <1>1, <1>2, StepCancelInv, StepLiveInv, StepApprovalInv DEF HostedInv

\* The ledgers, files and places of a job and of its calls keep their types, whatever
\* dies, throws or is edited (corpus.ts 200-1800).
THEOREM TypeCorrect == Spec => []TypeOK
<1>1. HostedInv => TypeOK
  BY DEF HostedInv, TypeInv
<1> QED
  BY <1>1, InitHostedInv, StepHostedInv, PTL DEF Spec

\* However many passes, resumes, crashes and errors a live job sees, no shard of it is
\* sent twice: the receipt is redacted in the stored manifest, so only the starter's
\* pass may submit, and it submits one batch (corpus.ts 213-220, 1425).
THEOREM LiveNeverResent == Spec => []LiveSentOnce
<1>1. HostedInv => LiveSentOnce
  BY DEF HostedInv, LiveInv, LiveSentOnce
<1> QED
  BY <1>1, InitHostedInv, StepHostedInv, PTL DEF Spec

\* What the memory holds as reviewed, and what a job has taken from it, was signed by
\* an owner, whenever outputs are edited between the review, its validation and the
\* commit (corpus.ts 838-842).
THEOREM MemoryAlwaysApproved == Spec => []MemoryIsApproved
<1>1. HostedInv => MemoryIsApproved
  BY DEF HostedInv, ApprovalInv
<1> QED
  BY <1>1, InitHostedInv, StepHostedInv, PTL DEF Spec

\* A job whose ledger says completed has its outputs and, unless a publication failed,
\* their proofs, whichever of the ledgers of the starter, the disk and the holder its
\* status came from (corpus.ts 1580, 1768).
THEOREM CompletedAlwaysCertified == Spec => []CompletedIsCertified
<1>1. ASSUME HostedInv PROVE CompletedIsCertified
  <2>1. \A s \in Shards : /\ View[s].status \in {rows[s].status, "succeeded"}
                          /\ s \in noted => View[s].status = "succeeded"
    BY <1>1, RowOps DEF View, OnlyIn, HostedInv, TypeInv, LedgersInv
  <2>2. FilesCert /\ RowsCert
    BY <1>1 DEF HostedInv, CertInv
  <2> QED
    BY <2>1, <2>2 DEF FilesCert, RowsCert, Published, Out, CompletedIsCertified
<1> QED
  BY <1>1, InitHostedInv, StepHostedInv, PTL DEF Spec

\* The property of one step.
CancelledHolds ==
  job = "cancelled" => (job' = "cancelled" /\ sent' = sent) \/ (fresh /\ stale.job # "cancelled")

LEMMA CancelledStep ==
  ASSUME TypeInv, CancelInv, [Next]_vars
  PROVE  CancelledHolds
<1> USE NoneAssumption
<1> USE DEF settingVars, startVars, ledgerVars, fileVars, memoryVars, holderVars, passVars,
           childVars, boundVars, CancelInv, TypeInv, PlacesInv, CancelledHolds
<1>1. CASE StartManifest
  BY <1>1 DEF StartManifest
<1>2. ASSUME NEW e \in BOOLEAN, StartLedger(e) PROVE CancelledHolds
  BY <1>2 DEF StartLedger, JobStatuses
<1>3. CASE StartRead
  BY <1>3 DEF StartRead, View, OnlyIn
<1>4. CASE StartLocks
  BY <1>4 DEF StartLocks
<1>5. CASE StartRefused
  BY <1>5 DEF StartRefused
<1>6. CASE Cancel
  BY <1>6 DEF Cancel, OnlyIn
<1>7. CASE StopEarly
  BY <1>7 DEF StopEarly, Release
<1>8. CASE Recover
  BY <1>8 DEF Recover, OnlyIn
<1>9. CASE Reconcile
  BY <1>9 DEF Reconcile, StartCommit
<1>10. CASE Gate
  BY <1>10 DEF Gate, Conclude
<1>11. CASE LookUp
  BY <1>11 DEF LookUp, StartCommit, Looking
<1>12. CASE InputRefused
  BY <1>12 DEF InputRefused, Release, Looking
<1>13. CASE Looked
  BY <1>13 DEF Looked, Conclude, Looking
<1>14. CASE Lease
  BY <1>14 DEF Lease, OnlyIn
<1>15. CASE SaveLeases
  BY <1>15 DEF SaveLeases, Conclude
<1>16. CASE PrepareRun
  BY <1>16 DEF PrepareRun
<1>17. CASE Submit
  BY <1>17 DEF Submit, BatchFails, OnlyIn
<1>18. ASSUME NEW s \in Shards, NEW t \in Texts \cup {None}, Send(s, t) PROVE CancelledHolds
  BY <1>18 DEF Send
<1>19. CASE RunEnds
  BY <1>19 DEF RunEnds
<1>20. CASE Collect
  BY <1>20 DEF Collect, StartCommit
<1>21. CASE Collected
  BY <1>21 DEF Collected
<1>22. CASE End
  BY <1>22 DEF End, Conclude, OnlyIn
<1>23. CASE Save
  BY <1>23 DEF Save, Release
<1>24. CASE PublishOutput
  BY <1>24 DEF PublishOutput, Continue, CommitFails, BatchFails, Release, OnlyIn
<1>25. CASE PublishProof
  BY <1>25 DEF PublishProof, Continue, CommitFails, BatchFails, Release, OnlyIn
<1>26. CASE WriteCheckpoint
  BY <1>26 DEF WriteCheckpoint, Continue
<1>27. CASE Review
  BY <1>27 DEF Review, Continue, Release
<1>28. CASE CommitMemory
  BY <1>28 DEF CommitMemory, Release
<1>29. CASE Stop
  BY <1>29 DEF Stop, Release
<1>30. CASE CrashStarter
  BY <1>30 DEF CrashStarter
<1>31. CASE RunFault
  BY <1>31 DEF RunFault, BatchFails, OnlyIn
<1>32. CASE CommitFault
  BY <1>32 DEF CommitFault, CommitFails, BatchFails, Release, OnlyIn
<1>33. ASSUME NEW s \in Shards, EditSource(s) PROVE CancelledHolds
  BY <1>33 DEF EditSource
<1>34. ASSUME NEW s \in Shards, NEW t \in Texts, EditOutput(s, t) PROVE CancelledHolds
  BY <1>34 DEF EditOutput
<1>35. CASE OwnerSigns
  BY <1>35 DEF OwnerSigns
<1>36. ASSUME NEW what \in {"resume", "cancel", "commit"}, Begin(what) PROVE CancelledHolds
  BY <1>36 DEF Begin, View, OnlyIn
<1>37. ASSUME NEW s \in Shards, BackoffElapses(s) PROVE CancelledHolds
  BY <1>37 DEF BackoffElapses
<1>38. CASE UNCHANGED vars
  BY <1>38 DEF vars
<1> QED
  BY <1>1, <1>2, <1>3, <1>4, <1>5, <1>6, <1>7, <1>8, <1>9, <1>10, <1>11, <1>12, <1>13, <1>14,
     <1>15, <1>16, <1>17, <1>18, <1>19, <1>20, <1>21, <1>22, <1>23, <1>24, <1>25, <1>26, <1>27,
     <1>28, <1>29, <1>30, <1>31, <1>32, <1>33, <1>34, <1>35, <1>36, <1>37, <1>38
     DEF Next, Starter, HolderStep, Fault, Edit

\* Nothing revives a cancelled job or sends a shard of it but the start that had read
\* its ledger before the cancellation (corpus.ts 213-220).
THEOREM CancellationHolds == Spec => CancelledUnlessStale
<1>1. HostedInv /\ [Next]_vars => CancelledHolds
  BY CancelledStep DEF HostedInv
<1>2. HostedInv /\ [Next]_vars => [CancelledHolds]_vars
  BY <1>1
<1> QED
  BY <1>2, InitHostedInv, StepHostedInv, PTL DEF Spec, CancelledUnlessStale, CancelledHolds

=============================================================================
