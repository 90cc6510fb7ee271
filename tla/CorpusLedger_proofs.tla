------------------------ MODULE CorpusLedger_proofs ------------------------
(***************************************************************************)
(* Proofs about CorpusLedger, for every set of shards and processes, every *)
(* retry limit, batch cap and number of failures.                          *)
(*                                                                         *)
(* TypeInv is inductive whether or not the lock excludes.  RecoveryInv is  *)
(* inductive when it does: the shards a pass still has before it carry no  *)
(* proof unless their rows say they are finished, because Resume recovered *)
(* them and nobody else publishes meanwhile.                               *)
(*                                                                         *)
(* SharedInv is inductive whether or not it does, where no text truncates  *)
(* another: what has been published is then never replaced.                *)
(*                                                                         *)
(* LedgerInv relates the three copies of a shard's row, in ledger.json, in *)
(* its checkpoint and in the memory of a pass: each later copy keeps the   *)
(* attempts of the earlier and whether the shard is out of retries.        *)
(***************************************************************************)
EXTENDS CorpusLedger, TLAPS

InWork == {"working", "publishing", "proving", "committing", "noting", "ending"}

\* The shard in work is none of those the pass has before it.
InShard == \A w \in Workers : pc[w] \in InWork => cur[w] \in Shards \ left[w]

\* What is published has been extracted.
Yielded == \A w \in Workers : pc[w] \in {"publishing", "proving"} => text[w] \in Texts

\* What is checkpointed is no longer under way.
Closed == \A w \in Workers : pc[w] \in {"proving", "committing", "noting", "ending"}
                               => mem[w][cur[w]].status \notin Open

TypeInv == TypeOK /\ InShard /\ Yielded /\ Closed

\* One process at a time is in a pass.
Solo == \A v, w \in Workers : pc[v] # "idle" /\ pc[w] # "idle" => v = w

\* A shard that is still before the pass and has its proof will be skipped.
Passed == \A w \in Workers : pc[w] \in InWork \cup {"passing"} =>
            \A s \in left[w] : proof[s] # None => mem[w][s].status \notin Open \cup {"failed"}

\* The shard in work has no proof before this pass publishes it.
Fresh == \A w \in Workers : pc[w] \in {"working", "publishing", "proving"} => proof[cur[w]] = None

\* The text whose proof comes next is the one on disk.
Matched == \A w \in Workers : pc[w] = "proving" => output[cur[w]] = text[w]

RecoveryInv == Solo /\ ProofCertifiesOutput /\ Passed /\ Fresh /\ Matched

-----------------------------------------------------------------------------
(* Lemmas about the helpers *)

\* A row stays a row under everything the code does to it.
LEMMA RowsStayRows ==
  /\ NewRow \in Row
  /\ \A row \in Row : /\ Leased(row) \in Row
                      /\ Succeeded(row) \in Row /\ Succeeded(row).status = "succeeded"
                      /\ Quarantined(row) \in Row /\ Quarantined(row).status = "quarantined"
                      /\ Failed(row) \in Row /\ Failed(row).status = "failed"
                      /\ Cancelled(row) \in Row
                      /\ Due(row) \in Row /\ Due(row).status = row.status
<1> USE DEF Row, Statuses, Open, Retries
<1>1. NewRow \in Row
  BY DEF NewRow
<1>2. ASSUME NEW row \in Row PROVE Leased(row) \in Row
  <2>1. row.attempts + 1 \in Nat
    OBVIOUS
  <2> QED BY <2>1 DEF Leased
<1>3. ASSUME NEW row \in Row
      PROVE  /\ Succeeded(row) \in Row /\ Succeeded(row).status = "succeeded"
             /\ Quarantined(row) \in Row /\ Quarantined(row).status = "quarantined"
  BY DEF Succeeded, Quarantined
<1>4. ASSUME NEW row \in Row
      PROVE  /\ Failed(row) \in Row /\ Failed(row).status = "failed"
             /\ Cancelled(row) \in Row
  BY DEF Failed, Cancelled
<1>5. ASSUME NEW row \in Row
      PROVE  Due(row) \in Row /\ Due(row).status = row.status
  <2>1. row # None
    BY NoneAssumption
  <2> QED BY <2>1 DEF Due
<1> QED BY <1>1, <1>2, <1>3, <1>4, <1>5

\* Laying the checkpoints over a ledger gives a ledger.
LEMMA OverlayIsLedger ==
  ASSUME TypeOK, NEW ledger \in [Shards -> Row]
  PROVE  Overlay(ledger) \in [Shards -> Row]
BY DEF TypeOK, Overlay

\* Recovery gives a ledger in which a shard with output and proof is finished.
LEMMA RecoveredIsFinished ==
  ASSUME NEW ledger \in [Shards -> Row]
  PROVE  /\ Recovered(ledger) \in [Shards -> Row]
         /\ \A s \in Shards : output[s] # None /\ proof[s] # None =>
              Recovered(ledger)[s].status \notin Open \cup {"failed"}
BY RowsStayRows DEF Recovered, Open

-----------------------------------------------------------------------------
(* Types *)

LEMMA TypeInit == Init => TypeInv
BY RowsStayRows, SettingAssumption, LimitsAssumption
   DEF Init, TypeInv, TypeOK, InShard, Yielded, Closed, InWork, JobStatuses, Places

\* Marking the shard in work as failed keeps the types.
LEMMA FailStep ==
  ASSUME TypeInv, NEW w \in Workers, pc[w] \in InWork, Fail(w),
         UNCHANGED <<starter, diskVars, intent, memJob, passVars, runs, boundVars>>
  PROVE  TypeInv'
<1> USE DEF TypeInv, TypeOK, InShard, Yielded, Closed, InWork, Goto, Places
<1>1. cur[w] \in Shards /\ mem[w][cur[w]] \in Row
  OBVIOUS
<1>2. mem' \in [Workers -> [Shards -> Row]] /\ mem'[w][cur[w]].status = "failed"
  BY <1>1, RowsStayRows DEF Fail
<1> QED BY <1>1, <1>2 DEF Fail, Open, diskVars, passVars, boundVars

LEMMA TypeStep == TypeInv /\ [Next]_vars => TypeInv'
<1> SUFFICES ASSUME TypeInv, [Next]_vars PROVE TypeInv'
  OBVIOUS
<1> USE DEF TypeInv, TypeOK, InShard, Yielded, Closed, InWork, Goto, JobStatuses, Places
<1>1. CASE UNCHANGED vars
  BY <1>1 DEF vars, diskVars, memVars, passVars, boundVars
<1>2. CASE StarterStep
  BY <1>2, RowsStayRows, SettingAssumption
     DEF StarterStep, StartManifest, StartLedger, StartClear, CrashStarter, NoCheckpoints,
         diskVars, memVars, passVars, boundVars
<1>3. ASSUME NEW w \in Workers, NEW what \in {"resume", "cancel"}, Begin(w, what) PROVE TypeInv'
  BY <1>3 DEF Begin, diskVars, memVars, passVars, boundVars
<1>4. ASSUME NEW w \in Workers, Resume(w) PROVE TypeInv'
  <2> DEFINE new == Recovered(Overlay(mem[w]))
  <2>1. new \in [Shards -> Row]
    BY OverlayIsLedger, RecoveredIsFinished
  <2> HIDE DEF new
  <2>2. CASE memJob[w] = "cancelled"
    BY ZenonT(40), <1>4, <2>2 DEF Resume, diskVars, passVars, boundVars
  <2>3. CASE memJob[w] # "cancelled"
    <3>1. mem' = [mem EXCEPT ![w] = new]
      BY <1>4, <2>3 DEF Resume, new
    <3>2. /\ left' = [left EXCEPT ![w] = Shards]
          /\ done' = [done EXCEPT ![w] = 0]
          /\ pc' = [pc EXCEPT ![w] = "passing"]
          /\ UNCHANGED <<starter, diskVars, intent, memJob, cur, text, runs, boundVars>>
      BY <1>4, <2>3 DEF Resume
    <3> HIDE DEF new
    <3> QED BY <2>1, <3>1, <3>2, LimitsAssumption DEF diskVars, boundVars
  <2> QED BY <2>2, <2>3
<1>5. ASSUME NEW w \in Workers, Cancel(w) PROVE TypeInv'
  <2> DEFINE new == [s \in Shards |-> Cancelled(Overlay(mem[w])[s])]
  <2>1. new \in [Shards -> Row]
    BY OverlayIsLedger, RowsStayRows
  <2>2. mem' = [mem EXCEPT ![w] = new]
    BY <1>5 DEF Cancel
  <2> HIDE DEF new
  <2> QED BY <1>5, <2>1, <2>2 DEF Cancel, diskVars, passVars, boundVars
<1>6. ASSUME NEW w \in Workers, NEW s \in Shards, Quarantine(w, s) PROVE TypeInv'
  <2>1. mem[w][s] \in Row /\ pc[w] = "passing" /\ s \in left[w]
    BY <1>6 DEF Quarantine, NextShard
  <2> QED BY <1>6, <2>1, RowsStayRows DEF Quarantine, Open, diskVars, passVars, boundVars
<1>7. ASSUME NEW w \in Workers, NEW s \in Shards, Lease(w, s) PROVE TypeInv'
  <2>1. mem[w][s] \in Row /\ pc[w] = "passing" /\ s \in left[w]
    BY <1>7 DEF Lease, NextShard
  <2>2. done[w] + 1 \in 0 .. BatchCap
    BY <1>7, LimitsAssumption DEF Lease, NextShard
  <2>3. mem' \in [Workers -> [Shards -> Row]]
    BY <1>7, <2>1, RowsStayRows DEF Lease
  <2>4. s \notin left'[w] /\ left' \in [Workers -> SUBSET Shards] /\ cur'[w] = s
    BY <1>7, ShardsAssumption DEF Lease
  <2> QED BY <1>7, <2>1, <2>2, <2>3, <2>4 DEF Lease, diskVars, boundVars
<1>8. ASSUME NEW w \in Workers, NEW t \in Texts, Extract(w, t) PROVE TypeInv'
  BY <1>8 DEF Extract, diskVars, memVars, boundVars
<1>9. ASSUME NEW w \in Workers, PublishOutput(w) PROVE TypeInv'
  <2>1. pc[w] = "publishing" /\ cur[w] \in Shards /\ mem[w][cur[w]] \in Row
    BY <1>9 DEF PublishOutput
  <2>2. CASE MayPublish(output[cur[w]], text[w])
    <3>1. /\ output' = [output EXCEPT ![cur[w]] = text[w]]
          /\ mem' = [mem EXCEPT ![w][cur[w]] = Succeeded(@)]
          /\ pc' = [pc EXCEPT ![w] = "proving"]
          /\ UNCHANGED <<starter, job, rows, checkpoint, proof, intent, memJob, passVars, runs, boundVars>>
      BY <1>9, <2>2 DEF PublishOutput
    <3>2. mem' \in [Workers -> [Shards -> Row]] /\ mem'[w][cur[w]].status = "succeeded"
      BY <2>1, <3>1, RowsStayRows
    <3> QED BY <2>1, <3>1, <3>2 DEF Open, passVars, boundVars
  <2>3. CASE ~MayPublish(output[cur[w]], text[w])
    <3>1. Fail(w) /\ UNCHANGED <<starter, diskVars, intent, memJob, passVars, runs, boundVars>>
      BY <1>9, <2>3 DEF PublishOutput, diskVars
    <3> QED BY <2>1, <3>1, FailStep
  <2> QED BY <2>2, <2>3
<1>10. ASSUME NEW w \in Workers, PublishProof(w) PROVE TypeInv'
  <2>1. pc[w] = "proving" /\ cur[w] \in Shards /\ mem[w][cur[w]] \in Row
    BY <1>10 DEF PublishProof
  <2>2. CASE proof[cur[w]] = None
    BY ZenonT(40), <1>10, <2>1, <2>2 DEF PublishProof, passVars, boundVars
  <2>3. CASE proof[cur[w]] # None
    <3>1. Fail(w) /\ UNCHANGED <<starter, diskVars, intent, memJob, passVars, runs, boundVars>>
      BY <1>10, <2>3 DEF PublishProof, diskVars
    <3> QED BY <2>1, <3>1, FailStep
  <2> QED BY <2>2, <2>3
<1>11. ASSUME NEW w \in Workers, CommitCheckpoint(w) PROVE TypeInv'
  BY <1>11 DEF CommitCheckpoint, WriteCheckpoint, memVars, passVars, boundVars
<1>12. ASSUME NEW w \in Workers, NoteSuccess(w) PROVE TypeInv'
  BY <1>12 DEF NoteSuccess, diskVars, memVars, passVars, boundVars
<1>13. ASSUME NEW w \in Workers, EndShard(w) PROVE TypeInv'
  BY <1>13 DEF EndShard, WriteCheckpoint, memVars, boundVars
<1>14. ASSUME NEW w \in Workers, Finalise(w) PROVE TypeInv'
  BY <1>14 DEF Finalise, FinalStatus, diskVars, boundVars
<1>15. ASSUME NEW w \in Workers, SaveLedger(w) PROVE TypeInv'
  BY <1>15 DEF SaveLedger, memVars, passVars, boundVars
<1>16. ASSUME NEW w \in Workers, ClearCheckpoints(w) PROVE TypeInv'
  BY <1>16 DEF ClearCheckpoints, NoCheckpoints, memVars, passVars, boundVars
<1>17. ASSUME NEW w \in Workers, Crash(w) \/ PassFault(w) PROVE TypeInv'
  <2>1. Forget(w) /\ UNCHANGED <<starter, diskVars, intent, memVars, done, runs>>
    BY <1>17 DEF Crash, PassFault
  <2>2. crashes' \in 0 .. MaxCrashes /\ faults' \in 0 .. MaxFaults
    BY <1>17, SettingAssumption DEF Crash, PassFault
  <2> QED BY <2>1, <2>2 DEF Forget, diskVars, memVars
<1>18. ASSUME NEW w \in Workers, ShardFault(w) PROVE TypeInv'
  <2>1. pc[w] \in InWork /\ cur[w] \in Shards /\ mem[w][cur[w]] \in Row
    BY <1>18 DEF ShardFault
  <2> QED BY <1>18, <2>1, RowsStayRows, SettingAssumption DEF ShardFault, Fail, Open, diskVars, passVars
<1>19. ASSUME NEW s \in Shards, BackoffElapses(s) PROVE TypeInv'
  <2>1. \A w \in Workers : \A r \in Shards :
          mem'[w][r] \in Row /\ mem'[w][r].status = mem[w][r].status
    BY <1>19, RowsStayRows DEF BackoffElapses
  <2>2. mem' \in [Workers -> [Shards -> Row]]
    BY <1>19, RowsStayRows DEF BackoffElapses
  <2>3. rows' \in [Shards -> Row]
    BY <1>19, RowsStayRows DEF BackoffElapses
  <2>4. \A r \in Shards : /\ checkpoint'[r] \in Row \cup {None}
                          /\ checkpoint'[r] # None => checkpoint'[r].status \notin Open
    <3>1. Due(None) = None
      BY DEF Due
    <3> QED BY <1>19, <3>1, RowsStayRows DEF BackoffElapses
  <2>5. checkpoint' \in [Shards -> Row \cup {None}]
    BY <1>19, <2>4 DEF BackoffElapses
  <2> QED BY <1>19, <2>1, <2>2, <2>3, <2>4, <2>5 DEF BackoffElapses, passVars, boundVars
<1> QED
  BY <1>1, <1>2, <1>3, <1>4, <1>5, <1>6, <1>7, <1>8, <1>9, <1>10, <1>11, <1>12, <1>13, <1>14,
     <1>15, <1>16, <1>17, <1>18, <1>19 DEF Next, WorkerStep, WorkerFault

\* Every variable of CorpusLedger keeps its type, and only rows that are no longer
\* under way are ever checkpointed.
THEOREM TypeCorrect == Spec => []TypeOK
<1>1. TypeInv => TypeOK
  BY DEF TypeInv
<1> QED BY <1>1, TypeInit, TypeStep, PTL DEF Spec

-----------------------------------------------------------------------------
(* Recovery, when the lock excludes *)

\* A step that touches neither the published files nor what a pass has before it,
\* and that moves a process only on, or out of its shard, keeps RecoveryInv.
LEMMA QuietStep ==
  ASSUME TypeInv, RecoveryInv, UNCHANGED <<output, proof, left, cur, text, mem>>,
         NEW w \in Workers, NEW place \in {"idle", "passing", "noting", "ending", "saving", "clearing"},
         pc' = [pc EXCEPT ![w] = place], pc[w] # "idle",
         place = "passing" => pc[w] \in InWork \cup {"passing"},
         place \in InWork => pc[w] \in InWork
  PROVE  RecoveryInv'
BY DEF TypeInv, TypeOK, RecoveryInv, Solo, ProofCertifiesOutput, Passed, Fresh, Matched, InWork

LEMMA RecoveryInit == Init => RecoveryInv
BY DEF Init, RecoveryInv, Solo, ProofCertifiesOutput, Passed, Fresh, Matched, InWork

LEMMA RecoveryStep ==
  ASSUME Exclusive PROVE TypeInv /\ RecoveryInv /\ [Next]_vars => RecoveryInv'
<1> SUFFICES ASSUME TypeInv, RecoveryInv, [Next]_vars PROVE RecoveryInv'
  OBVIOUS
<1> USE DEF TypeInv, TypeOK, InShard, Yielded, RecoveryInv, Solo, ProofCertifiesOutput, Passed,
            Fresh, Matched, InWork, Goto
<1>1. CASE UNCHANGED vars
  BY <1>1 DEF vars, diskVars, memVars, passVars, boundVars
<1>2. CASE StarterStep
  BY <1>2 DEF StarterStep, StartManifest, StartLedger, StartClear, CrashStarter,
              diskVars, memVars, passVars, boundVars
<1>3. ASSUME NEW w \in Workers, NEW what \in {"resume", "cancel"}, Begin(w, what) PROVE RecoveryInv'
  BY <1>3 DEF Begin, diskVars, passVars, boundVars
<1>4. ASSUME NEW w \in Workers, Resume(w) PROVE RecoveryInv'
  <2> DEFINE new == Recovered(Overlay(mem[w]))
  <2>1. /\ new \in [Shards -> Row]
        /\ \A s \in Shards : proof[s] # None => new[s].status \notin Open \cup {"failed"}
    <3>1. \A s \in Shards : proof[s] # None => output[s] # None
      OBVIOUS
    <3> QED BY <3>1, OverlayIsLedger, RecoveredIsFinished
  <2>2. CASE memJob[w] = "cancelled"
    <3>1. /\ pc[w] = "reading" /\ pc' = [pc EXCEPT ![w] = "idle"]
          /\ UNCHANGED <<output, proof, left, cur, text, mem>>
      BY <1>4, <2>2 DEF Resume, diskVars
    <3> QED BY <3>1, QuietStep
  <2>3. CASE memJob[w] # "cancelled"
    <3>1. /\ mem' = [mem EXCEPT ![w] = new]
          /\ left' = [left EXCEPT ![w] = Shards]
          /\ pc' = [pc EXCEPT ![w] = "passing"]
          /\ UNCHANGED <<output, proof, cur, text>>
          /\ pc[w] = "reading"
      BY <1>4, <2>3 DEF Resume, new, diskVars
    <3> HIDE DEF new
    <3> QED BY <2>1, <3>1
  <2> QED BY <2>2, <2>3
<1>5. ASSUME NEW w \in Workers, Cancel(w) PROVE RecoveryInv'
  <2>1. /\ pc[w] = "reading" /\ pc' = [pc EXCEPT ![w] = "saving"]
        /\ UNCHANGED <<output, proof, left, cur, text>>
        /\ \A v \in Workers \ {w} : mem'[v] = mem[v]
    BY <1>5 DEF Cancel, diskVars, passVars
  <2> QED BY <2>1
<1>6. ASSUME NEW w \in Workers, NEW s \in Shards, Quarantine(w, s) PROVE RecoveryInv'
  <2>1. /\ pc[w] = "passing" /\ UNCHANGED <<pc, output, proof, cur, text>>
        /\ left' = [left EXCEPT ![w] = {r \in @ : r > s}]
        /\ mem' = [mem EXCEPT ![w][s] = Quarantined(@)]
    BY <1>6 DEF Quarantine, NextShard
  <2>2. \A r \in left'[w] : r \in left[w] /\ r # s
    BY <2>1, ShardsAssumption
  <2>3. \A r \in left'[w] : mem'[w][r] = mem[w][r]
    BY <2>1, <2>2
  <2> QED BY <2>1, <2>2, <2>3
<1>7. ASSUME NEW w \in Workers, NEW s \in Shards, Lease(w, s) PROVE RecoveryInv'
  <2>1. /\ pc[w] = "passing" /\ pc' = [pc EXCEPT ![w] = "working"]
        /\ UNCHANGED <<output, proof, text>>
        /\ left' = [left EXCEPT ![w] = {r \in @ : r > s}]
        /\ mem' = [mem EXCEPT ![w][s] = Leased(@)]
        /\ cur' = [cur EXCEPT ![w] = s]
    BY <1>7 DEF Lease, NextShard, diskVars
  <2>2. \A r \in left'[w] : r \in left[w] /\ r # s
    BY <2>1, ShardsAssumption
  <2>3. \A r \in left'[w] : mem'[w][r] = mem[w][r]
    BY <2>1, <2>2
  <2>4. proof[s] = None
    BY <1>7, <2>1 DEF Lease, NextShard, Workable
  <2> QED BY <2>1, <2>2, <2>3, <2>4
<1>8. ASSUME NEW w \in Workers, NEW t \in Texts, Extract(w, t) PROVE RecoveryInv'
  BY <1>8 DEF Extract, diskVars, memVars
<1>9. ASSUME NEW w \in Workers, Fail(w), pc[w] \in InWork,
             UNCHANGED <<output, proof, left, cur, text>>
      PROVE  RecoveryInv'
  <2>1. \A r \in left[w] : mem'[w][r] = mem[w][r]
    BY <1>9 DEF Fail
  <2>2. \A v \in Workers \ {w} : mem'[v] = mem[v]
    BY <1>9 DEF Fail
  <2> QED BY <1>9, <2>1, <2>2 DEF Fail
<1>10. ASSUME NEW w \in Workers, PublishOutput(w) PROVE RecoveryInv'
  <2>1. CASE MayPublish(output[cur[w]], text[w])
    <3>1. /\ pc[w] = "publishing" /\ pc' = [pc EXCEPT ![w] = "proving"]
          /\ output' = [output EXCEPT ![cur[w]] = text[w]]
          /\ mem' = [mem EXCEPT ![w][cur[w]] = Succeeded(@)]
          /\ UNCHANGED <<proof, left, cur, text>>
      BY <1>10, <2>1 DEF PublishOutput, passVars
    <3>2. proof[cur[w]] = None /\ cur[w] \in Shards \ left[w]
      BY <3>1
    <3>3. \A r \in left[w] : mem'[w][r] = mem[w][r]
      BY <3>1, <3>2
    <3>4. \A v \in Workers \ {w} : pc'[v] = "idle"
      BY <3>1
    <3>5. Solo' /\ Fresh'
      BY <3>1, <3>2, <3>4
    <3>6. Passed'
      BY <3>1, <3>3, <3>4
    <3>7. Matched' /\ ProofCertifiesOutput'
      BY <3>1, <3>2, <3>4
    <3> QED BY <3>5, <3>6, <3>7
  <2>2. CASE ~MayPublish(output[cur[w]], text[w])
    BY <1>9, <1>10, <2>2 DEF PublishOutput, passVars
  <2> QED BY <2>1, <2>2
<1>11. ASSUME NEW w \in Workers, PublishProof(w) PROVE RecoveryInv'
  <2>1. /\ pc[w] = "proving" /\ proof[cur[w]] = None
        /\ proof' = [proof EXCEPT ![cur[w]] = text[w]]
        /\ pc' = [pc EXCEPT ![w] = "committing"]
        /\ UNCHANGED <<output, left, cur, text, mem>>
    BY <1>11 DEF PublishProof, passVars
  <2>2. cur[w] \in Shards \ left[w] /\ output[cur[w]] = text[w]
    BY <2>1
  <2>3. \A s \in left[w] : proof'[s] = proof[s]
    BY <2>1, <2>2
  <2>4. \A v \in Workers \ {w} : pc'[v] = "idle"
    BY <2>1
  <2>5. Passed'
    BY <2>1, <2>3, <2>4
  <2>6. ProofCertifiesOutput'
    BY <2>1, <2>2
  <2> QED BY <2>1, <2>4, <2>5, <2>6
<1>12. ASSUME NEW w \in Workers,
              CommitCheckpoint(w) \/ NoteSuccess(w) \/ Finalise(w) \/ SaveLedger(w)
                \/ ClearCheckpoints(w) \/ EndShard(w) \/ Crash(w) \/ PassFault(w)
       PROVE  RecoveryInv'
  <2>1. CASE CommitCheckpoint(w)
    BY <2>1, QuietStep DEF CommitCheckpoint, memVars, passVars
  <2>2. CASE NoteSuccess(w)
    BY <2>2, QuietStep DEF NoteSuccess, diskVars, memVars, passVars
  <2>3. CASE SaveLedger(w)
    BY <2>3, QuietStep DEF SaveLedger, memVars, passVars
  <2>4. CASE ClearCheckpoints(w)
    BY <2>4, QuietStep DEF ClearCheckpoints, memVars, passVars
  <2>5. CASE Finalise(w)
    BY <2>5 DEF Finalise, diskVars
  <2>6. CASE EndShard(w)
    BY <2>6 DEF EndShard, memVars
  <2>7. CASE Crash(w) \/ PassFault(w)
    <3>1. /\ pc' = [pc EXCEPT ![w] = "idle"] /\ UNCHANGED <<output, proof, mem>>
          /\ \A v \in Workers \ {w} : left'[v] = left[v] /\ cur'[v] = cur[v] /\ text'[v] = text[v]
      BY <2>7 DEF Crash, PassFault, Forget, diskVars, memVars
    <3> QED BY <3>1
  <2> QED BY <1>12, <2>1, <2>2, <2>3, <2>4, <2>5, <2>6, <2>7
<1>13. ASSUME NEW w \in Workers, ShardFault(w) PROVE RecoveryInv'
  BY <1>9, <1>13 DEF ShardFault, diskVars, passVars
<1>14. ASSUME NEW s \in Shards, BackoffElapses(s) PROVE RecoveryInv'
  <2>1. \A w \in Workers : \A r \in Shards : mem'[w][r].status = mem[w][r].status
    BY <1>14, RowsStayRows DEF BackoffElapses
  <2> QED BY <1>14, <2>1 DEF BackoffElapses, passVars
<1> QED
  BY <1>1, <1>2, <1>3, <1>4, <1>5, <1>6, <1>7, <1>8, <1>10, <1>11, <1>12, <1>13, <1>14
     DEF Next, WorkerStep, WorkerFault

\* When the lock excludes, a proof certifies the output on disk, even where a later
\* extraction may replace a truncated output.
THEOREM ProofsCertifyOutputs == ASSUME Exclusive PROVE Spec => []ProofCertifiesOutput
<1>1. RecoveryInv => ProofCertifiesOutput
  BY DEF RecoveryInv
<1> QED BY <1>1, TypeInit, TypeStep, RecoveryInit, RecoveryStep, PTL DEF Spec

\* Without the lock: a process that is about to publish a proof has found, or put, the text
\* it certifies at the path of the output, and nothing replaces an output.
SharedInv == Matched /\ ProofCertifiesOutput

\* Steps that publish nothing and bring no process to the publication of a proof.
LEMMA SharedFrame ==
  ASSUME SharedInv, UNCHANGED <<output, proof>>,
         \A w \in Workers : pc'[w] = "proving" => pc[w] = "proving" /\ cur'[w] = cur[w] /\ text'[w] = text[w]
  PROVE  SharedInv'
BY DEF SharedInv, Matched, ProofCertifiesOutput

LEMMA SharedStep ==
  ASSUME Truncates = {} PROVE TypeInv /\ SharedInv /\ [Next]_vars => SharedInv'
<1> SUFFICES ASSUME TypeInv, SharedInv, [Next]_vars PROVE SharedInv'
  OBVIOUS
<1>1. /\ pc \in [Workers -> Places] /\ cur \in [Workers -> Shards \cup {None}]
      /\ text \in [Workers -> Texts \cup {None}]
      /\ output \in [Shards -> Texts \cup {None}] /\ proof \in [Shards -> Texts \cup {None}]
      /\ \A w \in Workers : pc[w] \in {"publishing", "proving"} => cur[w] \in Shards /\ text[w] \in Texts
  BY DEF TypeInv, TypeOK, InShard, Yielded, InWork
<1>2. ASSUME NEW w \in Workers, PublishOutput(w) PROVE SharedInv'
  <2>1. CASE MayPublish(output[cur[w]], text[w])
    <3>1. /\ pc[w] = "publishing" /\ pc' = [pc EXCEPT ![w] = "proving"]
          /\ output' = [output EXCEPT ![cur[w]] = text[w]]
          /\ UNCHANGED <<proof, cur, text>>
      BY <1>2, <2>1 DEF PublishOutput, passVars, Goto
    <3>2. output[cur[w]] \in {None, text[w]}
      BY <2>1 DEF MayPublish
    <3>3. \A s \in Shards : output[s] # None => output'[s] = output[s]
      BY <1>1, <3>1, <3>2
    <3>4. Matched'
      BY <1>1, <3>1, <3>3, TextsAssumption DEF SharedInv, Matched
    <3>5. ProofCertifiesOutput'
      BY <1>1, <3>1, <3>3 DEF SharedInv, ProofCertifiesOutput
    <3> QED BY <3>4, <3>5 DEF SharedInv
  <2>2. CASE ~MayPublish(output[cur[w]], text[w])
    BY <1>1, <1>2, <2>2, SharedFrame DEF PublishOutput, Fail, Goto, passVars
  <2> QED BY <2>1, <2>2
<1>3. ASSUME NEW w \in Workers, PublishProof(w) PROVE SharedInv'
  <2>1. CASE proof[cur[w]] = None
    <3>1. /\ pc[w] = "proving" /\ pc' = [pc EXCEPT ![w] = "committing"]
          /\ proof' = [proof EXCEPT ![cur[w]] = text[w]]
          /\ UNCHANGED <<output, cur, text>>
      BY <1>3, <2>1 DEF PublishProof, passVars, Goto
    <3>2. Matched'
      BY <1>1, <3>1 DEF SharedInv, Matched
    <3>3. ProofCertifiesOutput'
      BY <1>1, <3>1 DEF SharedInv, Matched, ProofCertifiesOutput
    <3> QED BY <3>2, <3>3 DEF SharedInv
  <2>2. CASE proof[cur[w]] # None
    BY <1>1, <1>3, <2>2, SharedFrame DEF PublishProof, Fail, Goto, passVars
  <2> QED BY <2>1, <2>2
<1>4. ASSUME NEW w \in Workers, ~PublishOutput(w), ~PublishProof(w), WorkerStep(w) PROVE SharedInv'
  <2>1. CASE Resume(w) \/ Cancel(w) \/ Finalise(w)
    BY <2>1, <1>1, SharedFrame DEF Resume, Cancel, Finalise, Goto, diskVars, passVars
  <2>2. ASSUME NEW s \in Shards, Quarantine(w, s) PROVE SharedInv'
    BY <2>2, SharedFrame DEF Quarantine
  <2>3. ASSUME NEW s \in Shards, Lease(w, s) PROVE SharedInv'
    BY <2>3, <1>1, SharedFrame DEF Lease, Goto, diskVars
  <2>4. ASSUME NEW t \in Texts, Extract(w, t) PROVE SharedInv'
    BY <2>4, <1>1, SharedFrame DEF Extract, Goto, diskVars
  <2>5. CASE CommitCheckpoint(w) \/ NoteSuccess(w) \/ SaveLedger(w) \/ ClearCheckpoints(w)
    BY <2>5, <1>1, SharedFrame DEF CommitCheckpoint, NoteSuccess, SaveLedger, ClearCheckpoints, Goto,
                                   diskVars, passVars
  <2>6. CASE EndShard(w)
    BY <2>6, <1>1, SharedFrame DEF EndShard, Goto
  <2> QED BY <1>4, <2>1, <2>2, <2>3, <2>4, <2>5, <2>6 DEF WorkerStep
<1>5. ASSUME NEW w \in Workers, WorkerFault(w) PROVE SharedInv'
  BY <1>5, <1>1, SharedFrame DEF WorkerFault, Crash, ShardFault, PassFault, Forget, Fail, Goto, diskVars, passVars
<1>6. ASSUME NEW w \in Workers, NEW what \in {"resume", "cancel"}, Begin(w, what) PROVE SharedInv'
  BY <1>6, <1>1, SharedFrame DEF Begin, Goto, diskVars, passVars
<1>7. CASE StarterStep
  BY <1>7, SharedFrame DEF StarterStep, StartManifest, StartLedger, StartClear, CrashStarter, diskVars, passVars
<1>8. ASSUME NEW s \in Shards, BackoffElapses(s) PROVE SharedInv'
  BY <1>8, SharedFrame DEF BackoffElapses, passVars
<1>9. CASE UNCHANGED vars
  BY <1>9, SharedFrame DEF vars, diskVars, passVars
<1> QED
  BY <1>2, <1>3, <1>4, <1>5, <1>6, <1>7, <1>8, <1>9 DEF Next

\* Two processes that the lock did not keep apart cannot publish the output of one and the
\* proof of the other, whatever each extracted, since writeShardArtifactNoClobber replaces
\* nothing but a truncated remnant, and where no text is one of another.
THEOREM ProofsCertifyWithoutLock ==
  ASSUME Truncates = {} PROVE Spec => []ProofCertifiesOutput
<1>1. Init => SharedInv
  BY DEF Init, SharedInv, Matched, ProofCertifiesOutput
<1>2. SharedInv => ProofCertifiesOutput
  BY DEF SharedInv
<1> QED BY <1>1, <1>2, TypeInit, TypeStep, SharedStep, PTL DEF Spec

\* Only Lease processes a shard, and it takes none whose proof is published: a finished
\* shard is never processed again, whatever crashes and failing calls interrupt.
THEOREM RecoveryNeverRedoes == ASSUME Exclusive PROVE Spec => CommittedNeverRedone
<1>1. ASSUME TypeInv, RecoveryInv, Next, NEW s \in Shards, proof[s] # None
      PROVE  runs'[s] = runs[s]
  <2>1. ASSUME NEW w \in Workers, NEW r \in Shards, Lease(w, r) PROVE runs'[s] = runs[s]
    <3>1. pc[w] = "passing" /\ r \in left[w] /\ Workable(mem[w][r]) /\ runs' = [runs EXCEPT ![r] = @ + 1]
      BY <2>1 DEF Lease, NextShard
    <3>2. proof[r] = None
      BY <1>1, <3>1 DEF RecoveryInv, Passed, Workable
    <3> QED BY <1>1, <3>1, <3>2 DEF TypeInv, TypeOK
  <2>2. CASE StarterStep
    BY <2>2 DEF StarterStep, StartManifest, StartLedger, StartClear, CrashStarter
  <2>3. ASSUME NEW w \in Workers,
               \/ Begin(w, "resume") \/ Begin(w, "cancel") \/ Resume(w) \/ Cancel(w)
               \/ \E r \in Shards : Quarantine(w, r)
               \/ \E t \in Texts : Extract(w, t)
               \/ PublishOutput(w) \/ PublishProof(w) \/ CommitCheckpoint(w) \/ NoteSuccess(w)
               \/ EndShard(w) \/ Finalise(w) \/ SaveLedger(w) \/ ClearCheckpoints(w)
               \/ WorkerFault(w)
        PROVE  runs' = runs
    BY <2>3 DEF Begin, Resume, Cancel, Quarantine, Extract, PublishOutput, PublishProof,
                CommitCheckpoint, NoteSuccess, EndShard, Finalise, SaveLedger, ClearCheckpoints,
                WorkerFault, Crash, ShardFault, PassFault
  <2>4. ASSUME NEW r \in Shards, BackoffElapses(r) PROVE runs' = runs
    BY <2>4 DEF BackoffElapses
  <2> QED BY <1>1, <2>1, <2>2, <2>3, <2>4 DEF Next, WorkerStep
<1>2. TypeInv /\ RecoveryInv /\ [Next]_vars =>
        [\A s \in Shards : proof[s] # None => runs'[s] = runs[s]]_vars
  BY <1>1
<1> QED BY <1>2, TypeInit, TypeStep, RecoveryInit, RecoveryStep, PTL DEF Spec, CommittedNeverRedone

-----------------------------------------------------------------------------
(* What the ledger says, when the lock excludes *)

\* Out of retries, or set aside: what makes a job failed.
Stuck(row) == Exhausted(row) \/ row.status = "quarantined"

MostAttempts == IF MaxRetries = 0 THEN 1 ELSE MaxRetries
InPass       == InWork \cup {"passing", "saving"}
AtWork(w, s) == pc[w] \in InWork /\ cur[w] = s

\* Nobody works on a job that has no ledger, and corpusStart writes none but the first.
BeforeStart ==
  /\ starter = "manifest" => job = None
  /\ job = None => (\A w \in Workers : pc[w] = "idle") /\ (\A s \in Shards : runs[s] = 0)

\* What a process has read is what ledger.json holds, and a pass over a job that is
\* cancelled only ever writes that it is.
ReadFromDisk ==
  \A w \in Workers :
    /\ pc[w] = "reading" => mem[w] = rows /\ memJob[w] = job
    /\ pc[w] \in InWork \cup {"passing"} => job # "cancelled" /\ memJob[w] # "cancelled"
    /\ pc[w] = "saving" /\ job = "cancelled" => memJob[w] = "cancelled"

ControlInv == BeforeStart /\ ReadFromDisk

\* A shard's row: one that is under way was never tried, one that succeeded has its
\* proof, one that was set aside has none.
Sound(s, row) ==
  /\ row.attempts <= MostAttempts
  /\ row.status \in Open => row.attempts = 0
  /\ row.status = "succeeded" => proof[s] # None
  /\ row.status = "quarantined" => proof[s] = None

SoundOnDisk ==
  \A s \in Shards : /\ Sound(s, rows[s])
                    /\ checkpoint[s] # None => Sound(s, checkpoint[s]) /\ checkpoint[s].status # "cancelled"

\* The shard in work is marked succeeded before its proof is published.
SoundInMemory(w) ==
  \A s \in Shards :
    IF AtWork(w, s)
    THEN /\ mem[w][s].attempts <= MostAttempts
         /\ mem[w][s].status \notin {"quarantined", "cancelled"}
         /\ mem[w][s].status = "succeeded" => pc[w] = "proving" \/ proof[s] # None
    ELSE Sound(s, mem[w][s])

\* The shard in work was out of retries nowhere.
WorkInMemory(w) ==
  pc[w] \in InWork => /\ ~Stuck(rows[cur[w]])
                      /\ checkpoint[cur[w]] # None => ~Stuck(checkpoint[cur[w]])
                      /\ pc[w] \in {"proving", "committing", "noting"} => mem[w][cur[w]].status = "succeeded"

\* A later copy of a row forgets nothing the shard went through ...
Keeps(later, row) ==
  /\ later.attempts >= row.attempts
  /\ Stuck(row) => Stuck(later)

\* ... except that a pass recovers a shard whose proof it finds.
KeepsOrRecovers(later, row) ==
  /\ later.attempts >= row.attempts
  /\ Stuck(row) => Stuck(later) \/ later.status = "succeeded"

CopiesOnDisk == \A s \in Shards : checkpoint[s] # None => Keeps(checkpoint[s], rows[s])

CopiesInMemory(w) ==
  \A s \in Shards :
    /\ mem[w][s].attempts >= rows[s].attempts
    /\ ~AtWork(w, s) => /\ KeepsOrRecovers(mem[w][s], rows[s])
                        /\ checkpoint[s] # None => /\ Keeps(checkpoint[s], mem[w][s])
                                                   /\ KeepsOrRecovers(mem[w][s], checkpoint[s])

\* What a ledger says of the job is true of its rows.
Verdict(status, ledger) ==
  /\ status = "completed" => \A s \in Shards : ledger[s].status = "succeeded"
  /\ status = "failed" => \E s \in Shards : Stuck(ledger[s])
  /\ status = "cancelled" => \A s \in Shards : ledger[s].status \notin Open
  /\ status # "cancelled" => \A s \in Shards : ledger[s].status # "cancelled"

VerdictInMemory(w) ==
  IF pc[w] = "saving" THEN Verdict(memJob[w], mem[w])
                      ELSE \A s \in Shards : mem[w][s].status # "cancelled"

\* Every time a shard was processed is an attempt in its row, or was lost to a crash or
\* an error; a pass that has not saved may have one attempt more than the ledger.
CountedOnDisk ==
  (\A w \in Workers : pc[w] \notin InPass) =>
    \A s \in Shards : runs[s] <= rows[s].attempts + crashes + faults

CountedInMemory(w) ==
  \A s \in Shards :
    /\ runs[s] <= mem[w][s].attempts + crashes + faults
    /\ runs[s] <= rows[s].attempts + crashes + faults + (IF s \in left[w] THEN 0 ELSE 1)

OnDisk      == SoundOnDisk /\ CopiesOnDisk /\ Verdict(job, rows)
InMemory(w) == /\ SoundInMemory(w) /\ WorkInMemory(w) /\ CopiesInMemory(w)
               /\ VerdictInMemory(w) /\ CountedInMemory(w)

RowsInv   == OnDisk /\ CountedOnDisk /\ \A w \in Workers : pc[w] \in InPass => InMemory(w)
LedgerInv == TypeInv /\ RecoveryInv /\ ControlInv /\ RowsInv

\* What the code does to a row, read by status and attempts.
LEMMA RowHistory ==
  \A row \in Row :
    /\ Leased(row).status = "running" /\ Leased(row).attempts = row.attempts + 1
    /\ Succeeded(row).status = "succeeded" /\ Succeeded(row).attempts = row.attempts
    /\ Quarantined(row).status = "quarantined" /\ Quarantined(row).attempts = row.attempts
    /\ Failed(row).status = "failed" /\ Failed(row).attempts = row.attempts
    /\ Cancelled(row).status = (IF row.status \in Open THEN "cancelled" ELSE row.status)
    /\ Cancelled(row).attempts = row.attempts
    /\ Due(row).status = row.status /\ Due(row).attempts = row.attempts /\ Due(row) # None
<1> SUFFICES ASSUME NEW row \in Row
             PROVE  /\ Leased(row).status = "running" /\ Leased(row).attempts = row.attempts + 1
                    /\ Succeeded(row).status = "succeeded" /\ Succeeded(row).attempts = row.attempts
                    /\ Quarantined(row).status = "quarantined" /\ Quarantined(row).attempts = row.attempts
                    /\ Failed(row).status = "failed" /\ Failed(row).attempts = row.attempts
                    /\ Cancelled(row).status = (IF row.status \in Open THEN "cancelled" ELSE row.status)
                    /\ Cancelled(row).attempts = row.attempts
                    /\ Due(row).status = row.status /\ Due(row).attempts = row.attempts /\ Due(row) # None
  OBVIOUS
<1>1. Due(row) \in Row
  BY RowsStayRows
<1>2. row # None /\ Due(row) # None
  BY <1>1, NoneAssumption
<1> QED BY <1>2 DEF Row, Leased, Succeeded, Quarantined, Failed, Cancelled, Due

LEMMA LedgerInit == Init => LedgerInv
<1> SUFFICES ASSUME Init PROVE LedgerInv
  OBVIOUS
<1> USE DEF Init, InWork, InPass
<1>1. TypeInv /\ RecoveryInv
  BY TypeInit, RecoveryInit
<1>2. ControlInv
  BY DEF ControlInv, BeforeStart, ReadFromDisk
<1>3. 0 <= MostAttempts /\ 0 + crashes + faults = 0
  BY LimitsAssumption DEF MostAttempts
<1>4. SoundOnDisk /\ CopiesOnDisk
  BY <1>3 DEF SoundOnDisk, CopiesOnDisk, Sound, NewRow, Open
<1>5. Verdict(job, rows)
  BY NoneAssumption DEF Verdict, NewRow, JobStatuses
<1>6. CountedOnDisk
  BY <1>3 DEF CountedOnDisk, NewRow
<1> QED BY <1>1, <1>2, <1>4, <1>5, <1>6 DEF LedgerInv, RowsInv, OnDisk

\* While a process is in a pass every other process is idle, and stays so.
LEMMA OthersIdle ==
  ASSUME TypeInv, RecoveryInv, NEW w \in Workers, WorkerStep(w) \/ WorkerFault(w)
  PROVE  pc[w] # "idle" /\ \A v \in Workers \ {w} : pc[v] = "idle" /\ pc'[v] = "idle"
<1>1. pc[w] # "idle"
  BY DEF WorkerStep, WorkerFault, Resume, Cancel, Quarantine, Lease, NextShard, Extract, PublishOutput,
         PublishProof, CommitCheckpoint, NoteSuccess, EndShard, Finalise, SaveLedger,
         ClearCheckpoints, Crash, ShardFault, PassFault
<1>2. \A v \in Workers \ {w} : pc'[v] = pc[v]
  BY DEF WorkerStep, WorkerFault, Resume, Cancel, Quarantine, Lease, Extract, PublishOutput,
         PublishProof, CommitCheckpoint, NoteSuccess, EndShard, Finalise, SaveLedger, ClearCheckpoints,
         Crash, ShardFault, PassFault, Fail, Forget, Goto, TypeInv, TypeOK
<1> QED BY <1>1, <1>2 DEF RecoveryInv, Solo

LEMMA ControlStep ==
  ASSUME Exclusive PROVE LedgerInv /\ [Next]_vars => ControlInv'
<1> SUFFICES ASSUME LedgerInv, [Next]_vars PROVE ControlInv'
  OBVIOUS
<1>0. TypeInv /\ RecoveryInv /\ ControlInv /\ TypeOK
  BY DEF LedgerInv, TypeInv
<1> USE <1>0 DEF ControlInv, BeforeStart, ReadFromDisk, InWork, Goto
<1>1. CASE UNCHANGED vars
  BY <1>1 DEF vars, diskVars, memVars, passVars, boundVars
<1>2. CASE StarterStep
  BY <1>2, NoneAssumption
     DEF StarterStep, StartManifest, StartLedger, StartClear, CrashStarter, JobStatuses,
         diskVars, memVars, passVars, boundVars
<1>3. ASSUME NEW w \in Workers, NEW what \in {"resume", "cancel"}, Begin(w, what) PROVE ControlInv'
  BY <1>3 DEF Begin, diskVars, passVars, boundVars, TypeOK
<1>4. ASSUME NEW w \in Workers, WorkerStep(w) \/ WorkerFault(w) PROVE ControlInv'
  <2>1. pc[w] # "idle" /\ \A v \in Workers \ {w} : pc[v] = "idle" /\ pc'[v] = "idle"
    BY <1>4, OthersIdle
  <2>2. job # None
    BY <2>1
  <2>3. CASE Resume(w)
    BY <2>1, <2>2, <2>3 DEF Resume, diskVars, boundVars, TypeOK
  <2>4. CASE Cancel(w)
    BY <2>1, <2>2, <2>4 DEF Cancel, diskVars, TypeOK
  <2>5. CASE \E s \in Shards : Quarantine(w, s) \/ Lease(w, s)
    BY <2>1, <2>2, <2>5 DEF Quarantine, Lease, NextShard, diskVars, TypeOK
  <2>6. CASE \/ \E t \in Texts : Extract(w, t)
             \/ PublishOutput(w) \/ PublishProof(w) \/ CommitCheckpoint(w) \/ NoteSuccess(w) \/ EndShard(w)
             \/ ShardFault(w)
    <3>1. /\ pc[w] \in InWork /\ pc'[w] \in InWork \cup {"passing"}
          /\ UNCHANGED <<starter, job, memJob>>
      BY <2>6 DEF Extract, PublishOutput, PublishProof, CommitCheckpoint, NoteSuccess, EndShard, ShardFault,
                  Fail, diskVars, memVars, TypeOK
    <3> QED BY <2>1, <2>2, <3>1
  <2>7. CASE Finalise(w)
    BY <2>1, <2>2, <2>7 DEF Finalise, diskVars, TypeOK
  <2>8. CASE SaveLedger(w)
    BY <2>1, <2>2, <2>8, NoneAssumption DEF SaveLedger, memVars, TypeOK
  <2>9. CASE ClearCheckpoints(w) \/ Crash(w) \/ PassFault(w)
    <3>1. pc'[w] = "idle" /\ UNCHANGED <<starter, job>>
      BY <2>9 DEF ClearCheckpoints, Crash, PassFault, Forget, diskVars, TypeOK
    <3> QED BY <2>1, <2>2, <3>1
  <2> QED BY <1>4, <2>3, <2>4, <2>5, <2>6, <2>7, <2>8, <2>9 DEF WorkerStep, WorkerFault
<1>5. ASSUME NEW s \in Shards, BackoffElapses(s) PROVE ControlInv'
  <2>1. \A w \in Workers : mem[w] = rows => mem'[w] = rows'
    BY <1>5 DEF BackoffElapses, TypeOK
  <2> QED BY <1>5, <2>1 DEF BackoffElapses, passVars, boundVars
<1> QED BY <1>1, <1>2, <1>3, <1>4, <1>5 DEF Next

LEMMA RowsStep ==
  ASSUME Exclusive PROVE LedgerInv /\ [Next]_vars => RowsInv'
<1> SUFFICES ASSUME LedgerInv, [Next]_vars PROVE RowsInv'
  OBVIOUS
<1>0. /\ TypeInv /\ RecoveryInv /\ TypeOK /\ ControlInv /\ ReadFromDisk
      /\ SoundOnDisk /\ CopiesOnDisk /\ Verdict(job, rows) /\ CountedOnDisk
      /\ \A w \in Workers : pc[w] \in InPass =>
           /\ SoundInMemory(w) /\ WorkInMemory(w) /\ CopiesInMemory(w)
           /\ VerdictInMemory(w) /\ CountedInMemory(w)
  BY DEF LedgerInv, RowsInv, TypeInv, ControlInv, OnDisk, InMemory
<1>1. /\ \A s \in Shards : rows[s] \in Row /\ checkpoint[s] \in Row \cup {None}
      /\ \A w \in Workers : \A s \in Shards : mem[w][s] \in Row
      /\ crashes \in Nat /\ faults \in Nat /\ \A s \in Shards : runs[s] \in Nat
  BY <1>0, SettingAssumption DEF TypeOK
<1>2. \A s \in Shards : /\ rows[s].attempts \in Nat /\ (checkpoint[s] # None => checkpoint[s].attempts \in Nat)
                        /\ \A w \in Workers : mem[w][s].attempts \in Nat
  BY <1>1 DEF Row
<1> USE DEF InPass, InWork
<1>3. CASE UNCHANGED vars
  <2> USE <1>3 DEF vars, diskVars, memVars, passVars, boundVars
  <2>1. OnDisk'
    BY <1>0 DEF OnDisk, SoundOnDisk, CopiesOnDisk, Sound, Keeps, Stuck, Exhausted, Verdict
  <2>2. CountedOnDisk'
    BY <1>0 DEF CountedOnDisk
  <2>3. \A w \in Workers : pc'[w] \in InPass => InMemory(w)'
    BY <1>0 DEF InMemory, SoundInMemory, WorkInMemory, CopiesInMemory, VerdictInMemory, CountedInMemory, AtWork,
                Sound, Keeps, KeepsOrRecovers, Stuck, Exhausted, Verdict
  <2> QED BY <2>1, <2>2, <2>3 DEF RowsInv
<1>4. CASE StarterStep
  <2>1. /\ UNCHANGED <<pc, mem, memJob, cur, left, proof, runs, faults>>
        /\ crashes' \in Nat /\ crashes' >= crashes
    BY <1>1, <1>4 DEF StarterStep, StartManifest, StartLedger, StartClear, CrashStarter, diskVars, memVars,
                      passVars, boundVars
  <2>2. CASE StartLedger
    <3>1. /\ \A w \in Workers : pc[w] = "idle"
          /\ \A s \in Shards : runs[s] = 0 /\ rows'[s] = NewRow
          /\ job' = "running" /\ UNCHANGED checkpoint
      BY <1>0, <2>2 DEF StartLedger, ControlInv, BeforeStart
    <3>2. NewRow.attempts = 0 /\ NewRow.status = "pending" /\ 0 <= MostAttempts
      BY LimitsAssumption DEF NewRow, MostAttempts
    <3>3. SoundOnDisk' /\ CopiesOnDisk' /\ Verdict(job, rows)'
      BY <1>0, <1>2, <2>1, <3>1, <3>2 DEF SoundOnDisk, CopiesOnDisk, Sound, Keeps, Stuck, Exhausted, Verdict, Open
    <3>4. CountedOnDisk'
      BY <1>1, <2>1, <3>1, <3>2 DEF CountedOnDisk
    <3> QED BY <2>1, <3>1, <3>3, <3>4 DEF RowsInv, OnDisk
  <2>3. CASE StartManifest \/ StartClear \/ CrashStarter
    <3>1. UNCHANGED <<rows, job>> /\ \A s \in Shards : checkpoint'[s] \in {checkpoint[s], None}
      BY <1>0, <2>3 DEF StartManifest, StartClear, CrashStarter, NoCheckpoints, diskVars, TypeOK
    <3>2. OnDisk'
      BY <1>0, <2>1, <3>1 DEF OnDisk, SoundOnDisk, CopiesOnDisk, Sound, Keeps, Stuck, Exhausted, Verdict
    <3>3. CountedOnDisk'
      BY <1>0, <1>1, <1>2, <2>1, <3>1 DEF CountedOnDisk
    <3>4. ASSUME NEW w \in Workers, pc'[w] \in InPass PROVE InMemory(w)'
      <4>1. SoundInMemory(w)' /\ VerdictInMemory(w)'
        BY <1>0, <2>1, <3>1, <3>4 DEF SoundInMemory, VerdictInMemory, AtWork, Sound, Stuck, Exhausted, Verdict
      <4>2. pc[w] \in InWork => cur[w] \in Shards
        BY <1>0 DEF TypeInv, InShard
      <4>3. WorkInMemory(w)'
        BY <1>0, <2>1, <3>1, <3>4, <4>2 DEF WorkInMemory, Stuck, Exhausted
      <4>4. CopiesInMemory(w)'
        BY <1>0, <2>1, <3>1, <3>4 DEF CopiesInMemory, AtWork, Keeps, KeepsOrRecovers, Stuck, Exhausted
      <4>5. CountedInMemory(w)'
        BY <1>0, <1>1, <1>2, <2>1, <3>1, <3>4 DEF CountedInMemory
      <4> QED BY <4>1, <4>3, <4>4, <4>5 DEF InMemory
    <3> QED BY <3>2, <3>3, <3>4 DEF RowsInv
  <2> QED BY <1>4, <2>2, <2>3 DEF StarterStep
<1>5. ASSUME NEW w \in Workers, NEW what \in {"resume", "cancel"}, Begin(w, what) PROVE RowsInv'
  <2>1. /\ pc[w] = "idle" /\ pc'[w] = "reading"
        /\ UNCHANGED <<rows, checkpoint, proof, job, runs, crashes, faults>>
        /\ \A v \in Workers : pc[v] = "idle" /\ (v # w => pc'[v] = "idle")
    BY <1>0, <1>5 DEF Begin, diskVars, boundVars, Goto, TypeOK
  <2>2. OnDisk'
    BY <1>0, <2>1 DEF OnDisk, SoundOnDisk, CopiesOnDisk, Sound, Keeps, Stuck, Exhausted, Verdict
  <2>3. CountedOnDisk'
    BY <1>0, <2>1 DEF CountedOnDisk
  <2> QED BY <2>1, <2>2, <2>3 DEF RowsInv
<1>6. ASSUME NEW w \in Workers, WorkerStep(w) \/ WorkerFault(w) PROVE RowsInv'
  <2>1. pc[w] # "idle" /\ \A v \in Workers \ {w} : pc[v] = "idle" /\ pc'[v] = "idle"
    BY <1>0, <1>6, OthersIdle
  <2>2. ASSUME OnDisk', CountedOnDisk', pc'[w] \in InPass => InMemory(w)' PROVE RowsInv'
    BY <2>1, <2>2 DEF RowsInv
  <2>3. ASSUME UNCHANGED <<rows, checkpoint, proof, job>> PROVE OnDisk'
    BY <1>0, <2>3 DEF OnDisk, SoundOnDisk, CopiesOnDisk, Sound, Keeps, Stuck, Exhausted, Verdict
  <2>4. ASSUME pc'[w] \in InPass PROVE CountedOnDisk'
    BY <2>4 DEF CountedOnDisk
  <2>5. pc[w] \notin InPass => \A s \in Shards : runs[s] <= rows[s].attempts + crashes + faults
    BY <1>0, <2>1 DEF CountedOnDisk
  <2>6. pc[w] = "reading" =>
          \A s \in Shards : LET old == Overlay(mem[w])[s] IN
            /\ old = IF checkpoint[s] = None THEN rows[s] ELSE checkpoint[s]
            /\ old \in Row /\ old.attempts \in Nat /\ Sound(s, old) /\ Keeps(old, rows[s])
    BY <1>0, <1>1, <1>2 DEF Overlay, ReadFromDisk, SoundOnDisk, CopiesOnDisk, Keeps
  <2>7. CASE Resume(w)
    <3>1. UNCHANGED <<rows, checkpoint, proof, job, runs, crashes, faults>> /\ pc[w] = "reading"
      BY <2>7 DEF Resume, diskVars, boundVars
    <3>2. CASE memJob[w] = "cancelled"
      <4>1. pc'[w] = "idle"
        BY <1>0, <2>7, <3>2 DEF Resume, Goto, TypeOK
      <4>2. CountedOnDisk'
        BY <2>5, <3>1 DEF CountedOnDisk
      <4> QED BY <2>2, <2>3, <3>1, <4>1, <4>2
    <3>3. CASE memJob[w] # "cancelled"
      <4>1. /\ pc'[w] = "passing" /\ left'[w] = Shards
            /\ \A s \in Shards : \/ mem'[w][s] = Overlay(mem[w])[s]
                                 \/ mem'[w][s] = Succeeded(Overlay(mem[w])[s]) /\ proof[s] # None
        BY <1>0, <2>7, <3>3 DEF Resume, Recovered, Goto, TypeOK
      <4>2. \A s \in Shards :
              /\ mem'[w][s].attempts = Overlay(mem[w])[s].attempts
              /\ \/ mem'[w][s].status = Overlay(mem[w])[s].status
                 \/ mem'[w][s].status = "succeeded" /\ proof[s] # None
        <5>1. \A s \in Shards : LET old == Overlay(mem[w])[s] IN
                Succeeded(old).status = "succeeded" /\ Succeeded(old).attempts = old.attempts
          BY <2>6, <3>1, RowHistory
        <5> QED BY <4>1, <5>1
      <4>3. SoundInMemory(w)'
        BY <2>6, <3>1, <4>1, <4>2 DEF SoundInMemory, AtWork, Sound, Open
      <4>4. CopiesInMemory(w)'
        BY <1>2, <2>6, <3>1, <4>1, <4>2 DEF CopiesInMemory, AtWork, Keeps, KeepsOrRecovers, Stuck, Exhausted
      <4>5. \A s \in Shards : Overlay(mem[w])[s].status # "cancelled"
        BY <1>0, <2>6, <3>1, <3>3 DEF SoundOnDisk, Verdict, ReadFromDisk
      <4>6. VerdictInMemory(w)' /\ WorkInMemory(w)'
        BY <4>1, <4>2, <4>5 DEF VerdictInMemory, WorkInMemory
      <4>7. CountedInMemory(w)'
        BY <1>1, <1>2, <2>5, <2>6, <3>1, <4>1, <4>2 DEF CountedInMemory, Keeps
      <4> QED BY <2>2, <2>3, <2>4, <3>1, <4>1, <4>3, <4>4, <4>6, <4>7 DEF InMemory
    <3> QED BY <3>2, <3>3
  <2>8. CASE Cancel(w)
    <3>1. /\ UNCHANGED <<rows, checkpoint, proof, job, runs, left, crashes, faults>>
          /\ pc[w] = "reading" /\ pc'[w] = "saving" /\ memJob'[w] = "cancelled"
          /\ \A s \in Shards : mem'[w][s] = Cancelled(Overlay(mem[w])[s])
      BY <1>0, <2>8 DEF Cancel, diskVars, passVars, boundVars, Goto, TypeOK
    <3>2. \A s \in Shards : LET old == Overlay(mem[w])[s] IN
            /\ mem'[w][s].attempts = old.attempts
            /\ mem'[w][s].status = IF old.status \in Open THEN "cancelled" ELSE old.status
      BY <2>6, <3>1, RowHistory
    <3>3. SoundInMemory(w)'
      BY <2>6, <3>1, <3>2 DEF SoundInMemory, AtWork, Sound, Open
    <3>4. CopiesInMemory(w)'
      BY <1>2, <2>6, <3>1, <3>2 DEF CopiesInMemory, AtWork, Keeps, KeepsOrRecovers, Stuck, Exhausted, Open
    <3>5. VerdictInMemory(w)' /\ WorkInMemory(w)'
      BY <3>1, <3>2 DEF VerdictInMemory, WorkInMemory, Verdict, Open
    <3>6. CountedInMemory(w)'
      BY <1>1, <1>2, <2>5, <2>6, <3>1, <3>2 DEF CountedInMemory, Keeps
    <3> QED BY <2>2, <2>3, <2>4, <3>1, <3>3, <3>4, <3>5, <3>6 DEF InMemory
  <2>9. ASSUME NEW s \in Shards, Quarantine(w, s) PROVE RowsInv'
    <3>1. /\ pc[w] = "passing" /\ pc'[w] = "passing" /\ UNCHANGED <<rows, proof, job, runs, crashes, faults>>
          /\ mem'[w][s] = Quarantined(mem[w][s]) /\ checkpoint'[s] = Quarantined(mem[w][s])
          /\ \A r \in Shards \ {s} : mem'[w][r] = mem[w][r] /\ checkpoint'[r] = checkpoint[r]
          /\ left'[w] \subseteq left[w]
      BY <1>0, <2>9 DEF Quarantine, NextShard, boundVars, TypeOK
    <3>2. proof[s] = None
      BY <1>0, <2>9 DEF Quarantine, NextShard, Exhausted, RecoveryInv, Passed
    <3>3. Quarantined(mem[w][s]).status = "quarantined" /\ Quarantined(mem[w][s]).attempts = mem[w][s].attempts
      BY <1>1, RowHistory
    <3>4. SoundOnDisk' /\ SoundInMemory(w)'
      BY <1>0, <3>1, <3>2, <3>3 DEF SoundOnDisk, SoundInMemory, AtWork, Sound, Open
    <3>5. CopiesOnDisk' /\ CopiesInMemory(w)'
      BY <1>0, <1>2, <3>1, <3>3 DEF CopiesOnDisk, CopiesInMemory, AtWork, Keeps, KeepsOrRecovers, Stuck, Exhausted
    <3>6. Verdict(job, rows)' /\ VerdictInMemory(w)' /\ WorkInMemory(w)'
      BY <1>0, <3>1, <3>3 DEF Verdict, VerdictInMemory, WorkInMemory, Stuck, Exhausted
    <3>7. CountedInMemory(w)'
      BY <1>0, <1>1, <1>2, <3>1, <3>3 DEF CountedInMemory
    <3> QED BY <2>2, <2>4, <3>1, <3>4, <3>5, <3>6, <3>7 DEF OnDisk, InMemory
  <2>10. ASSUME NEW s \in Shards, Lease(w, s) PROVE RowsInv'
    <3>1. /\ pc[w] = "passing" /\ pc'[w] = "working"
          /\ UNCHANGED <<rows, proof, checkpoint, job, crashes, faults>>
          /\ mem'[w][s] = Leased(mem[w][s])
          /\ \A r \in Shards \ {s} : mem'[w][r] = mem[w][r] /\ runs'[r] = runs[r]
          /\ runs'[s] = runs[s] + 1 /\ cur'[w] = s
          /\ left'[w] = {r \in left[w] : r > s} /\ s \in left[w]
          /\ mem[w][s].status \in Open \cup {"failed"} /\ ~Exhausted(mem[w][s])
      BY <1>0, <2>10 DEF Lease, NextShard, Workable, diskVars, boundVars, Goto, TypeOK
    <3>2. Sound(s, mem[w][s]) /\ ~Stuck(mem[w][s]) /\ mem[w][s].status # "succeeded"
      BY <1>0, <3>1 DEF SoundInMemory, AtWork, Stuck, Open
    <3>3. mem[w][s].attempts + 1 <= MostAttempts
      BY <1>2, <3>1, <3>2, LimitsAssumption DEF Exhausted, MostAttempts, Sound
    <3>4. Leased(mem[w][s]).status = "running" /\ Leased(mem[w][s]).attempts = mem[w][s].attempts + 1
      BY <1>1, RowHistory
    <3>5. SoundInMemory(w)'
      BY <1>0, <3>1, <3>3, <3>4 DEF SoundInMemory, AtWork, Sound
    <3>6. WorkInMemory(w)'
      BY <1>0, <3>1, <3>2 DEF WorkInMemory, CopiesInMemory, AtWork, Keeps, KeepsOrRecovers, Stuck, Exhausted
    <3>7. CopiesInMemory(w)'
      BY <1>0, <1>2, <3>1, <3>4 DEF CopiesInMemory, AtWork, Keeps, KeepsOrRecovers, Stuck, Exhausted
    <3>8. VerdictInMemory(w)'
      BY <1>0, <3>1, <3>4 DEF VerdictInMemory
    <3>9. CountedInMemory(w)'
      <4>1. s \notin left'[w] /\ \A r \in Shards \ {s} : r \in left'[w] => r \in left[w]
        BY <3>1, ShardsAssumption
      <4> QED BY <1>0, <1>1, <1>2, <3>1, <3>4, <4>1 DEF CountedInMemory
    <3> QED BY <2>2, <2>3, <2>4, <3>1, <3>5, <3>6, <3>7, <3>8, <3>9 DEF InMemory
  <2>11. CASE \/ \E t \in Texts : Extract(w, t)
              \/ CommitCheckpoint(w) \/ NoteSuccess(w) \/ EndShard(w)
    <3>1. /\ pc[w] \in InWork \ {"proving"}
          /\ UNCHANGED <<rows, proof, mem, job, runs, left, crashes, faults>>
          /\ cur[w] \in Shards
          /\ \/ pc'[w] \in InWork \ {"proving"} /\ cur'[w] = cur[w]
             \/ pc'[w] = "passing" /\ pc[w] = "ending" /\ checkpoint'[cur[w]] = mem[w][cur[w]]
          /\ pc'[w] \in {"committing", "noting"} => pc[w] = "committing"
          /\ pc[w] = "ending" => pc'[w] = "passing"
          /\ \A s \in Shards : \/ checkpoint'[s] = checkpoint[s]
                               \/ s = cur[w] /\ pc[w] \in {"committing", "ending"} /\ checkpoint'[s] = mem[w][s]
      <4>0. pc \in [Workers -> Places] /\ checkpoint \in [Shards -> Row \cup {None}]
            /\ (pc[w] \in InWork => cur[w] \in Shards)
        BY <1>0 DEF TypeOK, TypeInv, InShard
      <4> USE <4>0 DEF Goto
      <4>1. CASE (\E t \in Texts : Extract(w, t)) \/ NoteSuccess(w)
        BY <4>1 DEF Extract, NoteSuccess, diskVars, memVars, passVars, boundVars
      <4>2. CASE CommitCheckpoint(w)
        BY <4>2 DEF CommitCheckpoint, WriteCheckpoint, memVars, passVars, boundVars
      <4>3. CASE EndShard(w)
        BY <4>3 DEF EndShard, WriteCheckpoint, memVars, boundVars
      <4> QED BY <2>11, <4>1, <4>2, <4>3
    <3>2. pc[w] \in {"committing", "ending"} => Sound(cur[w], mem[w][cur[w]]) /\ mem[w][cur[w]].status # "cancelled"
      BY <1>0, <3>1 DEF TypeInv, Closed, SoundInMemory, AtWork, Sound
    <3>3. SoundOnDisk'
      BY <1>0, <3>1, <3>2 DEF SoundOnDisk, Sound
    <3>4. SoundInMemory(w)'
      BY <1>0, <3>1, <3>2 DEF SoundInMemory, AtWork, Sound
    <3>5. CopiesOnDisk'
      BY <1>0, <1>2, <3>1 DEF CopiesOnDisk, CopiesInMemory, WorkInMemory, Keeps, Stuck, Exhausted
    <3>6. WorkInMemory(w)'
      BY <1>0, <3>1 DEF WorkInMemory, Stuck, Exhausted
    <3>7. CopiesInMemory(w)'
      BY <1>0, <1>2, <3>1 DEF CopiesInMemory, WorkInMemory, AtWork, Keeps, KeepsOrRecovers, Stuck, Exhausted
    <3>8. Verdict(job, rows)' /\ VerdictInMemory(w)'
      BY <1>0, <3>1 DEF Verdict, VerdictInMemory, Stuck, Exhausted
    <3>9. CountedInMemory(w)'
      BY <1>0, <3>1 DEF CountedInMemory
    <3> QED BY <2>2, <2>4, <3>1, <3>3, <3>4, <3>5, <3>6, <3>7, <3>8, <3>9 DEF OnDisk, InMemory
  <2>12. CASE PublishProof(w) /\ proof[cur[w]] = None
    <3>1. /\ pc[w] = "proving" /\ pc'[w] = "committing"
          /\ UNCHANGED <<rows, checkpoint, mem, cur, job, runs, left, crashes, faults>>
          /\ cur[w] \in Shards /\ proof'[cur[w]] # None
          /\ \A s \in Shards \ {cur[w]} : proof'[s] = proof[s]
      BY <1>0, <2>12, TextsAssumption
         DEF PublishProof, TypeInv, InShard, Yielded, passVars, boundVars, Goto, TypeOK
    <3>2. /\ rows[cur[w]].status # "quarantined"
          /\ checkpoint[cur[w]] # None => checkpoint[cur[w]].status # "quarantined"
      BY <1>0, <3>1 DEF WorkInMemory, Stuck
    <3>3. SoundOnDisk'
      BY <1>0, <3>1, <3>2 DEF SoundOnDisk, Sound
    <3>4. SoundInMemory(w)'
      BY <1>0, <3>1 DEF SoundInMemory, AtWork, Sound
    <3>5. CopiesOnDisk' /\ CopiesInMemory(w)'
      BY <1>0, <3>1 DEF CopiesOnDisk, CopiesInMemory, AtWork, Keeps, KeepsOrRecovers, Stuck, Exhausted
    <3>6. Verdict(job, rows)' /\ VerdictInMemory(w)' /\ WorkInMemory(w)'
      BY <1>0, <3>1 DEF Verdict, VerdictInMemory, WorkInMemory, Stuck, Exhausted
    <3>7. CountedInMemory(w)'
      BY <1>0, <3>1 DEF CountedInMemory
    <3> QED BY <2>2, <2>4, <3>1, <3>3, <3>4, <3>5, <3>6, <3>7 DEF OnDisk, InMemory
  <2>13. CASE PublishOutput(w) \/ (PublishProof(w) /\ proof[cur[w]] # None) \/ ShardFault(w)
    <3>1. /\ pc[w] \in InWork /\ pc'[w] \in {"proving", "ending"}
          /\ UNCHANGED <<rows, checkpoint, proof, cur, job, runs, left, crashes>>
          /\ faults' \in {faults, faults + 1} /\ cur[w] \in Shards
          /\ \A s \in Shards \ {cur[w]} : mem'[w][s] = mem[w][s]
          /\ \/ mem'[w][cur[w]] = Failed(mem[w][cur[w]]) /\ pc'[w] = "ending"
             \/ pc'[w] = "proving" /\ mem'[w][cur[w]] = Succeeded(mem[w][cur[w]])
      <4>1. CASE PublishOutput(w) /\ MayPublish(output[cur[w]], text[w])
        BY <1>0, <4>1 DEF PublishOutput, TypeInv, InShard, Goto, TypeOK, passVars, boundVars
      <4>2. CASE /\ Fail(w) /\ pc[w] \in InWork /\ faults' \in {faults, faults + 1}
                 /\ UNCHANGED <<rows, checkpoint, proof, cur, job, runs, left, crashes>>
        BY <1>0, <4>2 DEF Fail, TypeInv, InShard, Goto, TypeOK
      <4> QED BY <2>13, <4>1, <4>2 DEF PublishOutput, PublishProof, ShardFault, diskVars, passVars, boundVars
    <3>2. /\ mem'[w][cur[w]].attempts = mem[w][cur[w]].attempts
          /\ \/ mem'[w][cur[w]].status = "failed" /\ pc'[w] = "ending"
             \/ mem'[w][cur[w]].status = "succeeded" /\ pc'[w] = "proving"
      <4> DEFINE old == mem[w][cur[w]]
      <4>1. old \in Row
        BY <1>1, <3>1
      <4>2. /\ Failed(old).status = "failed" /\ Failed(old).attempts = old.attempts
            /\ Succeeded(old).status = "succeeded" /\ Succeeded(old).attempts = old.attempts
        BY <4>1, RowHistory
      <4> QED BY <3>1, <4>2
    <3>3. SoundInMemory(w)'
      BY <1>0, <3>1, <3>2 DEF SoundInMemory, AtWork, Sound
    <3>4. WorkInMemory(w)'
      BY <1>0, <3>1, <3>2 DEF WorkInMemory, Stuck, Exhausted
    <3>5. CopiesInMemory(w)'
      BY <1>0, <3>1, <3>2 DEF CopiesInMemory, AtWork, Keeps, KeepsOrRecovers, Stuck, Exhausted
    <3>6. VerdictInMemory(w)'
      BY <1>0, <3>1, <3>2 DEF VerdictInMemory
    <3>7. CountedInMemory(w)'
      BY <1>0, <1>1, <1>2, <3>1, <3>2 DEF CountedInMemory
    <3> QED BY <2>2, <2>3, <2>4, <3>1, <3>3, <3>4, <3>5, <3>6, <3>7 DEF InMemory
  <2>14. CASE Finalise(w)
    <3>1. /\ pc[w] = "passing" /\ pc'[w] = "saving" /\ left'[w] = {} /\ memJob'[w] = FinalStatus(mem[w])
          /\ UNCHANGED <<rows, checkpoint, proof, mem, job, runs, crashes, faults>>
      BY <1>0, <2>14 DEF Finalise, diskVars, boundVars, Goto, TypeOK
    <3>2. SoundInMemory(w)' /\ WorkInMemory(w)'
      BY <1>0, <3>1 DEF SoundInMemory, WorkInMemory, AtWork, Sound
    <3>3. CopiesInMemory(w)'
      BY <1>0, <3>1 DEF CopiesInMemory, AtWork, Keeps, KeepsOrRecovers, Stuck, Exhausted
    <3>4. \A s \in Shards : mem[w][s].status \in Statuses \ {"cancelled"}
      BY <1>0, <1>1, <3>1 DEF VerdictInMemory, Row
    <3>5. Verdict(FinalStatus(mem[w]), mem[w])
      BY <3>4 DEF Verdict, FinalStatus, Stuck, Statuses, Open
    <3>6. VerdictInMemory(w)'
      BY <3>1, <3>5 DEF VerdictInMemory, Verdict, Stuck, Exhausted
    <3>7. CountedInMemory(w)'
      BY <1>0, <1>1, <1>2, <3>1 DEF CountedInMemory
    <3> QED BY <2>2, <2>3, <2>4, <3>1, <3>2, <3>3, <3>6, <3>7 DEF InMemory
  <2>15. CASE SaveLedger(w)
    <3>1. /\ pc[w] = "saving" /\ pc'[w] = "clearing" /\ rows' = mem[w] /\ job' = memJob[w]
          /\ UNCHANGED <<checkpoint, proof, runs, crashes, faults>>
      BY <1>0, <2>15 DEF SaveLedger, boundVars, Goto, TypeOK
    <3>2. SoundOnDisk'
      BY <1>0, <3>1 DEF SoundOnDisk, SoundInMemory, AtWork, Sound
    <3>3. CopiesOnDisk' /\ Verdict(job, rows)'
      BY <1>0, <3>1 DEF CopiesOnDisk, CopiesInMemory, AtWork, Keeps, Stuck, Exhausted, VerdictInMemory, Verdict
    <3>4. CountedOnDisk'
      BY <1>0, <3>1 DEF CountedOnDisk, CountedInMemory
    <3> QED BY <2>2, <3>1, <3>2, <3>3, <3>4 DEF OnDisk
  <2>16. CASE ClearCheckpoints(w) \/ Crash(w) \/ PassFault(w)
    <3>1. /\ pc'[w] = "idle" /\ UNCHANGED <<rows, proof, job, runs>>
          /\ \A s \in Shards : checkpoint'[s] \in {None, checkpoint[s]}
          /\ \/ UNCHANGED <<crashes, faults>> /\ pc[w] = "clearing"
             \/ crashes' = crashes + 1 /\ faults' = faults
             \/ crashes' = crashes /\ faults' = faults + 1
      <4>1. CASE ClearCheckpoints(w)
        BY <1>0, <4>1 DEF ClearCheckpoints, NoCheckpoints, boundVars, Goto, TypeOK
      <4>2. CASE Crash(w)
        BY <1>0, <4>2 DEF Crash, Forget, diskVars, Goto, TypeOK
      <4>3. CASE PassFault(w)
        BY <1>0, <4>3 DEF PassFault, Forget, diskVars, Goto, TypeOK
      <4> QED BY <2>16, <4>1, <4>2, <4>3
    <3>2. OnDisk'
      BY <1>0, <3>1 DEF OnDisk, SoundOnDisk, CopiesOnDisk, Sound, Keeps, Stuck, Exhausted, Verdict
    <3>3. \A s \in Shards : runs[s] <= rows[s].attempts + crashes' + faults'
      <4>1. CASE pc[w] \in InPass
        <5>1. \A s \in Shards : runs[s] <= rows[s].attempts + crashes + faults + 1
          BY <1>0, <1>1, <1>2, <4>1 DEF CountedInMemory
        <5> QED BY <1>1, <1>2, <3>1, <4>1, <5>1
      <4>2. CASE pc[w] \notin InPass
        BY <1>0, <1>1, <1>2, <2>5, <3>1, <4>2
      <4> QED BY <4>1, <4>2
    <3>4. CountedOnDisk'
      BY <3>1, <3>3 DEF CountedOnDisk
    <3> QED BY <2>2, <3>1, <3>2, <3>4
  <2>17. CASE PublishProof(w)
    BY <2>12, <2>13, <2>17
  <2>18. CASE WorkerStep(w)
    BY <2>7, <2>8, <2>9, <2>10, <2>11, <2>13, <2>14, <2>15, <2>16, <2>17, <2>18 DEF WorkerStep
  <2>19. CASE WorkerFault(w)
    BY <2>13, <2>16, <2>19 DEF WorkerFault
  <2> QED BY <1>6, <2>18, <2>19
<1>7. ASSUME NEW s \in Shards, BackoffElapses(s) PROVE RowsInv'
  <2>1. UNCHANGED <<pc, cur, proof, job, memJob, runs, left, crashes, faults>>
    BY <1>7 DEF BackoffElapses, passVars, boundVars
  <2>2. \A r \in Shards : /\ rows'[r] = Due(rows[r]) \/ rows'[r] = rows[r]
                          /\ checkpoint'[r] = Due(checkpoint[r]) \/ checkpoint'[r] = checkpoint[r]
                          /\ \A w \in Workers : mem'[w][r] = Due(mem[w][r]) \/ mem'[w][r] = mem[w][r]
    BY <1>0, <1>7 DEF BackoffElapses, TypeOK
  <2>3. \A r \in Shards :
          /\ rows'[r].status = rows[r].status /\ rows'[r].attempts = rows[r].attempts
          /\ checkpoint'[r] # None => /\ checkpoint[r] # None
                                      /\ checkpoint'[r].status = checkpoint[r].status
                                      /\ checkpoint'[r].attempts = checkpoint[r].attempts
          /\ \A w \in Workers : mem'[w][r].status = mem[w][r].status /\ mem'[w][r].attempts = mem[w][r].attempts
    <3>1. Due(None) = None
      BY DEF Due
    <3>2. \A row \in Row : Due(row).status = row.status /\ Due(row).attempts = row.attempts
      BY RowHistory
    <3> QED BY <1>1, <2>2, <3>1, <3>2
  <2>4. OnDisk'
    BY <1>0, <2>1, <2>3 DEF OnDisk, SoundOnDisk, CopiesOnDisk, Sound, Keeps, Stuck, Exhausted, Verdict
  <2>5. CountedOnDisk'
    BY <1>0, <2>1, <2>3 DEF CountedOnDisk
  <2>6. ASSUME NEW w \in Workers, pc'[w] \in InPass PROVE InMemory(w)'
    <3>1. SoundInMemory(w)' /\ VerdictInMemory(w)'
      BY <1>0, <2>1, <2>3, <2>6 DEF SoundInMemory, VerdictInMemory, AtWork, Sound, Stuck, Exhausted, Verdict
    <3>2. pc[w] \in InWork => cur[w] \in Shards
      BY <1>0 DEF TypeInv, InShard
    <3>3. WorkInMemory(w)'
      BY <1>0, <2>1, <2>3, <2>6, <3>2 DEF WorkInMemory, Stuck, Exhausted
    <3>4. CopiesInMemory(w)'
      BY <1>0, <2>1, <2>3, <2>6 DEF CopiesInMemory, AtWork, Keeps, KeepsOrRecovers, Stuck, Exhausted
    <3>5. CountedInMemory(w)'
      BY <1>0, <2>1, <2>3, <2>6 DEF CountedInMemory
    <3> QED BY <3>1, <3>3, <3>4, <3>5 DEF InMemory
  <2> QED BY <2>4, <2>5, <2>6 DEF RowsInv
<1> QED BY <1>3, <1>4, <1>5, <1>6, <1>7 DEF Next

LEMMA LedgerStep ==
  ASSUME Exclusive PROVE LedgerInv /\ [Next]_vars => LedgerInv'
<1>1. LedgerInv /\ [Next]_vars => TypeInv' /\ RecoveryInv'
  BY TypeStep, RecoveryStep DEF LedgerInv
<1> QED BY <1>1, ControlStep, RowsStep DEF LedgerInv

LEMMA LedgerAlways == ASSUME Exclusive PROVE Spec => []LedgerInv
BY LedgerInit, LedgerStep, PTL DEF Spec

\* corpusResumeSync gives a shard no more attempts than max_retries allows (one, if that is
\* zero), and one more for each crash or error that lost the attempt it had made.
THEOREM RetriesAreBounded == ASSUME Exclusive PROVE Spec => []RetriesBounded
<1>1. ASSUME LedgerInv, NEW s \in Shards PROVE runs[s] <= MostAttempts + crashes + faults
  <2>1. /\ OnDisk /\ CountedOnDisk /\ \A w \in Workers : pc[w] \in InPass => InMemory(w)
        /\ TypeOK
    BY <1>1 DEF LedgerInv, RowsInv, TypeInv
  <2>2. /\ runs[s] \in Nat /\ crashes \in Nat /\ faults \in Nat /\ rows[s].attempts \in Nat
        /\ \A w \in Workers : mem[w][s].attempts \in Nat
    BY <2>1, SettingAssumption DEF TypeOK, Row
  <2>3. MostAttempts \in Nat
    BY LimitsAssumption DEF MostAttempts
  <2>4. CASE \E w \in Workers : pc[w] \in InPass
    <3>1. PICK w \in Workers : pc[w] \in InPass
      BY <2>4
    <3>2. mem[w][s].attempts <= MostAttempts /\ runs[s] <= mem[w][s].attempts + crashes + faults
      BY <2>1, <3>1 DEF InMemory, SoundInMemory, CountedInMemory, Sound
    <3> QED BY <2>2, <2>3, <3>2
  <2>5. CASE \A w \in Workers : pc[w] \notin InPass
    <3>1. rows[s].attempts <= MostAttempts /\ runs[s] <= rows[s].attempts + crashes + faults
      BY <2>1, <2>5 DEF OnDisk, SoundOnDisk, CountedOnDisk, Sound
    <3> QED BY <2>2, <2>3, <3>1
  <2> QED BY <2>4, <2>5
<1>2. LedgerInv => RetriesBounded
  BY <1>1 DEF RetriesBounded, MostAttempts
<1> QED BY <1>2, LedgerAlways, PTL

\* What a reader of a job sees is what the published files say: a shard that was set aside
\* has no proof, and what finaliseLedgerStatus or corpusCancel wrote of the job stays true
\* of its shards.
THEOREM LedgerAlwaysTrue == ASSUME Exclusive PROVE Spec => []LedgerTellsTruth
<1>1. ASSUME LedgerInv PROVE LedgerTellsTruth
  <2>1. SoundOnDisk /\ CopiesOnDisk /\ Verdict(job, rows) /\ TypeOK /\ ProofCertifiesOutput
    BY <1>1 DEF LedgerInv, RowsInv, OnDisk, TypeInv, RecoveryInv
  <2>2. \A s \in Shards : View[s] = IF checkpoint[s] = None THEN rows[s] ELSE checkpoint[s]
    BY DEF View, Overlay
  <2>3. FinishedWorkIsKept
    BY <2>1, <2>2 DEF FinishedWorkIsKept, SoundOnDisk, Sound
  <2>4. ASSUME job = "completed", NEW s \in Shards
        PROVE  /\ Recovered(View)[s].status = "succeeded"
               /\ output[s] # None /\ proof[s] = output[s]
    <3>1. rows[s].status = "succeeded" /\ proof[s] # None
      BY <2>1, <2>4 DEF Verdict, SoundOnDisk, Sound
    <3>2. output[s] # None /\ proof[s] = output[s]
      BY <2>1, <3>1 DEF ProofCertifiesOutput
    <3>3. View[s] \in Row /\ View[s].status \in {"succeeded", "failed"}
      <4>1. /\ rows[s] \in Row
            /\ checkpoint[s] # None => checkpoint[s] \in Row /\ checkpoint[s].status \notin Open
        BY <2>1 DEF TypeOK
      <4>2. checkpoint[s] # None => checkpoint[s].status \notin {"quarantined", "cancelled"}
        BY <2>1, <3>1 DEF SoundOnDisk, Sound
      <4> QED BY <2>2, <3>1, <4>1, <4>2 DEF Row, Statuses
    <3>4. Succeeded(View[s]).status = "succeeded"
      BY <3>3, RowHistory
    <3> QED BY <3>1, <3>2, <3>3, <3>4 DEF Recovered, Open
  <2>5. ASSUME job = "failed"
        PROVE  \E s \in Shards : Exhausted(View[s]) \/ View[s].status = "quarantined"
    BY <2>1, <2>2, <2>5 DEF Verdict, CopiesOnDisk, Keeps, Stuck
  <2>6. ASSUME job = "cancelled" PROVE \A s \in Shards : View[s].status \notin Open
    BY <2>1, <2>2, <2>6 DEF Verdict, TypeOK
  <2> QED BY <2>3, <2>4, <2>5, <2>6 DEF LedgerTellsTruth, JobStatusAgrees
<1> QED BY <1>1, LedgerAlways, PTL

\* corpusResume returns at once from a job that is cancelled, and nobody's ledger replaces
\* the one corpusCancel wrote: the job stays cancelled and no shard is processed.
THEOREM CancellationIsFinal == ASSUME Exclusive PROVE Spec => CancelIsFinal
<1>1. ASSUME LedgerInv, Next, job = "cancelled" PROVE job' = "cancelled" /\ runs' = runs
  <2>1. BeforeStart /\ ReadFromDisk
    BY <1>1 DEF LedgerInv, ControlInv
  <2>2. CASE StarterStep
    BY <1>1, <2>1, <2>2, NoneAssumption
       DEF StarterStep, StartManifest, StartLedger, StartClear, CrashStarter, BeforeStart, JobStatuses, diskVars
  <2>3. ASSUME NEW w \in Workers, NEW s \in Shards, Lease(w, s) PROVE FALSE
    BY <1>1, <2>1, <2>3 DEF Lease, NextShard, ReadFromDisk
  <2>4. ASSUME NEW w \in Workers, SaveLedger(w) PROVE job' = "cancelled" /\ runs' = runs
    BY <1>1, <2>1, <2>4 DEF SaveLedger, ReadFromDisk
  <2>5. ASSUME NEW w \in Workers,
               \/ Begin(w, "resume") \/ Begin(w, "cancel") \/ Resume(w) \/ Cancel(w)
               \/ \E r \in Shards : Quarantine(w, r)
               \/ \E t \in Texts : Extract(w, t)
               \/ PublishOutput(w) \/ PublishProof(w) \/ CommitCheckpoint(w) \/ NoteSuccess(w)
               \/ EndShard(w) \/ Finalise(w) \/ ClearCheckpoints(w) \/ WorkerFault(w)
        PROVE  UNCHANGED <<job, runs>>
    BY <2>5 DEF Begin, Resume, Cancel, Quarantine, Extract, PublishOutput, PublishProof,
                CommitCheckpoint, NoteSuccess, EndShard, Finalise, ClearCheckpoints,
                WorkerFault, Crash, ShardFault, PassFault, diskVars
  <2>6. ASSUME NEW r \in Shards, BackoffElapses(r) PROVE UNCHANGED <<job, runs>>
    BY <2>6 DEF BackoffElapses
  <2> QED BY <1>1, <2>2, <2>3, <2>4, <2>5, <2>6 DEF Next, WorkerStep
<1>2. LedgerInv /\ [Next]_vars => [job = "cancelled" => job' = "cancelled" /\ runs' = runs]_vars
  BY <1>1
<1> QED BY <1>2, LedgerAlways, PTL DEF Spec, CancelIsFinal

=============================================================================
