----------------------------- MODULE Supervisor -----------------------------
(***************************************************************************)
(* The bounded supervisor of corpus jobs (src/corpus_supervisor.ts).       *)
(*                                                                         *)
(* A supervisor makes a few cycles and exits; launchd starts it again.  A  *)
(* cycle finds the running jobs, selects at most MaxJobs of them in round  *)
(* robin order from a cursor, saves the cursor past the whole selection,   *)
(* and only then works the selected jobs, one after another.               *)
(*                                                                         *)
(* A job's worker is one step here: its inside is CorpusLedger, and that   *)
(* one supervisor runs at a time is WorkerLock.                            *)
(***************************************************************************)
EXTENDS Integers, FiniteSets

CONSTANTS
  Jobs,         \* job directories, in the order compareSupervisorJobs gives them
  Live,         \* jobs whose processor needs the live DeepSeek transport
  MaxJobs,      \* config.maxJobsPerCycle
  MaxCycles,    \* config.maxCycles
  MaxCrashes    \* bound on deaths of the supervisor

ASSUME JobsAssumption == Jobs \subseteq Nat \ {0} /\ IsFiniteSet(Jobs) /\ Live \subseteq Jobs
ASSUME MaxJobsAssumption == MaxJobs \in Nat \ {0}
ASSUME BoundsAssumption == MaxCycles \in Nat \ {0} /\ MaxCrashes \in Nat

VARIABLES
  status,       \* what each job's ledger says; "absent" before corpus start
  file,         \* the cursor in supervisor-state.json, NoCursor if there is none
  pc,           \* where the supervisor is, "down" when no process runs
  cursor,       \* the position the process has reached in the rotation
  queue,        \* the selected jobs it has not worked yet
  cycle,        \* the cycle it is in
  found,        \* history: the jobs the last discovery found eligible
  overtaken,    \* history: overtaken[j][k] is how often k was worked while j waited
  crashes

process == <<pc, cursor, queue, cycle>>
waiting == <<found, overtaken>>
vars == <<status, file, process, waiting, crashes>>

NoCursor == 0

\* Nobody was overtaken more often than this: the counter need not count further.
MaxOvertaken == MaxCrashes + 2

-----------------------------------------------------------------------------
(* The rotation *)

\* In the order that starts just after the job p and wraps around, a is before b.
Before(p, a, b) == \/ a > p /\ b <= p
                   \/ (a > p <=> b > p) /\ a < b

\* discoverRunningJobs, less the jobs that runSupervisorCycle defers.
Eligible == {j \in Jobs : status[j] = "running"} \ Live

\* As if without the cursor.
Selected_FromTheStart ==
  {j \in Eligible : Cardinality({k \in Eligible : k < j}) < MaxJobs}

\* selectFairJobs: the first MaxJobs of the eligible jobs in that order.
Selected ==
  {j \in Eligible : Cardinality({k \in Eligible : Before(cursor, k, j)}) < MaxJobs}

IsFirst(j, S) == j \in S /\ \A k \in S \ {j} : Before(cursor, j, k)
IsLast(j, S) == j \in S /\ \A k \in S \ {j} : Before(cursor, k, j)

Tick(n) == IF n < MaxOvertaken THEN n + 1 ELSE n

NotWaiting == [k \in Jobs |-> 0]

-----------------------------------------------------------------------------
Init ==
  /\ status = [j \in Jobs |-> "absent"]
  /\ file = NoCursor
  /\ pc = "down" /\ cursor = NoCursor /\ queue = {} /\ cycle = 0
  /\ found = {} /\ overtaken = [j \in Jobs |-> NotWaiting]
  /\ crashes = 0

(* The operator: corpus start, and corpus cancel or a worker of their own. *)

StartJob(j) ==
  /\ status[j] = "absent"
  /\ status' = [status EXCEPT ![j] = "running"]
  /\ UNCHANGED <<file, process, waiting, crashes>>

ConcludeJob(j) ==
  /\ status[j] = "running"
  /\ status' = [status EXCEPT ![j] = "over"]
  /\ UNCHANGED <<file, process, waiting, crashes>>

(* The supervisor *)

\* corpusSupervisorAsync, to its loop: take the lock and load the cursor.
StartSupervisor ==
  /\ pc = "down"
  /\ pc' = "cycling" /\ cursor' = file /\ cycle' = 1
  /\ UNCHANGED <<status, file, queue, waiting, crashes>>

\* Discover the running jobs and select from them.  A job waits from the
\* discovery that first finds it until it is worked or no longer found.
BeginCycle ==
  /\ pc = "cycling"
  /\ queue' = Selected
  /\ pc' = "saving"
  /\ found' = Eligible
  /\ overtaken' = [j \in Jobs |-> IF j \in Eligible \cap found
                                  THEN overtaken[j] ELSE NotWaiting]
  /\ UNCHANGED <<status, file, cursor, cycle, crashes>>

\* The state file is renamed into place whole: a death leaves it old or new.
WriteCursor(j) == file' = j

\* As if an existing cursor were never moved on disk.
SaveCursor_OnlyTheFirst ==
  /\ pc = "saving"
  /\ pc' = "working"
  /\ \/ queue = {} /\ UNCHANGED file
     \/ \E j \in queue : IsLast(j, queue) /\ IF cursor = NoCursor THEN WriteCursor(j) ELSE UNCHANGED file
  /\ UNCHANGED <<status, cursor, queue, cycle, waiting, crashes>>

\* Save the last selected job, before any is worked, if it moves the cursor.
SaveCursor ==
  /\ pc = "saving"
  /\ pc' = "working"
  /\ \/ queue = {} /\ UNCHANGED file
     \/ \E j \in queue : IsLast(j, queue) /\ IF j # cursor THEN WriteCursor(j) ELSE UNCHANGED file
  /\ UNCHANGED <<status, cursor, queue, cycle, waiting, crashes>>

\* Work the next selected job, whatever its ledger says by now.  It concludes,
\* or stays running: not ready, out of iterations, or broken (the error is
\* caught and the loop goes on).
Work(j) ==
  /\ pc = "working"
  /\ IsFirst(j, queue)
  /\ queue' = queue \ {j}
  /\ cursor' = j
  /\ \/ UNCHANGED status
     \/ status' = [status EXCEPT ![j] = "over"]
  /\ overtaken' = [i \in Jobs |-> IF i = j THEN NotWaiting
                                  ELSE IF i \in found THEN [overtaken[i] EXCEPT ![j] = Tick(@)]
                                  ELSE overtaken[i]]
  /\ UNCHANGED <<file, pc, cycle, found, crashes>>

\* The next cycle, or the report and the end of the process.
EndCycle ==
  /\ pc = "working" /\ queue = {}
  /\ \/ cycle < MaxCycles /\ pc' = "cycling" /\ cycle' = cycle + 1 /\ UNCHANGED cursor
     \/ cycle >= MaxCycles /\ pc' = "down" /\ cycle' = 0 /\ cursor' = NoCursor
  /\ UNCHANGED <<status, file, queue, waiting, crashes>>

\* The process dies, or an error outside the loop's try ends it: the state file
\* cannot be written, the corpus root cannot be read.
Crash ==
  /\ pc # "down" /\ crashes < MaxCrashes
  /\ pc' = "down" /\ cursor' = NoCursor /\ queue' = {} /\ cycle' = 0
  /\ crashes' = crashes + 1
  /\ UNCHANGED <<status, file, waiting>>

SupervisorStep == StartSupervisor \/ BeginCycle \/ SaveCursor \/ EndCycle \/ \E j \in Jobs : Work(j)

Next == \/ SupervisorStep \/ Crash
        \/ \E j \in Jobs : StartJob(j) \/ ConcludeJob(j)

Spec == Init /\ [][Next]_vars

\* launchd restarts the supervisor, and a running one goes on by itself.  Jobs
\* are started, and concluded, only if somebody does so.
FairSpec == Spec /\ WF_vars(SupervisorStep)

-----------------------------------------------------------------------------
(* Properties *)

TypeOK ==
  /\ status \in [Jobs -> {"absent", "running", "over"}]
  /\ file \in Jobs \cup {NoCursor}
  /\ pc \in {"down", "cycling", "saving", "working"}
  /\ cursor \in Jobs \cup {NoCursor}
  /\ queue \in SUBSET Jobs
  /\ cycle \in 0..MaxCycles
  /\ found \in SUBSET (Jobs \ Live)
  /\ overtaken \in [Jobs -> [Jobs -> 0..MaxOvertaken]]
  /\ crashes \in 0..MaxCrashes

\* While a job waits, no other job is worked twice, but for one more time for
\* each death of the supervisor, which skips what was selected and not worked
\* (the fair rotation of selectFairJobs and the cursor it is saved with).
RotationIsFair ==
  \A j \in found, k \in Jobs : overtaken[j][k] <= 1 + crashes

\* A discovered job that is neither live nor concluded is worked again and
\* again, however many broken jobs sort before it and whatever restarts lie
\* between (docs/corpus-heavy-workloads.md:202, the cursor's whole purpose).
JobsAreServed ==
  \A j \in Jobs \ Live : []<>(status[j] # "running") \/ []<><<Work(j)>>_vars

=============================================================================
