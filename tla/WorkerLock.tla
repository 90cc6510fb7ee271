----------------------------- MODULE WorkerLock -----------------------------
(***************************************************************************)
(* The lock file that keeps two processes from working on one corpus job   *)
(* (worker.lock, src/corpus.ts) and two supervisors from running at once   *)
(* (supervisor.lock, src/corpus_supervisor.ts; the same code).             *)
(*                                                                         *)
(* A process creates the file exclusively, writes its pid into it, works,  *)
(* and unlinks it.  It finds a file in its way: if the file names a        *)
(* process that is dead, it unlinks the file and tries once more.  Every   *)
(* file system call is a step.  Pids are not reused.                       *)
(***************************************************************************)
EXTENDS Integers, FiniteSets

CONSTANTS
  Procs,        \* pids
  MaxCrashes,   \* bound on process deaths
  MaxFaults,    \* bound on writes of the pid that throw
  NoFile        \* nothing at the lock's path

ASSUME ProcsAssumption == IsFiniteSet(Procs)
ASSUME BoundsAssumption == MaxCrashes \in Nat /\ MaxFaults \in Nat
ASSUME NoFileAssumption == NoFile \notin [by : Procs, written : BOOLEAN]

VARIABLES
  lock,         \* the file at the path: who created it, whether its pid is in it
  pc,           \* where each process is in acquire, work, release
  dead,         \* pids that no longer exist
  contested,    \* history: two processes have judged a lock stale at the same time
  crashes, faults

vars == <<lock, pc, dead, contested, crashes, faults>>

Files  == [by : Procs, written : BOOLEAN]
Places == {"idle", "opening", "inspecting", "unlinking", "reopening", "writing", "holding", "cleaning"}

TypeOK ==
  /\ lock \in Files \cup {NoFile}
  /\ pc \in [Procs -> Places]
  /\ dead \subseteq Procs
  /\ \A p \in dead : pc[p] = "idle"
  /\ contested \in BOOLEAN
  /\ crashes \in 0 .. MaxCrashes
  /\ faults \in 0 .. MaxFaults

Init ==
  /\ lock = NoFile
  /\ pc = [p \in Procs |-> "idle"]
  /\ dead = {}
  /\ contested = FALSE
  /\ crashes = 0
  /\ faults = 0

Goto(p, place) == pc' = [pc EXCEPT ![p] = place]

\* acquireCorpusWorkerLock
Acquire(p) ==
  /\ pc[p] = "idle" /\ p \notin dead
  /\ Goto(p, "opening")
  /\ UNCHANGED <<lock, dead, contested, crashes, faults>>

\* openSync(lockPath, "wx") creates the file.
OpenExclusive(p) ==
  /\ pc[p] \in {"opening", "reopening"} /\ lock = NoFile
  /\ lock' = [by |-> p, written |-> FALSE]
  /\ Goto(p, "writing")
  /\ UNCHANGED <<dead, contested, crashes, faults>>

\* EEXIST: the first attempt looks at the file, the second gives up.
OpenFails(p) ==
  /\ pc[p] \in {"opening", "reopening"} /\ lock # NoFile
  /\ Goto(p, IF pc[p] = "opening" THEN "inspecting" ELSE "idle")
  /\ UNCHANGED <<lock, dead, contested, crashes, faults>>

\* Mutant: processExists is not asked.
Stale_Always == lock # NoFile /\ lock.written

\* Mutant: every error of kill(pid, 0) means that the process exists.
Stale_ErrorsMeanAlive == FALSE

\* The file names a process that kill(pid, 0) reports as ESRCH.  An empty file does
\* not parse, a file that is gone cannot be read: neither is stale.
Stale == lock # NoFile /\ lock.written /\ lock.by \in dead

\* removeStaleWorkerLock reads the file; if it is not stale the lock is refused.
Inspect(p) ==
  /\ pc[p] = "inspecting"
  /\ Goto(p, IF Stale THEN "unlinking" ELSE "idle")
  /\ contested' = (contested \/ (Stale /\ \E q \in Procs \ {p} : pc[q] = "unlinking"))
  /\ UNCHANGED <<lock, dead, crashes, faults>>

\* ... and unlinks what is at the path by then; ENOENT means not removed.
UnlinkStale(p) ==
  /\ pc[p] = "unlinking"
  /\ lock' = NoFile
  /\ Goto(p, IF lock = NoFile THEN "idle" ELSE "reopening")
  /\ UNCHANGED <<dead, contested, crashes, faults>>

\* The pid goes into the file that was opened, which may be off the path by now.
WritePid(p) ==
  /\ pc[p] = "writing"
  /\ lock' = IF lock # NoFile /\ lock.by = p THEN [lock EXCEPT !.written = TRUE] ELSE lock
  /\ Goto(p, "holding")
  /\ UNCHANGED <<dead, contested, crashes, faults>>

\* The write throws; the catch block closes and unlinks.
WriteFault(p) ==
  /\ pc[p] = "writing" /\ faults < MaxFaults
  /\ faults' = faults + 1
  /\ Goto(p, "cleaning")
  /\ UNCHANGED <<lock, dead, contested, crashes>>

\* releaseCorpusWorkerLock, and the cleanup of a failed write: close, unlink the
\* path, whoever's file is there; ENOENT is ignored.
Release(p) ==
  /\ pc[p] \in {"holding", "cleaning"}
  /\ lock' = NoFile
  /\ Goto(p, "idle")
  /\ UNCHANGED <<dead, contested, crashes, faults>>

Crash(p) ==
  /\ pc[p] # "idle" /\ crashes < MaxCrashes
  /\ crashes' = crashes + 1
  /\ dead' = dead \cup {p}
  /\ Goto(p, "idle")
  /\ UNCHANGED <<lock, contested, faults>>

Step(p) ==
  \/ OpenExclusive(p) \/ OpenFails(p) \/ Inspect(p) \/ UnlinkStale(p)
  \/ WritePid(p) \/ Release(p)

Next == \E p \in Procs : Acquire(p) \/ Step(p) \/ WriteFault(p) \/ Crash(p)

Spec == Init /\ [][Next]_vars

\* Synchronous file system calls return, a job step ends, and processes keep
\* coming back for the lock: the supervisor runs cycle after cycle and launchd
\* restarts it.
FairSpec == Spec /\ \A p \in Procs : WF_vars(Acquire(p)) /\ WF_vars(Step(p))

-----------------------------------------------------------------------------
(* Properties *)

Working == {p \in Procs : pc[p] = "holding"}

\* Two processes work on one job only after two processes have judged one stale
\* lock at the same time: a crash by itself never lets a second process in.
ExclusiveUnlessContested ==
  ~contested => \A p, q \in Working : p = q

\* A lock that a dead process left behind with its pid in it does not stay.
StaleLockIsReclaimed ==
  \A p \in Procs :
    (p \in dead /\ lock = [by |-> p, written |-> TRUE]) ~> (lock # [by |-> p, written |-> TRUE])

\* docs/corpus-heavy-workloads.md:205-206 "malformed or live locks remain blocked for
\* operator inspection": while its process works, the lock is at its path.
LiveLockRemains ==
  \A p \in Working : lock # NoFile /\ lock.by = p
=============================================================================
