-------------------------- MODULE WorkerLock_proofs --------------------------
(* When the lock of WorkerLock excludes, for every set of processes. *)
EXTENDS WorkerLock, TLAPS

\* A process that created the file at the path and has not given it up.
Owns(p) == pc[p] \in {"writing", "holding", "cleaning"}

\* Until a lock is contested, the file at the path is its owner's, and a file that
\* is about to be unlinked as stale is still that of a dead process.
Undisturbed ==
  ~contested =>
    /\ \A p \in Procs : Owns(p) => lock # NoFile /\ lock.by = p
    /\ \A p \in Procs : pc[p] = "unlinking" => Stale
    /\ \A p, q \in Procs : pc[p] = "unlinking" /\ pc[q] = "unlinking" => p = q

LockInv == TypeOK /\ Undisturbed

LEMMA InitLockInv == Init => LockInv
<1> SUFFICES ASSUME Init PROVE LockInv
  OBVIOUS
<1>1. contested \in BOOLEAN
  BY DEF Init
<1>2. crashes \in 0 .. MaxCrashes /\ faults \in 0 .. MaxFaults
  BY BoundsAssumption DEF Init
<1> QED
  BY <1>1, <1>2 DEF Init, LockInv, TypeOK, Undisturbed, Owns, Places

LEMMA StepLockInv == LockInv /\ [Next]_vars => LockInv'
<1> SUFFICES ASSUME LockInv, [Next]_vars PROVE LockInv'
  OBVIOUS
<1> USE BoundsAssumption, NoFileAssumption
<1> USE DEF LockInv, TypeOK, Undisturbed, Owns, Stale, Files, Places, Goto
<1>1. ASSUME NEW p \in Procs, Acquire(p) PROVE LockInv'
  BY <1>1 DEF Acquire
<1>2. ASSUME NEW p \in Procs, Step(p) PROVE LockInv'
  <2>1. CASE OpenExclusive(p)
    <3>1. lock' \in Files \cup {NoFile} /\ pc' \in [Procs -> Places]
      BY <2>1 DEF OpenExclusive
    <3>2. TypeOK'
      BY <2>1, <3>1 DEF OpenExclusive
    <3>3. ASSUME ~contested
          PROVE  \A q \in Procs : pc[q] # "unlinking" /\ ~Owns(q)
      BY <2>1, <3>3 DEF OpenExclusive
    <3>4. lock' # NoFile /\ lock'.by = p
      <4>1. lock' = [by |-> p, written |-> FALSE]
        BY <2>1 DEF OpenExclusive
      <4>2. lock' \in Files
        BY <4>1
      <4> QED
        BY <4>1, <4>2
    <3>5. Undisturbed'
      BY <2>1, <3>3, <3>4 DEF OpenExclusive
    <3> QED
      BY <3>2, <3>5
  <2>2. CASE OpenFails(p)
    BY <2>2 DEF OpenFails
  <2>3. CASE Inspect(p)
    BY <2>3 DEF Inspect
  <2>4. CASE UnlinkStale(p)
    BY <2>4 DEF UnlinkStale
  <2>5. CASE WritePid(p)
    BY <2>5 DEF WritePid
  <2>6. CASE Release(p)
    BY <2>6 DEF Release
  <2> QED
    BY <1>2, <2>1, <2>2, <2>3, <2>4, <2>5, <2>6 DEF Step
<1>3. ASSUME NEW p \in Procs, WriteFault(p) PROVE LockInv'
  BY <1>3 DEF WriteFault
<1>4. ASSUME NEW p \in Procs, Crash(p) PROVE LockInv'
  BY <1>4 DEF Crash
<1>5. CASE UNCHANGED vars
  BY <1>5 DEF vars
<1> QED
  BY <1>1, <1>2, <1>3, <1>4, <1>5 DEF Next

\* However many processes ask for the lock, die with it or fail to write it, two of
\* them work at once only after a lock was contested (corpus.ts 2382-2441).
THEOREM LockExcludes == Spec => []ExclusiveUnlessContested
<1>1. LockInv => ExclusiveUnlessContested
  BY DEF LockInv, TypeOK, Undisturbed, Owns, ExclusiveUnlessContested, Working
<1> QED
  BY <1>1, InitLockInv, StepLockInv, PTL DEF Spec

\* The lock file, the owner's identity in it and every process's place keep their
\* types, through crashes and failed writes as well (corpus.ts 2382-2441).
THEOREM TypeCorrect == Spec => []TypeOK
<1>1. LockInv => TypeOK
  BY DEF LockInv
<1> QED
  BY <1>1, InitLockInv, StepLockInv, PTL DEF Spec
=============================================================================
