-------------------------- MODULE Supervisor_proofs --------------------------
(***************************************************************************)
(* That the supervisor's rotation is fair, for every set of jobs, every    *)
(* batch size and any number of deaths.                                    *)
(*                                                                         *)
(* The argument: at the position p of the rotation, j was overtaken by k   *)
(* once more than the supervisor died only if k lies behind p and j still  *)
(* ahead of it.  Working a job moves p over that job alone, because the    *)
(* jobs selected and not yet worked come before every other job found.     *)
(***************************************************************************)
EXTENDS Supervisor, FiniteSetTheorems, TLAPS

\* Where the rotation goes on: in memory while a process runs, else on disk.
Position == IF pc = "down" THEN file ELSE cursor

OvertakenByThosePassed ==
  \A j \in found, k \in Jobs :
    overtaken[j][k] <= crashes + (IF Before(Position, j, k) THEN 1 ELSE 0)

QueueComesFirst ==
  \A k \in queue, j \in found \ queue : Before(cursor, k, j)

FileIsWhereTheSelectionEnds ==
  /\ pc \in {"down", "cycling"} => queue = {}
  /\ pc \in {"cycling", "saving"} => file = cursor
  /\ pc = "working" => IF queue = {} THEN file = cursor ELSE IsLast(file, queue)

IInv == /\ TypeOK
        /\ OvertakenByThosePassed
        /\ QueueComesFirst
        /\ FileIsWhereTheSelectionEnds

-----------------------------------------------------------------------------
(* The rotation's order *)

LEMMA BeforeIsAnOrder ==
  ASSUME NEW p \in Nat, NEW a \in Nat, NEW b \in Nat, NEW c \in Nat
  PROVE  /\ ~ (Before(p, a, b) /\ Before(p, b, a))
         /\ Before(p, a, b) /\ Before(p, b, c) => Before(p, a, c)
         /\ a # b => Before(p, a, b) \/ Before(p, b, a)
BY DEF Before

\* Moving the position over a job leaves the order of the jobs behind it.
LEMMA BeforeRotates ==
  ASSUME NEW p \in Nat, NEW i \in Nat, NEW a \in Nat, NEW b \in Nat
  PROVE  /\ Before(p, i, a) /\ Before(p, a, b) => Before(i, a, b)
         /\ a # i => Before(i, a, i)
BY DEF Before

\* What is selected comes before whatever else is eligible.
LEMMA SelectedComeFirst ==
  ASSUME TypeOK, NEW k \in Selected, NEW j \in Eligible \ Selected
  PROVE  Before(cursor, k, j)
<1> DEFINE Ahead(x) == {y \in Eligible : Before(cursor, y, x)}
<1>1. IsFiniteSet(Eligible)
  BY FS_Subset, JobsAssumption DEF Eligible
<1>2. cursor \in Nat /\ k \in Nat /\ j \in Nat /\ k \in Eligible /\ k # j
  BY JobsAssumption DEF TypeOK, Eligible, Selected, NoCursor
<1>3. Cardinality(Ahead(k)) < MaxJobs /\ ~ (Cardinality(Ahead(j)) < MaxJobs)
  BY DEF Selected
<1>4. SUFFICES ASSUME Before(cursor, j, k) PROVE FALSE
  BY <1>2, BeforeIsAnOrder
<1>5. Ahead(j) \subseteq Ahead(k)
  <2> SUFFICES ASSUME NEW y \in Eligible, Before(cursor, y, j) PROVE Before(cursor, y, k)
    OBVIOUS
  <2>1. y \in Nat
    BY JobsAssumption DEF Eligible
  <2> QED BY <2>1, <1>2, <1>4, BeforeIsAnOrder
<1>6. IsFiniteSet(Ahead(k)) /\ IsFiniteSet(Ahead(j))
  BY <1>1, FS_Subset
<1>7. Cardinality(Ahead(j)) <= Cardinality(Ahead(k))
  BY <1>5, <1>6, FS_Subset
<1>8. Cardinality(Ahead(j)) \in Nat /\ Cardinality(Ahead(k)) \in Nat
  BY <1>6, FS_CardinalityType
<1> HIDE DEF Ahead
<1> QED BY <1>3, <1>7, <1>8, MaxJobsAssumption

-----------------------------------------------------------------------------
(* Every step preserves the types *)

LEMMA TypeStep == TypeOK /\ [Next]_vars => TypeOK'
<1> SUFFICES ASSUME TypeOK, [Next]_vars PROVE TypeOK'
  OBVIOUS
<1> USE JobsAssumption, BoundsAssumption
<1>1. ASSUME NEW j \in Jobs, StartJob(j) \/ ConcludeJob(j) PROVE TypeOK'
  BY <1>1 DEF TypeOK, StartJob, ConcludeJob, process, waiting
<1>2. CASE StartSupervisor
  BY <1>2 DEF TypeOK, StartSupervisor, waiting
<1>3. CASE BeginCycle
  <2>1. overtaken' \in [Jobs -> [Jobs -> 0..MaxOvertaken]]
    BY <1>3 DEF TypeOK, BeginCycle, NotWaiting, MaxOvertaken
  <2>2. Selected \in SUBSET Jobs /\ Eligible \in SUBSET (Jobs \ Live)
    BY DEF Selected, Eligible
  <2> QED BY <1>3, <2>1, <2>2 DEF TypeOK, BeginCycle
<1>4. CASE SaveCursor
  BY <1>4 DEF TypeOK, SaveCursor, WriteCursor, waiting
<1>5. ASSUME NEW j \in Jobs, Work(j) PROVE TypeOK'
  <2>1. \A n \in 0..MaxOvertaken : Tick(n) \in 0..MaxOvertaken
    BY DEF Tick, MaxOvertaken
  <2>2. NotWaiting \in [Jobs -> 0..MaxOvertaken]
    BY DEF NotWaiting, MaxOvertaken
  <2>3. \A i \in Jobs : [overtaken[i] EXCEPT ![j] = Tick(@)] \in [Jobs -> 0..MaxOvertaken]
    BY <2>1 DEF TypeOK
  <2>4. overtaken' \in [Jobs -> [Jobs -> 0..MaxOvertaken]]
    BY <1>5, <2>2, <2>3 DEF Work, TypeOK
  <2>5. status' \in [Jobs -> {"absent", "running", "over"}]
    BY <1>5 DEF Work, TypeOK
  <2> QED BY <1>5, <2>4, <2>5 DEF TypeOK, Work
<1>6. CASE EndCycle
  BY <1>6 DEF TypeOK, EndCycle, waiting
<1>7. CASE Crash
  BY <1>7 DEF TypeOK, Crash, waiting
<1>8. CASE UNCHANGED vars
  BY <1>8 DEF TypeOK, vars, process, waiting
<1> QED BY <1>1, <1>2, <1>3, <1>4, <1>5, <1>6, <1>7, <1>8 DEF Next, SupervisorStep

-----------------------------------------------------------------------------
(* Every step preserves the fairness invariant *)

LEMMA InitIInv == Init => IInv
<1> SUFFICES ASSUME Init PROVE IInv
  OBVIOUS
<1>1. TypeOK
  <2>1. overtaken \in [Jobs -> [Jobs -> 0..MaxOvertaken]]
    BY BoundsAssumption DEF Init, NotWaiting, MaxOvertaken
  <2> QED BY <2>1, BoundsAssumption DEF Init, TypeOK
<1> QED BY <1>1 DEF Init, IInv, OvertakenByThosePassed, QueueComesFirst, FileIsWhereTheSelectionEnds

\* The operator's steps leave the rotation alone, and so does a stutter.
LEMMA IdleStep ==
  ASSUME IInv, TypeOK', UNCHANGED <<file, process, waiting, crashes>>
  PROVE  IInv'
BY DEF IInv, process, waiting, OvertakenByThosePassed, QueueComesFirst,
       FileIsWhereTheSelectionEnds, Position, Before, IsLast

LEMMA StartStep ==
  ASSUME IInv, TypeOK', StartSupervisor
  PROVE  IInv'
BY DEF IInv, StartSupervisor, waiting, OvertakenByThosePassed, QueueComesFirst,
       FileIsWhereTheSelectionEnds, Position, Before, IsLast

LEMMA BeginCycleStep ==
  ASSUME IInv, TypeOK', BeginCycle
  PROVE  IInv'
<1>1. QueueComesFirst'
  BY SelectedComeFirst DEF IInv, BeginCycle, QueueComesFirst, Before
<1>2. OvertakenByThosePassed'
  <2> SUFFICES ASSUME NEW j \in Eligible, NEW k \in Jobs
               PROVE  overtaken'[j][k] <= crashes + (IF Before(cursor, j, k) THEN 1 ELSE 0)
    BY DEF BeginCycle, OvertakenByThosePassed, Position, Before
  <2>1. j \in Jobs /\ crashes \in Nat
    BY BoundsAssumption DEF Eligible, IInv, TypeOK
  <2>2. CASE j \in found
    BY <2>1, <2>2 DEF IInv, BeginCycle, OvertakenByThosePassed, Position
  <2>3. CASE j \notin found
    BY <2>1, <2>3 DEF BeginCycle, NotWaiting
  <2> QED BY <2>2, <2>3
<1>3. FileIsWhereTheSelectionEnds'
  BY DEF IInv, BeginCycle, FileIsWhereTheSelectionEnds
<1> QED BY <1>1, <1>2, <1>3 DEF IInv

LEMMA SaveCursorStep ==
  ASSUME IInv, TypeOK', SaveCursor
  PROVE  IInv'
<1>1. QueueComesFirst' /\ OvertakenByThosePassed'
  BY DEF IInv, SaveCursor, waiting, QueueComesFirst, OvertakenByThosePassed, Position, Before
<1>2. FileIsWhereTheSelectionEnds'
  <2>1. CASE queue = {} /\ UNCHANGED file
    BY <2>1 DEF IInv, SaveCursor, FileIsWhereTheSelectionEnds
  <2>2. ASSUME NEW j \in queue, IsLast(j, queue),
               IF j # cursor THEN WriteCursor(j) ELSE UNCHANGED file
        PROVE  FileIsWhereTheSelectionEnds'
    <3>1. file' = j
      BY <2>2 DEF WriteCursor, IInv, SaveCursor, FileIsWhereTheSelectionEnds
    <3> QED BY <2>2, <3>1 DEF SaveCursor, FileIsWhereTheSelectionEnds, IsLast, Before
  <2> QED BY <2>1, <2>2 DEF SaveCursor
<1> QED BY <1>1, <1>2 DEF IInv

LEMMA WorkStep ==
  ASSUME IInv, TypeOK', NEW i \in Jobs, Work(i)
  PROVE  IInv'
<1>1. /\ TypeOK /\ Jobs \subseteq Nat /\ cursor \in Nat /\ crashes \in Nat /\ found \subseteq Jobs
      /\ queue \subseteq Jobs /\ i \in queue /\ cursor' = i /\ queue' = queue \ {i}
      /\ pc = "working" /\ pc' = "working" /\ UNCHANGED <<file, found, crashes>>
  BY JobsAssumption, BoundsAssumption DEF IInv, TypeOK, Work, NoCursor, IsFirst
<1>2. \A j \in (found \cup queue) \ {i} : Before(cursor, i, j)
  BY <1>1 DEF IInv, Work, IsFirst, QueueComesFirst
<1>3. QueueComesFirst'
  <2> SUFFICES ASSUME NEW k \in queue \ {i}, NEW j \in found \ (queue \ {i}) PROVE Before(i, k, j)
    BY <1>1 DEF QueueComesFirst, Before
  <2>1. CASE j = i
    BY <2>1, <1>1, BeforeRotates
  <2>2. CASE j # i
    BY <2>2, <1>1, <1>2, BeforeRotates DEF IInv, QueueComesFirst
  <2> QED BY <2>1, <2>2
<1>4. OvertakenByThosePassed'
  <2> SUFFICES ASSUME NEW j \in found, NEW k \in Jobs
               PROVE  overtaken'[j][k] <= crashes + (IF Before(i, j, k) THEN 1 ELSE 0)
    BY <1>1 DEF OvertakenByThosePassed, Position, Before
  <2>1. overtaken[j] \in [Jobs -> Nat]
    BY <1>1, BoundsAssumption DEF TypeOK, MaxOvertaken
  <2>2. overtaken[j][k] <= crashes + (IF Before(cursor, j, k) THEN 1 ELSE 0)
    BY <1>1 DEF IInv, OvertakenByThosePassed, Position
  <2>3. CASE j = i
    BY <2>3, <1>1 DEF Work, NotWaiting
  <2>4. CASE j # i /\ k # i
    <3>1. overtaken'[j][k] = overtaken[j][k]
      BY <2>4, <2>1, <1>1 DEF Work
    <3>2. Before(cursor, j, k) => Before(i, j, k)
      BY <2>4, <1>1, <1>2, BeforeRotates
    <3> QED BY <3>1, <3>2, <2>2, <2>1, <1>1
  <2>5. CASE j # i /\ k = i
    <3>1. overtaken'[j][k] <= overtaken[j][k] + 1
      BY <2>5, <2>1, <1>1 DEF Work, Tick
    <3>2. ~ Before(cursor, j, k) /\ Before(i, j, k)
      BY <2>5, <1>1, <1>2, BeforeIsAnOrder, BeforeRotates
    <3>3. overtaken'[j][k] \in Nat
      BY <1>1, BoundsAssumption DEF TypeOK, MaxOvertaken
    <3> QED BY <3>1, <3>2, <3>3, <2>2, <2>1, <1>1
  <2> QED BY <2>3, <2>4, <2>5
<1>5. FileIsWhereTheSelectionEnds'
  <2>1. file \in queue /\ \A k \in queue \ {file} : Before(cursor, k, file)
    BY <1>1 DEF IInv, FileIsWhereTheSelectionEnds, IsLast
  <2>2. CASE file = i
    <3>1. queue \ {i} = {}
      BY <2>1, <2>2, <1>1, <1>2, BeforeIsAnOrder
    <3> QED BY <3>1, <2>2, <1>1 DEF FileIsWhereTheSelectionEnds
  <2>3. CASE file # i
    <3>1. \A k \in (queue \ {i}) \ {file} : Before(i, k, file)
      BY <2>1, <2>3, <1>1, <1>2, BeforeRotates
    <3> QED BY <3>1, <2>1, <2>3, <1>1 DEF FileIsWhereTheSelectionEnds, IsLast, Before
  <2> QED BY <2>2, <2>3
<1> QED BY <1>3, <1>4, <1>5 DEF IInv

LEMMA EndCycleStep ==
  ASSUME IInv, TypeOK', EndCycle
  PROVE  IInv'
BY DEF IInv, EndCycle, waiting, OvertakenByThosePassed, QueueComesFirst,
       FileIsWhereTheSelectionEnds, Position, Before, IsLast

\* A death skips what was selected and not worked: each job may be overtaken once
\* more by every other.
LEMMA CrashStep ==
  ASSUME IInv, TypeOK', Crash
  PROVE  IInv'
<1>1. OvertakenByThosePassed'
  <2> SUFFICES ASSUME NEW j \in found, NEW k \in Jobs
               PROVE  overtaken[j][k] <= crashes'
    BY BoundsAssumption DEF OvertakenByThosePassed, Crash, waiting, TypeOK
  <2>1. overtaken[j][k] \in Nat /\ crashes \in Nat /\ crashes' = crashes + 1
    BY BoundsAssumption DEF IInv, TypeOK, Crash, MaxOvertaken
  <2> QED BY <2>1 DEF IInv, OvertakenByThosePassed
<1>2. QueueComesFirst' /\ FileIsWhereTheSelectionEnds'
  BY DEF Crash, QueueComesFirst, FileIsWhereTheSelectionEnds
<1> QED BY <1>1, <1>2 DEF IInv

LEMMA StepIInv == IInv /\ [Next]_vars => IInv'
<1> SUFFICES ASSUME IInv, [Next]_vars PROVE IInv'
  OBVIOUS
<1>1. TypeOK'
  BY TypeStep DEF IInv
<1>2. CASE UNCHANGED <<file, process, waiting, crashes>>
  BY <1>1, <1>2, IdleStep
<1>3. CASE StartSupervisor \/ BeginCycle \/ SaveCursor \/ EndCycle \/ Crash
  BY <1>1, <1>3, StartStep, BeginCycleStep, SaveCursorStep, EndCycleStep, CrashStep
<1>4. ASSUME NEW i \in Jobs, Work(i) PROVE IInv'
  BY <1>1, <1>4, WorkStep
<1>5. ASSUME NEW j \in Jobs, StartJob(j) \/ ConcludeJob(j)
      PROVE  UNCHANGED <<file, process, waiting, crashes>>
  BY <1>5 DEF StartJob, ConcludeJob
<1>6. UNCHANGED vars => UNCHANGED <<file, process, waiting, crashes>>
  BY DEF vars
<1> QED BY <1>2, <1>3, <1>4, <1>5, <1>6 DEF Next, SupervisorStep

\* The supervisor's state is always well formed (the types of
\* src/corpus_supervisor.ts, and that a cycle counter stays within its bound).
THEOREM TypeCorrect == Spec => []TypeOK
<1>1. Init => TypeOK
  BY InitIInv DEF IInv
<1> QED BY <1>1, TypeStep, PTL DEF Spec

\* The rotation of selectFairJobs, resumed from the saved cursor, is fair for
\* any jobs and any limit: a waiting job is overtaken by no other more than once,
\* and once more for each death of the supervisor.
THEOREM RotationAlwaysFair == Spec => []RotationIsFair
<1>1. IInv => RotationIsFair
  <2> SUFFICES ASSUME IInv, NEW j \in found, NEW k \in Jobs
               PROVE  overtaken[j][k] <= 1 + crashes
    BY DEF RotationIsFair
  <2>1. overtaken[j][k] \in Nat /\ crashes \in Nat
    BY BoundsAssumption DEF IInv, TypeOK, MaxOvertaken
  <2> QED BY <2>1 DEF IInv, OvertakenByThosePassed
<1> QED BY <1>1, InitIInv, StepIInv, PTL DEF Spec

=============================================================================
