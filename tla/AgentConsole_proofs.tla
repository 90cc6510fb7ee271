-------------------------- MODULE AgentConsole_proofs --------------------------
(* Theorems about AgentConsole and AgentFiles, for every number of turns, replies, rules   *)
(* and bounds.                                                                             *)
EXTENDS AgentConsole, SequenceTheorems, FiniteSetTheorems, NaturalsInduction, WellFoundedInduction, TLAPS

\* What a turn keeps.
TurnState == [pc : Places, gate : Nat, left : Seq(Tools), aborted : BOOLEAN, reviewed : BOOLEAN,
              rounds : Nat, from : Nat, upto : Nat]

TypeInv ==
  /\ TypeOK
  /\ turn \in [Turns -> TurnState]
  /\ gates # <<>>

\* Places in which a turn has a call in hand.
AtCall == {"calls", "reviewing", "approval", "approved", "declined", "running", "requesting", "answered"}

\* A turn at a call has one, and its registry is one there has been.  A turn whose request is
\* pending or was granted has a rule that asks; a grant is the operator's answer to this very
\* call; the request shown is the one that an answer goes to, and its turn waits for it; an
\* approval for the session is one the operator gave for that registry.
CallOk(t) ==
  /\ turn[t].pc \in AtCall => turn[t].left # <<>>
  /\ turn[t].pc \in AtCall \cup {"waiting"} => turn[t].gate # 0
  /\ turn[t].pc \in {"approval", "approved"} => Calling(t) \in Tier2 /\ GateOf(t).rule[Calling(t)] = "ask"
  /\ turn[t].pc = "approved" => answered[t] \in {"once", "session"}

CallsInv == \A t \in Turns : CallOk(t)

ShownInv ==
  /\ resolver = approval
  /\ approval # 0 => turn[approval].pc = "approval"

SessionInv == \A g \in DOMAIN gates : \A tool \in gates[g].approved : <<g, tool>> \in told

ConsoleInv == TypeInv /\ CallsInv /\ ShownInv /\ SessionInv

-----------------------------------------------------------------------------
(* The files                                                               *)

\* A sequence with one more element has the elements it had and that one.
LEMMA AppendRange ==
  ASSUME NEW S, NEW s \in Seq(S), NEW x
  PROVE  Range(Append(s, x)) = Range(s) \cup {x}
<1>1. DOMAIN s = 1 .. Len(s) /\ Len(s) \in Nat
  OBVIOUS
<1>2. DOMAIN Append(s, x) = 1 .. Len(s) + 1 /\ Append(s, x)[Len(s) + 1] = x
      /\ \A i \in 1 .. Len(s) : Append(s, x)[i] = s[i]
  OBVIOUS
<1>3. 1 .. Len(s) + 1 = (1 .. Len(s)) \cup {Len(s) + 1}
  BY <1>1
<1> QED
  BY <1>1, <1>2, <1>3, Zenon DEF Range

\* A sequence over a set is one over a larger set.
LEMMA SeqGrows ==
  ASSUME NEW S, NEW T, S \subseteq T, NEW s \in Seq(S)
  PROVE  s \in Seq(T)
<1>1. Len(s) \in Nat /\ s = [i \in 1 .. Len(s) |-> s[i]] /\ \A i \in 1 .. Len(s) : s[i] \in T
  OBVIOUS
<1>2. [i \in 1 .. Len(s) |-> s[i]] \in Seq(T)
  BY <1>1
<1> QED
  BY <1>1, <1>2, Zenon

\* The files' part of the invariant.
FilesInv == FilesTypeOK /\ NothingIsLost

\* What the checkpoints and the redo points hold.
Contents == Range(saved) \cup Range(redo)

\* A checkpoint holds the file's content, unless it is not UTF-8.
LEMMA CheckpointKeeps ==
  ASSUME FilesTypeOK, file # 0, Checkpoint
  PROVE  /\ saved' \in Seq(1 .. written) /\ redo' \in Seq(0 .. written) /\ Len(redo') = Len(saved')
         /\ Contents \subseteq Contents'
         /\ file \in Contents' \/ (file = 2 /\ binary)
<1> USE DEF FilesTypeOK
<1>1. saved' = Append(saved, Decoded(file)) /\ redo' = Append(redo, 0)
      /\ Decoded(file) \in 1 .. written /\ (Decoded(file) = file \/ (file = 2 /\ binary))
  BY DEF Checkpoint, Decoded
<1>2. Range(saved') = Range(saved) \cup {Decoded(file)} /\ Range(redo') = Range(redo) \cup {0}
  BY <1>1, AppendRange
<1>3. saved' \in Seq(1 .. written) /\ redo' \in Seq(0 .. written) /\ Len(redo') = Len(saved')
  <2> HIDE DEF Decoded
  <2> QED
    BY <1>1
<1> QED
  BY <1>1, <1>2, <1>3 DEF Contents

\* A snapshot saves the file's content, or puts it on record as not saved.
LEMMA SnapshotKeeps ==
  ASSUME NEW ok, FilesTypeOK, Snapshot(ok)
  PROVE  /\ saved' \in Seq(1 .. written) /\ redo' \in Seq(0 .. written) /\ Len(redo') = Len(saved')
         /\ unsaved' \subseteq 1 .. written
         /\ Contents \cup unsaved \subseteq Contents' \cup unsaved'
         /\ file \in {0} \cup Contents' \cup unsaved' \/ (file = 2 /\ binary)
<1>1. CASE file # 0 /\ ok
  <2>1. Checkpoint /\ unsaved' = unsaved
    BY <1>1 DEF Snapshot
  <2> QED
    BY <1>1, <2>1, CheckpointKeeps DEF FilesTypeOK
<1>2. CASE ~(file # 0 /\ ok)
  <2>1. saved' = saved /\ redo' = redo /\ unsaved' = unsaved \cup ({file} \ {0})
    BY <1>2 DEF Snapshot
  <2>2. Contents' = Contents
    BY <2>1 DEF Contents
  <2> QED
    BY <2>1, <2>2 DEF FilesTypeOK
<1> QED
  BY <1>1, <1>2

\* The calls that change the file keep every content: a write,
LEMMA WriteKeeps ==
  ASSUME NEW ok, FilesInv, WriteFile(ok)
  PROVE  FilesInv'
<1>1. /\ saved' \in Seq(1 .. written) /\ redo' \in Seq(0 .. written) /\ Len(redo') = Len(saved')
      /\ unsaved' \subseteq 1 .. written
      /\ Contents \cup unsaved \subseteq Contents' \cup unsaved'
      /\ file \in {0} \cup Contents' \cup unsaved' \/ (file = 2 /\ binary)
  BY SnapshotKeeps DEF WriteFile, FilesInv
<1>2. /\ written \in Nat /\ written >= 2 /\ written' = written + 1 /\ file' = written + 1
      /\ spoiled' = spoiled /\ spoiled \in BOOLEAN /\ binary' = binary /\ binary \in BOOLEAN
  BY DEF FilesInv, FilesTypeOK, WriteFile
<1>3. 1 .. written \subseteq 1 .. written' /\ 0 .. written \subseteq 0 .. written'
  BY <1>2
<1>4. saved' \in Seq(1 .. written') /\ redo' \in Seq(0 .. written')
  BY <1>1, <1>3, SeqGrows
<1>5. FilesTypeOK'
  BY <1>1, <1>2, <1>3, <1>4 DEF FilesTypeOK
<1>6. NothingIsLost'
  BY <1>1, <1>2 DEF NothingIsLost, FilesInv, Contents
<1> QED
  BY <1>5, <1>6 DEF FilesInv

\* a deletion,
LEMMA DeleteKeeps ==
  ASSUME NEW ok, FilesInv, DeleteFile(ok)
  PROVE  FilesInv'
<1>1. /\ saved' \in Seq(1 .. written) /\ redo' \in Seq(0 .. written) /\ Len(redo') = Len(saved')
      /\ unsaved' \subseteq 1 .. written
      /\ Contents \cup unsaved \subseteq Contents' \cup unsaved'
      /\ file \in {0} \cup Contents' \cup unsaved' \/ (file = 2 /\ binary)
  BY SnapshotKeeps DEF DeleteFile, FilesInv
<1>2. /\ written \in Nat /\ written' = written /\ file' = 0 /\ spoiled' = spoiled /\ spoiled \in BOOLEAN
      /\ binary' = binary
  BY DEF FilesInv, FilesTypeOK, DeleteFile
<1>3. FilesTypeOK'
  BY <1>1, <1>2 DEF FilesTypeOK, FilesInv
<1>4. NothingIsLost'
  BY <1>1, <1>2 DEF NothingIsLost, FilesInv, Contents
<1> QED
  BY <1>3, <1>4 DEF FilesInv

\* a change that fails after its snapshot,
LEMMA ChangeFailsKeeps ==
  ASSUME NEW ok, FilesInv, ChangeFails(ok)
  PROVE  FilesInv'
<1>1. UNCHANGED <<file, binary, written, unsaved, spoiled>>
  BY DEF ChangeFails
<1>2. CASE file # 0 /\ ok
  <2>1. Checkpoint
    BY <1>2 DEF ChangeFails
  <2>2. /\ saved' \in Seq(1 .. written) /\ redo' \in Seq(0 .. written) /\ Len(redo') = Len(saved')
        /\ Contents \subseteq Contents'
    BY <1>2, <2>1, CheckpointKeeps DEF FilesInv
  <2>3. FilesTypeOK'
    BY <1>1, <2>2 DEF FilesTypeOK, FilesInv
  <2>4. NothingIsLost'
    BY <1>1, <2>2 DEF NothingIsLost, FilesInv, Contents
  <2> QED
    BY <2>3, <2>4 DEF FilesInv
<1>3. CASE ~(file # 0 /\ ok)
  BY <1>1, <1>3 DEF ChangeFails, FilesInv, FilesTypeOK, NothingIsLost
<1> QED
  BY <1>2, <1>3

\* an undo of the latest checkpoint, with a redo point or without one,
LEMMA UndoKeeps ==
  ASSUME NEW kept \in BOOLEAN, NEW restored \in BOOLEAN, FilesInv, Undo(kept, restored)
  PROVE  FilesInv'
<1> USE DEF FilesInv, FilesTypeOK
<1>1. Latest \in 1 .. Len(saved) /\ Latest \in DOMAIN redo /\ saved[Latest] \in 1 .. written
  BY DEF Undo, Latest
<1>2. saved' = saved /\ written' = written /\ binary' = binary /\ Decoded(file) \in 0 .. written
  BY DEF Undo, Decoded
<1>3. \/ redo' = redo /\ spoiled' = spoiled /\ ~(file # 0 /\ kept)
      \/ /\ redo' = [redo EXCEPT ![Latest] = Decoded(file)] /\ spoiled' = (spoiled \/ redo[Latest] # 0)
         /\ file # 0 /\ kept
  BY DEF Undo
<1>4. \/ file' = file /\ unsaved' = unsaved
      \/ /\ file' = saved[Latest]
         /\ unsaved' = IF kept THEN unsaved ELSE unsaved \cup ({file} \ {0})
  BY DEF Undo
<1>5. FilesTypeOK'
  <2>1. Decoded(file) \in 0 .. written /\ redo \in Seq(0 .. written) /\ Latest \in 1 .. Len(redo)
    BY <1>1, <1>2
  <2>2. redo' \in Seq(0 .. written) /\ Len(redo') = Len(redo)
    <3>1. CASE redo' = [redo EXCEPT ![Latest] = Decoded(file)]
      BY ONLY <3>1, <2>1, ExceptSeq
    <3>2. CASE redo' = redo
      BY <3>2, <2>1
    <3> QED
      BY <1>3, <3>1, <3>2
  <2>3. file' \in 0 .. written /\ unsaved' \subseteq 1 .. written
    <3>1. file \in 0 .. written /\ unsaved \subseteq 1 .. written /\ {file} \ {0} \subseteq 1 .. written
      OBVIOUS
    <3> QED
      BY ONLY <1>1, <1>4, <3>1, 1 .. written \subseteq 0 .. written
  <2>4. spoiled' \in BOOLEAN
    BY <1>3
  <2> QED
    BY <1>1, <1>2, <2>2, <2>3, <2>4
<1>6. ASSUME ~spoiled', NEW c \in 2 .. written', c # file', c \notin Range(saved'), c \notin unsaved',
             ~(c = 2 /\ binary')
      PROVE  c \in Range(redo')
  <2>1. ~spoiled /\ c \in 2 .. written /\ c \notin Range(saved) /\ ~(c = 2 /\ binary)
    BY <1>2, <1>3, <1>6
  <2>2. c \in {file} \cup Range(redo)
    BY <2>1, <1>4, <1>6 DEF NothingIsLost
  <2>3. CASE c = file
    <3>1. file # 0 /\ kept /\ Decoded(file) = c
      BY <2>1, <2>3, <1>4, <1>6 DEF Decoded
    <3>2. redo'[Latest] = c /\ Latest \in DOMAIN redo'
      BY <3>1, <1>1, <1>3
    <3> QED
      BY <3>2 DEF Range
  <2>4. CASE c \in Range(redo)
    <3>1. PICK i \in DOMAIN redo : c = redo[i]
      BY <2>4 DEF Range
    <3>2. redo' = redo \/ i # Latest
      BY <1>3, <1>6, <3>1, <2>1
    <3>3. i \in DOMAIN redo' /\ redo'[i] = c
      BY <3>1, <3>2, <1>3
    <3> QED
      BY <3>3 DEF Range
  <2> QED
    BY <2>2, <2>3, <2>4
<1>7. NothingIsLost'
  BY <1>6 DEF NothingIsLost
<1> QED
  BY <1>5, <1>7

\* and a rewind.
LEMMA RewindKeeps ==
  ASSUME NEW i \in DOMAIN saved, FilesInv, Rewind(i)
  PROVE  FilesInv'
<1>1. i \in DOMAIN redo /\ saved[i] \in 0 .. written /\ redo[i] \in 0 .. written
  BY DEF FilesInv, FilesTypeOK
<1> QED
  BY <1>1 DEF FilesInv, FilesTypeOK, Rewind, NothingIsLost

\* Hence every change of the file, and every step that leaves the file alone.
LEMMA FilesKept ==
  ASSUME FilesInv, [FilesNext]_fileVars
  PROVE  FilesInv'
<1>1. CASE UNCHANGED fileVars
  BY <1>1 DEF fileVars, FilesInv, FilesTypeOK, NothingIsLost
<1>2. CASE FilesNext
  BY <1>2, WriteKeeps, DeleteKeeps, ChangeFailsKeeps, UndoKeeps, RewindKeeps DEF FilesNext
<1> QED
  BY <1>1, <1>2

\* The files' initial state.
LEMMA FilesBegin == FilesInit => FilesInv
<1> SUFFICES ASSUME FilesInit PROVE FilesInv
  OBVIOUS
<1>1. 2 .. written = {file} /\ written = 2 /\ file = 2 /\ saved = <<>> /\ redo = <<>> /\ unsaved = {}
  BY DEF FilesInit
<1>2. FilesTypeOK
  <2>1. binary \in BOOLEAN /\ spoiled \in BOOLEAN
    BY BinaryAssumption DEF FilesInit
  <2>2. saved \in Seq(1 .. written) /\ redo \in Seq(0 .. written) /\ Len(redo) = Len(saved)
    BY <1>1
  <2> QED
    BY <1>1, <2>1, <2>2 DEF FilesTypeOK
<1>3. NothingIsLost
  BY <1>1 DEF NothingIsLost
<1> QED
  BY <1>2, <1>3 DEF FilesInv

-----------------------------------------------------------------------------
(* The steps of a turn                                                     *)

\* What a turn at a call does before it waits again.
CallStep(t) == Call(t) \/ Reviewed(t) \/ Approved(t) \/ Continue(t) \/ CommandEnds(t)

\* A tier-2 tool starts when the gate lets it.
Permitted(t) ==
  /\ ~turn[t].aborted /\ Calling(t) \in Tier2
  /\ Allowed(t) \/ turn[t].pc = "approved"

LEMMA CallSteps ==
  ASSUME NEW t \in Turns, CallStep(t), turn[t].pc = "approved" => Calling(t) \in Tier2
  PROVE  /\ turn[t].pc \in AtCall \ {"approval", "requesting"}
         /\ Silent
         /\ \/ Ends(t, "failed") /\ UNCHANGED <<history, answered, faults, fileVars>>
            \/ Awaits(t, "reviewing") /\ UNCHANGED <<consoleVars, faults, fileVars>>
            \/ Awaits(t, "requesting") /\ UNCHANGED <<consoleVars, faults, fileVars>>
            \/ Refused(t)
            \/ Perform(t) /\ Permitted(t)
            \/ /\ Request(t) /\ UNCHANGED <<faults, fileVars>>
               /\ Calling(t) \in Tier2 /\ ~Denied(t) /\ GateOf(t).rule[Calling(t)] # "allow"
<1> USE DEF AtCall, CallStep, CallServer, Permitted, Refused
<1>1. CASE Call(t)
  BY <1>1 DEF Call, Execute, Allowed
<1>2. CASE Reviewed(t)
  BY <1>2 DEF Reviewed, Execute, Allowed
<1>3. CASE Approved(t)
  BY <1>3 DEF Approved
<1>4. CASE Continue(t)
  BY <1>4 DEF Continue
<1>5. CASE CommandEnds(t)
  BY <1>5 DEF CommandEnds
<1> QED
  BY <1>1, <1>2, <1>3, <1>4, <1>5

\* What a tool performs: the file changes and the result is there, or a command runs.
LEMMA Performs ==
  ASSUME NEW t \in Turns, Perform(t)
  PROVE  /\ Result(t) \/ (Awaits(t, "running") /\ UNCHANGED consoleVars)
         /\ UNCHANGED fileVars \/ \E ok \in BOOLEAN : WriteFile(ok) \/ DeleteFile(ok) \/ ChangeFails(ok)
  BY DEF Perform

\* No other step touches the file.
LEMMA StepFiles ==
  ASSUME [Next]_vars, \A t \in Turns : turn[t].pc = "approved" => Calling(t) \in Tier2
  PROVE  [FilesNext]_fileVars
<1>1. ASSUME NEW t \in Turns, CallStep(t) PROVE [FilesNext]_fileVars
  BY <1>1, CallSteps, Performs DEF Refused, FilesNext
<1>2. CASE UndoCommand
  BY <1>2 DEF UndoCommand, FilesNext
<1>3. ASSUME NEW i \in DOMAIN saved, RewindCommand(i) PROVE FilesNext
  BY <1>3 DEF RewindCommand, FilesNext
<1> QED
  BY <1>1, <1>2, <1>3
     DEF Next, TurnStep, Answers, Operator, CallStep, Reply, StreamFails, PairEnds, ServerAnswers, Answer, Submit,
         Interrupt, Permit, Exit, McpAdd, McpRemove, McpConnected, McpFails, ChildError, Disconnected, ServerExits,
         vars

\* Only turn t goes on.
Moves(t) ==
  /\ turn' \in [Turns -> TurnState]
  /\ \A r \in Turns \ {t} : turn'[r] = turn[r] /\ answered'[r] = answered[r]
  /\ turn'[t].gate \in {turn[t].gate, 0, Len(gates)}

\* A turn that ends is a new one but for its place.
LEMMA EndsMoves ==
  ASSUME turn \in [Turns -> TurnState], NEW t \in Turns, NEW how \in Ended, Ends(t, how)
  PROVE  /\ turn' \in [Turns -> TurnState] /\ \A r \in Turns \ {t} : turn'[r] = turn[r]
         /\ turn'[t] = [NewTurn EXCEPT !.pc = how] /\ turn'[t].gate = 0
         /\ UNCHANGED <<approval, resolver, mode>>
<1>1. [NewTurn EXCEPT !.pc = how] \in TurnState
  <2>1. NewTurn \in TurnState
    BY DEF NewTurn, TurnState, Places
  <2>2. how \in Places
    BY DEF Places, Ended
  <2> HIDE DEF NewTurn
  <2> QED
    BY <2>1, <2>2 DEF TurnState
<1>2. turn' = [turn EXCEPT ![t] = [NewTurn EXCEPT !.pc = how]]
  BY DEF Ends
<1>3. [NewTurn EXCEPT !.pc = how].gate = 0
  BY DEF NewTurn
<1> HIDE DEF NewTurn
<1> QED
  BY <1>1, <1>2, <1>3 DEF Ends

LEMMA TailType ==
  ASSUME NEW s \in Seq(Tools), s # <<>>
  PROVE  Head(s) \in Tools /\ Tail(s) \in Seq(Tools)
  OBVIOUS

\* A turn that stores a result goes on with the next call, waits for the model, or fails.
LEMMA ResultMoves ==
  ASSUME turn \in [Turns -> TurnState], answered \in [Turns -> {"none", "once", "session", "decline"}],
         NEW t \in Turns, turn[t].left # <<>>, Result(t)
  PROVE  /\ Moves(t)
         /\ UNCHANGED <<approval, resolver, mode>>
         /\ answered' = [answered EXCEPT ![t] = "none"]
         /\ \/ turn'[t] = [NewTurn EXCEPT !.pc = "failed"]
            \/ /\ turn'[t].pc = IF Tail(turn[t].left) = <<>> THEN "waiting" ELSE "calls"
               /\ turn'[t].left = Tail(turn[t].left) /\ turn'[t].gate = turn[t].gate
<1>1. answered' = [answered EXCEPT ![t] = "none"]
  BY DEF Result
<1>2. CASE turn[t].aborted
  <2>1. Ends(t, "failed")
    BY <1>2 DEF Result
  <2> QED
    BY <1>1, <2>1, EndsMoves DEF Moves, Ended
<1>3. CASE ~turn[t].aborted
  <2>1. turn' = [turn EXCEPT ![t].left = Tail(turn[t].left),
                             ![t].pc = IF Tail(turn[t].left) = <<>> THEN "waiting" ELSE "calls"]
        /\ UNCHANGED consoleVars
    BY <1>3 DEF Result
  <2>2. turn[t] \in TurnState /\ Tail(turn[t].left) \in Seq(Tools)
    BY TailType DEF TurnState
  <2> DEFINE place == IF Tail(turn[t].left) = <<>> THEN "waiting" ELSE "calls"
  <2>3. place \in Places
    BY DEF Places
  <2> HIDE DEF place
  <2>4. [turn[t] EXCEPT !.left = Tail(turn[t].left), !.pc = place] \in TurnState
    BY <2>2, <2>3 DEF TurnState
  <2>5. turn' = [turn EXCEPT ![t] = [turn[t] EXCEPT !.left = Tail(turn[t].left), !.pc = place]]
    BY <2>1 DEF place
  <2>6. /\ turn' \in [Turns -> TurnState] /\ \A r \in Turns \ {t} : turn'[r] = turn[r]
        /\ turn'[t] = [turn[t] EXCEPT !.left = Tail(turn[t].left), !.pc = place]
    BY <2>4, <2>5
  <2>7. turn'[t].pc = place /\ turn'[t].left = Tail(turn[t].left) /\ turn'[t].gate = turn[t].gate
    BY <2>2, <2>6 DEF TurnState
  <2> QED
    BY <1>1, <2>1, <2>6, <2>7 DEF Moves, place, consoleVars
<1> QED
  BY <1>2, <1>3

\* A turn that waits keeps its calls and its registry.
LEMMA AwaitsMoves ==
  ASSUME turn \in [Turns -> TurnState], NEW t \in Turns, NEW place \in Places,
         turn' = [turn EXCEPT ![t].pc = place]
  PROVE  /\ turn' \in [Turns -> TurnState] /\ \A r \in Turns \ {t} : turn'[r] = turn[r]
         /\ turn'[t].pc = place /\ turn'[t].left = turn[t].left /\ turn'[t].gate = turn[t].gate
  BY DEF TurnState

\* A step leaves the registries with the rules they have, or finds no turn at a call.
GatesKept ==
  \/ \A g \in DOMAIN gates : g \in DOMAIN gates' /\ gates'[g].rule = gates[g].rule
  \/ \A t \in Turns : turn[t].pc \notin AtCall

\* A turn that does not move is still in order.
LEMMA OthersOk ==
  ASSUME TypeInv, GatesKept, NEW t \in Turns, CallOk(t), turn'[t] = turn[t], answered'[t] = answered[t]
  PROVE  CallOk(t)'
<1>1. turn[t].gate # 0 => turn[t].gate \in DOMAIN gates
  BY DEF TypeInv, TypeOK
<1> QED
  BY <1>1 DEF CallOk, GatesKept, Calling, GateOf, AtCall

\* A turn that is not about to ask or granted is in order if it has its call and its registry.
LEMMA PlaceOk ==
  ASSUME NEW t \in Turns, turn'[t].pc \notin {"approval", "approved"},
         turn'[t].pc \in AtCall => turn'[t].left # <<>>,
         turn'[t].pc \in AtCall \cup {"waiting"} => turn'[t].gate # 0
  PROVE  CallOk(t)'
  BY DEF CallOk

LEMMA EndedTurn ==
  ASSUME NEW how
  PROVE  [NewTurn EXCEPT !.pc = how].pc = how
  BY DEF NewTurn

\* Where a turn that moves leaves the request that is shown.
ShownAfter(t) ==
  \/ approval' = approval /\ resolver' = resolver
  \/ approval' = resolver' /\ (approval' = 0 \/ (approval' = t /\ turn'[t].pc = "approval"))

\* When one turn moves, to a state in order, the request shown is still its turn's.
LEMMA MovesKeep ==
  ASSUME ConsoleInv, GatesKept, NEW t \in Turns, turn[t].pc # "approval",
         Moves(t), CallOk(t)', ShownAfter(t)
  PROVE  CallsInv' /\ ShownInv'
<1>1. ASSUME NEW r \in Turns, r # t PROVE CallOk(r)'
  BY <1>1, OthersOk DEF Moves, ConsoleInv, CallsInv
<1>2. CallsInv'
  BY <1>1 DEF CallsInv
<1>3. approval # 0 => approval \in Turns \ {t}
  BY DEF ConsoleInv, ShownInv, TypeInv, TypeOK
<1>4. ShownInv'
  BY <1>3 DEF ConsoleInv, ShownInv, ShownAfter, Moves
<1> QED
  BY <1>2, <1>4

\* Every step of a turn at a call is such a move.
LEMMA CallStepMoves ==
  ASSUME ConsoleInv, NEW t \in Turns, CallStep(t)
  PROVE  Moves(t) /\ CallOk(t)' /\ ShownAfter(t)
<1>0. /\ turn \in [Turns -> TurnState] /\ turn[t] \in TurnState
      /\ answered \in [Turns -> {"none", "once", "session", "decline"}]
  BY DEF ConsoleInv, TypeInv, TypeOK
<1>1. turn[t].pc \in AtCall \ {"approval", "requesting"} /\ Silent
  BY CallSteps DEF ConsoleInv, CallsInv, CallOk
<1>2. turn[t].left # <<>> /\ turn[t].gate # 0 /\ CallOk(t)
  BY <1>1 DEF ConsoleInv, CallsInv, CallOk
<1>3. ASSUME Ends(t, "failed"), UNCHANGED answered PROVE Moves(t) /\ CallOk(t)' /\ ShownAfter(t)
  <2>1. turn'[t].pc = "failed" /\ Moves(t) /\ UNCHANGED <<approval, resolver>>
    BY <1>0, <1>3, EndsMoves, EndedTurn DEF Ended, Moves
  <2> QED
    BY <2>1, PlaceOk DEF ShownAfter, AtCall
<1>4. ASSUME Result(t) PROVE Moves(t) /\ CallOk(t)' /\ ShownAfter(t)
  <2>1. /\ Moves(t) /\ UNCHANGED <<approval, resolver>>
        /\ turn'[t].pc \in {"failed", "waiting", "calls"}
        /\ turn'[t].pc = "calls" => turn'[t].left # <<>>
        /\ turn'[t].pc # "failed" => turn'[t].gate # 0
    <3>1. [NewTurn EXCEPT !.pc = "failed"].pc = "failed"
      BY EndedTurn
    <3>2. /\ Moves(t) /\ UNCHANGED <<approval, resolver>>
          /\ \/ turn'[t] = [NewTurn EXCEPT !.pc = "failed"]
             \/ /\ turn'[t].pc = IF Tail(turn[t].left) = <<>> THEN "waiting" ELSE "calls"
                /\ turn'[t].left = Tail(turn[t].left) /\ turn'[t].gate = turn[t].gate
      BY <1>0, <1>2, <1>4, ResultMoves
    <3> HIDE DEF NewTurn
    <3> QED
      BY <3>1, <3>2, <1>2
  <2> QED
    BY <2>1, PlaceOk DEF ShownAfter, AtCall
<1>5. ASSUME NEW place \in AtCall \ {"approval", "approved"}, Awaits(t, place), UNCHANGED consoleVars
      PROVE  Moves(t) /\ CallOk(t)' /\ ShownAfter(t)
  <2>1. place \in Places
    BY DEF AtCall, Places
  <2>2. Moves(t) /\ turn'[t].pc = place /\ turn'[t].left = turn[t].left /\ turn'[t].gate = turn[t].gate
    BY <1>0, <1>5, <2>1, AwaitsMoves DEF Awaits, Moves
  <2> QED
    BY <2>2, <1>2, <1>5, PlaceOk DEF ShownAfter, consoleVars
<1>6. ASSUME Request(t), Calling(t) \in Tier2, ~Denied(t), GateOf(t).rule[Calling(t)] # "allow"
      PROVE  Moves(t) /\ CallOk(t)' /\ ShownAfter(t)
  <2> DEFINE place == IF mode = "piped" THEN "declined" ELSE "approval"
  <2>1. place \in {"declined", "approval"} /\ place \in Places /\ turn' = [turn EXCEPT ![t].pc = place]
    BY <1>6 DEF Request, Places
  <2>2. UNCHANGED answered /\ UNCHANGED gates
    BY <1>1, <1>6 DEF Request, Silent
  <2>3. resolver' = approval' /\ (approval' = 0 \/ (approval' = t /\ place = "approval"))
    BY <1>6 DEF Request
  <2> HIDE DEF place
  <2>4. Moves(t) /\ turn'[t].pc = place /\ turn'[t].left = turn[t].left /\ turn'[t].gate = turn[t].gate
    BY <1>0, <2>1, <2>2, AwaitsMoves DEF Moves
  <2>5. GateOf(t).rule[Calling(t)] = "ask"
    <3>1. turn[t].gate \in DOMAIN gates /\ gates[turn[t].gate] \in Gate
      BY <1>2 DEF ConsoleInv, TypeInv, TypeOK
    <3>2. GateOf(t).rule \in [Tier2 -> Actions]
      BY <3>1 DEF GateOf, Gate
    <3> QED
      BY <3>2, <1>6 DEF Denied, Actions
  <2>6. Calling(t)' = Calling(t) /\ GateOf(t)' = GateOf(t)
    BY <2>2, <2>4 DEF Calling, GateOf
  <2>7. CallOk(t)'
    BY <1>2, <1>6, <2>1, <2>4, <2>5, <2>6 DEF CallOk
  <2> QED
    BY <2>3, <2>4, <2>7 DEF ShownAfter
<1> QED
  <2>1. turn[t].pc = "approved" => Calling(t) \in Tier2
    BY <1>2 DEF CallOk
  <2> QED
    BY <2>1, CallSteps, Performs, <1>3, <1>4, <1>5, <1>6 DEF Refused, AtCall

-----------------------------------------------------------------------------
(* The other steps of the turns                                            *)

\* A nonempty set of naturals has a least member.
LEMMA LeastNatural ==
  ASSUME NEW B, B \subseteq Nat, B # {}
  PROVE  \E n \in B : \A m \in B : n <= m
<1>1. PICK n \in B : \A m \in B : <<m, n>> \notin OpToRel(<, Nat)
  BY NatLessThanWellFounded, WFMin, Zenon
<1>2. \A j, m \in Nat : j < m => <<j, m>> \in OpToRel(<, Nat)
  <2> TAKE j, m \in Nat
  <2> HAVE j < m
  <2>1. <<j, m>> \in Nat \X Nat /\ <<j, m>>[1] < <<j, m>>[2]
    OBVIOUS
  <2> QED
    BY <2>1, Zenon DEF OpToRel
<1>3. \A m \in B : ~(m < n)
  BY <1>1, <1>2, Zenon
<1> QED
  BY <1>3

\* A bounded set of numbers has a greatest.
LEMMA LastIn ==
  ASSUME NEW n \in Nat, NEW some, some \subseteq 0 .. n, some # {}
  PROVE  Max(some) \in some
<1> DEFINE gaps == {k \in 0 .. n : n - k \in some}
<1>1. gaps \subseteq Nat /\ gaps # {}
  <2>1. PICK i \in some : TRUE
    OBVIOUS
  <2>2. n - i \in gaps
    BY <2>1
  <2> QED
    BY <2>2
<1>2. PICK k \in gaps : \A m \in gaps : k <= m
  <2> HIDE DEF gaps
  <2> QED
    BY <1>1, LeastNatural
<1>3. n - k \in some /\ \A i \in some : n - k >= i
  <2>1. k \in 0 .. n /\ n - k \in some
    OBVIOUS
  <2>2. ASSUME NEW i \in some PROVE n - k >= i
    <3>1. n - i \in gaps
      OBVIOUS
    <3> QED
      BY <3>1, <2>1, <1>2
  <2> QED
    BY <2>1, <2>2
<1> QED
  BY <1>3 DEF Max

\* The history that is sent begins with a message of a user, or with the conversation.
LEMMA HistoryStartIs ==
  ASSUME NEW messages \in Seq(Message)
  PROVE  /\ HistoryStart(messages) \in 1 .. Len(messages) + 1
         /\ messages # <<>> => HistoryStart(messages) \in 1 .. Len(messages)
         /\ HistoryStart(messages) = 1 \/ messages[HistoryStart(messages)].role = "user"
<1> DEFINE start == Max({1, Len(messages) + 1 - Recent})
           users == {i \in 1 .. start : messages[i].role = "user"}
<1>1. Len(messages) \in Nat /\ (messages # <<>> => Len(messages) # 0) /\ Recent \in Nat \ {0}
  BY BoundsAssumption
<1>2. start \in {1, Len(messages) + 1 - Recent} /\ start >= 1
  <2>1. \E x \in {1, Len(messages) + 1 - Recent} : \A y \in {1, Len(messages) + 1 - Recent} : x >= y
    BY <1>1
  <2> HIDE DEF start
  <2> QED
    BY <2>1 DEF Max, start
<1>3. start \in 1 .. Len(messages) + 1 /\ (messages # <<>> => start \in 1 .. Len(messages))
  BY <1>1, <1>2
<1>4. Max(users \cup {1}) \in users \cup {1}
  <2>1. users \cup {1} \subseteq 0 .. Len(messages) + 1 /\ users \cup {1} # {} /\ Len(messages) + 1 \in Nat
    BY <1>1, <1>3
  <2> HIDE DEF users
  <2> QED
    BY <2>1, LastIn
<1>5. HistoryStart(messages) = IF start = 1 THEN 1 ELSE Max(users \cup {1})
  BY DEF HistoryStart
<1> HIDE DEF start
<1>6. HistoryStart(messages) \in users \cup {1}
  BY <1>4, <1>5
<1> QED
  BY <1>1, <1>3, <1>6

-----------------------------------------------------------------------------
(* The registries                                                          *)

\* A registry with one field changed is a registry.
LEMMA GateEdits ==
  ASSUME NEW gate \in Gate
  PROVE  /\ \A tool \in Tier2 : [gate EXCEPT !.approved = @ \cup {tool}] \in Gate
         /\ \A on \in BOOLEAN : [gate EXCEPT !.mcp = on] \in Gate
         /\ \A rule \in [Tier2 -> Actions] : [gate EXCEPT !.rule = rule] \in Gate
         /\ \A tool \in Tier2, action \in Actions : [gate.rule EXCEPT ![tool] = action] \in [Tier2 -> Actions]
         /\ \A tool : [gate EXCEPT !.approved = @ \cup {tool}].rule = gate.rule
         /\ \A tool : [gate EXCEPT !.approved = @ \cup {tool}].approved = gate.approved \cup {tool}
         /\ \A on : [gate EXCEPT !.mcp = on].rule = gate.rule /\ [gate EXCEPT !.mcp = on].approved = gate.approved
         /\ \A rule : [gate EXCEPT !.rule = rule].approved = gate.approved
<1> HIDE DEF Tier2, Actions
<1> QED
  BY DEF Gate

\* A new registry has no approvals.
LEMMA NewGateIs ==
  ASSUME NEW rule \in [Tier2 -> Actions]
  PROVE  NewGate(rule) \in Gate /\ NewGate(rule).approved = {}
<1> HIDE DEF Tier2, Actions
<1> QED
  BY DEF NewGate, Gate

\* A sequence with one element changed.
LEMMA Edited ==
  ASSUME NEW S, NEW s \in Seq(S), NEW i \in 1 .. Len(s), NEW e \in S
  PROVE  /\ [s EXCEPT ![i] = e] \in Seq(S) /\ Len([s EXCEPT ![i] = e]) = Len(s)
         /\ DOMAIN [s EXCEPT ![i] = e] = 1 .. Len(s)
         /\ \A h \in 1 .. Len(s) : [s EXCEPT ![i] = e][h] = IF h = i THEN e ELSE s[h]
  BY ExceptSeq

\* The registries keep the rules a turn at a call reads, and their approvals are the operator's.
LEMMA StepGates ==
  ASSUME ConsoleInv, [Next]_vars
  PROVE  gates' \in Seq(Gate) /\ Len(gates) <= Len(gates') /\ GatesKept /\ SessionInv'
<1>0. gates \in Seq(Gate) /\ gates # <<>> /\ Len(gates) \in 1 .. Len(gates) /\ DOMAIN gates = 1 .. Len(gates)
      /\ \A g \in 1 .. Len(gates) : gates[g] \in Gate
  BY DEF ConsoleInv, TypeInv, TypeOK
<1>1. ASSUME UNCHANGED <<gates, told>>
      PROVE  gates' \in Seq(Gate) /\ Len(gates) <= Len(gates') /\ GatesKept /\ SessionInv'
  BY <1>0, <1>1 DEF GatesKept, SessionInv, ConsoleInv
<1>2. ASSUME NEW g \in 1 .. Len(gates), NEW gate \in Gate, gates' = [gates EXCEPT ![g] = gate],
             gate.rule = gates[g].rule /\ \A tool \in gate.approved : <<g, tool>> \in told',
             told \subseteq told'
      PROVE  gates' \in Seq(Gate) /\ Len(gates) <= Len(gates') /\ GatesKept /\ SessionInv'
  <2>1. gates' \in Seq(Gate) /\ Len(gates') = Len(gates) /\ DOMAIN gates' = 1 .. Len(gates)
        /\ \A h \in 1 .. Len(gates) : gates'[h] = IF h = g THEN gate ELSE gates[h]
    BY ONLY <1>0, <1>2, Edited
  <2>2. GatesKept
    BY <1>0, <1>2, <2>1 DEF GatesKept
  <2>3. ASSUME NEW h \in 1 .. Len(gates), NEW tool \in gates'[h].approved PROVE <<h, tool>> \in told'
    <3>1. CASE h = g
      BY <3>1, <2>1, <2>3, <1>2
    <3>2. CASE h # g
      <4>1. tool \in gates[h].approved
        BY <3>2, <2>1, <2>3
      <4> QED
        BY <4>1, <1>0, <1>2 DEF ConsoleInv, SessionInv
    <3> QED
      BY <3>1, <3>2
  <2>4. SessionInv'
    BY <2>1, <2>3 DEF SessionInv
  <2> QED
    BY <1>0, <2>1, <2>2, <2>4
<1>3. ASSUME NEW choice, Answer(choice)
      PROVE  gates' \in Seq(Gate) /\ Len(gates) <= Len(gates') /\ GatesKept /\ SessionInv'
  <2>1. CASE choice # "session"
    BY <2>1, <1>3, <1>1 DEF Answer
  <2>2. CASE choice = "session"
    <3>1. /\ approval = resolver /\ approval \in Turns /\ Calling(approval) \in Tier2
          /\ turn[approval].gate \in 1 .. Len(gates)
      BY <1>3 DEF Answer, ConsoleInv, ShownInv, CallsInv, CallOk, TypeInv, TypeOK, AtCall
    <3> DEFINE g == turn[approval].gate
               gate == [gates[g] EXCEPT !.approved = @ \cup {Calling(approval)}]
    <3>2. gates' = [gates EXCEPT ![g] = gate] /\ told' = told \cup {<<g, Calling(approval)>>}
      BY <3>1, <2>2, <1>3 DEF Answer
    <3>3. /\ gate \in Gate /\ gate.rule = gates[g].rule
          /\ gate.approved = gates[g].approved \cup {Calling(approval)}
      <4>1. gates[g] \in Gate
        BY <3>1, <1>0
      <4> HIDE DEF g
      <4> QED
        BY <3>1, <4>1, GateEdits
    <3>4. \A tool \in gate.approved : <<g, tool>> \in told'
      BY <3>1, <3>2, <3>3, <1>0 DEF ConsoleInv, SessionInv
    <3> HIDE DEF g, gate
    <3> QED
      <4>1. g \in 1 .. Len(gates) /\ told \subseteq told'
        BY <3>1, <3>2 DEF g
      <4> QED
        BY <4>1, <3>2, <3>3, <3>4, <1>2
  <2> QED
    BY <2>1, <2>2
<1>4. ASSUME NEW tool \in Tier2, NEW action \in Actions, Permit(tool, action)
      PROVE  gates' \in Seq(Gate) /\ Len(gates) <= Len(gates') /\ GatesKept /\ SessionInv'
  <2> DEFINE rule == [Last(gates).rule EXCEPT ![tool] = action]
  <2>1. Last(gates) = gates[Len(gates)]
    BY DEF Last
  <2>2. rule \in [Tier2 -> Actions]
    BY <2>1, <1>0, GateEdits
  <2>3. told' = told /\ \/ mode = "tui" /\ gates' = Append(gates, NewGate(rule))
                        \/ mode # "tui" /\ gates' = [gates EXCEPT ![Len(gates)].rule = rule]
    BY <1>4 DEF Permit, ghostVars
  <2> HIDE DEF rule
  <2>4. CASE mode = "tui"
    <3>1. gates' \in Seq(Gate) /\ Len(gates') = Len(gates) + 1 /\ DOMAIN gates' = 1 .. Len(gates) + 1
          /\ gates'[Len(gates) + 1] = NewGate(rule) /\ \A h \in 1 .. Len(gates) : gates'[h] = gates[h]
      <4>1. NewGate(rule) \in Gate /\ gates' = Append(gates, NewGate(rule))
        BY <2>2, <2>3, <2>4, NewGateIs
      <4> HIDE DEF NewGate
      <4> QED
        BY <4>1, <1>0
    <3>2. NewGate(rule).approved = {}
      BY <2>2, NewGateIs
    <3> HIDE DEF NewGate
    <3>3. GatesKept
      BY <3>1, <1>0 DEF GatesKept
    <3>5. ASSUME NEW h \in 1 .. Len(gates) + 1, NEW x \in gates'[h].approved PROVE <<h, x>> \in told'
      <4>1. h # Len(gates) + 1
        BY ONLY <3>1, <3>2, <3>5
      <4>2. h \in DOMAIN gates /\ gates'[h] = gates[h]
        BY <4>1, <3>1, <1>0
      <4> QED
        BY <4>2, <3>5, <2>3 DEF SessionInv, ConsoleInv
    <3>4. SessionInv'
      BY <3>1, <3>5 DEF SessionInv
    <3> QED
      BY <3>1, <3>3, <3>4, <1>0
  <2>5. CASE mode # "tui"
    <3>1. \A t \in Turns : turn[t].pc \notin AtCall
      BY <2>5, <1>4 DEF Permit, Command, Prompt, MaySubmit, AllEnded, Ended, AtCall
    <3> DEFINE gate == [gates[Len(gates)] EXCEPT !.rule = rule]
    <3>2. gates' = [gates EXCEPT ![Len(gates)] = gate]
      BY <2>3, <2>5
    <3>3. gate \in Gate /\ gate.approved = gates[Len(gates)].approved
      <4>1. gates[Len(gates)] \in Gate
        BY <1>0
      <4> QED
        BY <4>1, <2>2, GateEdits
    <3> HIDE DEF gate
    <3>4. gates' \in Seq(Gate) /\ Len(gates') = Len(gates) /\ DOMAIN gates' = 1 .. Len(gates)
          /\ \A h \in 1 .. Len(gates) : gates'[h] = IF h = Len(gates) THEN gate ELSE gates[h]
      BY ONLY <1>0, <3>2, <3>3, Edited
    <3>5. \A h \in 1 .. Len(gates) : gates'[h].approved = gates[h].approved
      BY <3>3, <3>4
    <3>6. SessionInv'
      BY <3>4, <3>5, <2>3, <1>0 DEF SessionInv, ConsoleInv
    <3>7. GatesKept
      BY <3>1, Zenon DEF GatesKept
    <3>8. Len(gates) <= Len(gates')
      <4>1. Len(gates') = Len(gates)
        BY <3>4
      <4>2. Len(gates) \in Int
        BY <1>0
      <4> QED
        BY ONLY <4>1, <4>2
    <3> QED
      BY <3>4, <3>6, <3>7, <3>8, Zenon
  <2> QED
    BY <2>4, <2>5
<1>5. ASSUME McpConnected \/ McpRemove
      PROVE  gates' \in Seq(Gate) /\ Len(gates) <= Len(gates') /\ GatesKept /\ SessionInv'
  <2>1. PICK g \in 0 .. Len(gates), on \in BOOLEAN : gates' = [gates EXCEPT ![g].mcp = on] /\ told' = told
    <3>1. CASE McpConnected
      BY <3>1 DEF McpConnected, ghostVars, ConsoleInv, TypeInv, TypeOK
    <3>2. CASE McpRemove
      <4>1. gates' = [gates EXCEPT ![Len(gates)].mcp = FALSE] /\ told' = told
        BY <3>2 DEF McpRemove, ghostVars
      <4>2. Len(gates) \in 0 .. Len(gates) /\ FALSE \in BOOLEAN
        BY <1>0
      <4> QED
        BY <4>1, <4>2, Zenon
    <3> QED
      BY <1>5, <3>1, <3>2
  <2>2. CASE g = 0
    <3>1. gates' = gates
      BY <2>1, <2>2, <1>0
    <3> QED
      BY <3>1, <2>1, <1>1
  <2>3. CASE g # 0
    <3> DEFINE gate == [gates[g] EXCEPT !.mcp = on]
    <3>1. gates[g] \in Gate
      BY <2>3, <1>0
    <3>2. gate \in Gate /\ gate.rule = gates[g].rule /\ gate.approved = gates[g].approved
      BY <3>1, GateEdits
    <3>3. gates' = [gates EXCEPT ![g] = gate]
      BY <2>1
    <3>4. \A tool \in gate.approved : <<g, tool>> \in told'
      BY <3>2, <2>1, <2>3, <1>0 DEF ConsoleInv, SessionInv
    <3>5. g \in 1 .. Len(gates) /\ told \subseteq told'
      BY <2>1, <2>3, <1>0
    <3> HIDE DEF gate
    <3> QED
      BY <3>5, <3>2, <3>3, <3>4, <1>2
  <2> QED
    BY <2>2, <2>3
<1> QED
  <2>1. \A t \in Turns : turn[t].pc = "approved" => Calling(t) \in Tier2
    BY DEF ConsoleInv, CallsInv, CallOk
  <2>2. ASSUME NEW t \in Turns, CallStep(t) PROVE UNCHANGED <<gates, told>>
    BY <2>1, <2>2, CallSteps DEF Silent
  <2>3. ASSUME NEW rule \in Rules PROVE rule[1] \in Tier2 /\ rule[2] \in Actions
    BY RulesAssumption DEF Actions
  <2> QED
    BY <2>2, <2>3, <1>1, <1>3, <1>4, <1>5
       DEF Next, TurnStep, Answers, Operator, CallStep, Silent, Reply, StreamFails, PairEnds, ServerAnswers, Submit,
           Interrupt, RewindCommand, UndoCommand, Exit, McpAdd, McpFails, ChildError, Disconnected, ServerExits,
           vars, ghostVars

-----------------------------------------------------------------------------
(* The turns and the request that is shown                                 *)

\* No turn has the number that stands for none.
LEMMA TurnsNotZero == 0 \notin Turns
  BY TurnsAssumption, FS_CardinalityType

\* The turns stay in order, and so does the request that is shown.
LEMMA StepCalls ==
  ASSUME ConsoleInv, [Next]_vars
  PROVE  /\ turn' \in [Turns -> TurnState] /\ CallsInv' /\ ShownInv'
         /\ \A t \in Turns : turn'[t].gate \in {turn[t].gate, 0, Len(gates)}
<1> DEFINE Goal == /\ turn' \in [Turns -> TurnState] /\ CallsInv' /\ ShownInv'
                   /\ \A t \in Turns : turn'[t].gate \in {turn[t].gate, 0, Len(gates)}
<1> SUFFICES Goal
  OBVIOUS
<1>0. /\ turn \in [Turns -> TurnState] /\ GatesKept
      /\ answered \in [Turns -> {"none", "once", "session", "decline"}]
      /\ gates \in Seq(Gate) /\ gates # <<>> /\ history \in Seq(Message)
      /\ \A t \in Turns : CallOk(t)
  BY StepGates DEF ConsoleInv, TypeInv, TypeOK, CallsInv
<1>m. ASSUME NEW t \in Turns, turn[t].pc # "approval", Moves(t), CallOk(t)', ShownAfter(t) PROVE Goal
  BY <1>m, <1>0, MovesKeep DEF Moves
<1>e. ASSUME NEW t \in Turns, turn[t].pc # "approval", NEW how \in Ended, Ends(t, how), UNCHANGED answered PROVE Goal
  <2>1. turn'[t].pc = how /\ Moves(t) /\ UNCHANGED <<approval, resolver>>
    BY <1>0, <1>e, EndsMoves, EndedTurn DEF Moves
  <2>2. CallOk(t)' /\ ShownAfter(t)
    BY <2>1, PlaceOk DEF ShownAfter, AtCall, Ended
  <2> QED
    BY <1>e, <1>m, <2>1, <2>2
<1>u. ASSUME UNCHANGED <<turn, approval, resolver, answered>> PROVE Goal
  <2>1. CallsInv'
    BY <1>u, <1>0, OthersOk DEF CallsInv, ConsoleInv
  <2>2. ShownInv'
    BY <1>u DEF ShownInv, ConsoleInv
  <2> QED
    BY <1>u, <1>0, <2>1, <2>2
<1>1. ASSUME NEW t \in Turns, CallStep(t) PROVE Goal
  <2>1. turn[t].pc # "approval"
    BY <1>1 DEF CallStep, Call, Reviewed, Approved, Continue, CommandEnds
  <2> QED
    BY <2>1, <1>1, <1>m, CallStepMoves
<1>2. ASSUME NEW t \in Turns, NEW calls \in Replies, Reply(t, calls) PROVE Goal
  <2>1. turn[t].pc = "waiting" /\ UNCHANGED answered
    BY <1>2 DEF Reply
  <2>2. CASE \E how \in Ended : Ends(t, how)
    BY <2>1, <2>2, <1>e
  <2>3. CASE ~\E how \in Ended : Ends(t, how)
    <3>1. /\ calls # <<>> /\ UNCHANGED consoleVars
          /\ turn' = [turn EXCEPT ![t].pc = "calls", ![t].left = calls, ![t].rounds = @ + 1]
      BY <2>3, <1>2 DEF Reply, Ended
    <3>2. turn[t] \in TurnState /\ calls \in Seq(Tools)
      BY <1>0, RepliesAssumption
    <3> DEFINE next == [turn[t] EXCEPT !.pc = "calls", !.left = calls, !.rounds = @ + 1]
    <3>3. next \in TurnState /\ next.pc = "calls" /\ next.left = calls /\ next.gate = turn[t].gate
      <4>1. "calls" \in Places
        BY DEF Places
      <4>2. turn[t].rounds + 1 \in Nat
        BY <3>2 DEF TurnState
      <4> QED
        BY <3>2, <4>1, <4>2 DEF TurnState
    <3>4. turn' = [turn EXCEPT ![t] = next]
      BY <3>1
    <3> HIDE DEF next
    <3>5. Moves(t) /\ turn'[t] = next
      BY <3>3, <3>4, <1>0, <2>1 DEF Moves
    <3>6. CallOk(t)' /\ ShownAfter(t)
      BY <3>1, <3>3, <3>5, <2>1, <1>0, PlaceOk DEF ShownAfter, consoleVars, CallOk
    <3> QED
      BY <2>1, <3>5, <3>6, <1>m
  <2> QED
    BY <2>2, <2>3
<1>3. ASSUME NEW t \in Turns, StreamFails(t) \/ PairEnds(t) PROVE Goal
  BY <1>3, <1>e DEF StreamFails, PairEnds, Ended
<1>4. ASSUME NEW t \in Turns, ServerAnswers(t) PROVE Goal
  <2>1. turn[t].pc = "requesting" /\ turn' = [turn EXCEPT ![t].pc = "answered"]
        /\ UNCHANGED <<answered, approval, resolver>>
    BY <1>4 DEF ServerAnswers, consoleVars, ghostVars
  <2>2. Moves(t) /\ turn'[t].pc = "answered" /\ turn'[t].left = turn[t].left /\ turn'[t].gate = turn[t].gate
    BY <2>1, <1>0, AwaitsMoves DEF Moves, Places
  <2>3. CallOk(t)' /\ ShownAfter(t)
    BY <2>1, <2>2, <1>0, PlaceOk DEF ShownAfter, CallOk, AtCall
  <2> QED
    BY <2>1, <2>2, <2>3, <1>m
<1>5. ASSUME NEW t \in Turns, NEW paired \in BOOLEAN, NEW reviewed \in BOOLEAN, Submit(t, paired, reviewed)
      PROVE  Goal
  <2> DEFINE messages == IF paired THEN history ELSE Append(history, User(t))
             next == [NewTurn EXCEPT !.pc = IF paired THEN "pairing" ELSE "waiting",
                                     !.gate = Len(gates), !.reviewed = reviewed,
                                     !.from = IF paired THEN 0 ELSE HistoryStart(messages),
                                     !.upto = Len(messages)]
  <2>1. turn' = [turn EXCEPT ![t] = next] /\ UNCHANGED <<answered, approval, resolver>> /\ turn[t].pc # "approval"
    BY <1>5 DEF Submit, NextTurn
  <2>2. messages \in Seq(Message)
    <3>1. User(t) \in Message
      BY DEF User, Message
    <3> QED
      BY <3>1, <1>0
  <2>3. next \in TurnState /\ next.pc \in {"pairing", "waiting"} /\ next.gate # 0
    <3>1. NewTurn \in TurnState
      BY DEF NewTurn, TurnState, Places
    <3>2. HistoryStart(messages) \in Nat /\ Len(messages) \in Nat /\ Len(gates) \in Nat \ {0}
      <4> HIDE DEF messages
      <4> QED
        BY <2>2, <1>0, HistoryStartIs
    <3> DEFINE place == IF paired THEN "pairing" ELSE "waiting"
               first == IF paired THEN 0 ELSE HistoryStart(messages)
    <3>3. place \in {"pairing", "waiting"} /\ place \in Places /\ first \in Nat
      BY <3>2 DEF Places
    <3> HIDE DEF messages, NewTurn, place, first
    <3>4. next = [NewTurn EXCEPT !.pc = place, !.gate = Len(gates), !.reviewed = reviewed,
                                 !.from = first, !.upto = Len(messages)]
      BY DEF place, first
    <3> HIDE DEF next
    <3>6. next \in TurnState /\ next.pc = place /\ next.gate = Len(gates)
      BY <3>1, <3>2, <3>3, <3>4 DEF TurnState
    <3> QED
      BY <3>2, <3>3, <3>6
  <2> HIDE DEF next
  <2>4. Moves(t) /\ turn'[t] = next
    <3>1. next.gate = Len(gates)
      BY DEF next, NewTurn
    <3> QED
      BY <2>1, <2>3, <3>1, <1>0 DEF Moves
  <2>5. CallOk(t)' /\ ShownAfter(t)
    BY <2>1, <2>3, <2>4, PlaceOk DEF ShownAfter, AtCall
  <2> QED
    BY <2>1, <2>4, <2>5, <1>m

<1>6. ASSUME NEW choice \in {"once", "session", "decline"}, Answer(choice) PROVE Goal
  <2>0. PICK t \in Turns : t = approval
    BY <1>6 DEF Answer, ConsoleInv, TypeInv, TypeOK
  <2> DEFINE place == IF choice = "decline" THEN "declined" ELSE "approved"
  <2>1. turn[t].pc = "approval" /\ resolver = t /\ CallOk(t)
    BY <1>6, <2>0 DEF Answer, ConsoleInv, ShownInv, CallsInv
  <2>2. /\ turn' = [turn EXCEPT ![t].pc = place] /\ answered' = [answered EXCEPT ![t] = choice]
        /\ approval' = 0 /\ resolver' = 0
    BY <1>6, <2>0, <2>1 DEF Answer
  <2>3. place \in Places /\ place \in {"declined", "approved"} /\ (place = "approved" => choice \in {"once", "session"})
    BY DEF Places
  <2> HIDE DEF place
  <2>4. /\ turn' \in [Turns -> TurnState] /\ \A r \in Turns \ {t} : turn'[r] = turn[r] /\ answered'[r] = answered[r]
        /\ turn'[t].pc = place /\ turn'[t].left = turn[t].left /\ turn'[t].gate = turn[t].gate
        /\ answered'[t] = choice
    BY <1>0, <2>1, <2>2, <2>3, AwaitsMoves
  <2>5. turn[t].gate \in DOMAIN gates /\ turn[t].left # <<>>
    BY <2>1, <1>0 DEF CallOk, AtCall, ConsoleInv, TypeInv, TypeOK
  <2>6. Calling(t)' = Calling(t) /\ GateOf(t)'.rule = GateOf(t).rule
    BY <2>1, <2>4, <2>5, <1>0 DEF Calling, GateOf, GatesKept, AtCall
  <2>7. CallOk(t)'
    BY <2>1, <2>3, <2>4, <2>5, <2>6 DEF CallOk, AtCall
  <2>8. \A r \in Turns : CallOk(r)'
    BY <2>4, <2>7, <1>0, OthersOk DEF ConsoleInv
  <2> QED
    BY <2>2, <2>4, <2>8 DEF CallsInv, ShownInv
<1>s. ASSUME turn' \in [Turns -> TurnState], UNCHANGED <<gates, answered>>,
             \A t \in Turns : /\ turn'[t].left = turn[t].left /\ turn'[t].gate = turn[t].gate
                              /\ \/ turn'[t].pc = turn[t].pc
                                 \/ turn[t].pc \in AtCall /\ turn'[t].pc \in {"declined", "answered"},
             \/ approval' = 0 /\ resolver' = 0
             \/ approval' = approval /\ resolver' = resolver /\ (approval # 0 => turn'[approval].pc = turn[approval].pc)
      PROVE  Goal
  <2>1. ASSUME NEW t \in Turns PROVE CallOk(t)'
    <3>1. Calling(t)' = Calling(t) /\ GateOf(t)' = GateOf(t)
      BY <1>s, <2>1 DEF Calling, GateOf
    <3> QED
      BY <3>1, <1>0, <1>s, <2>1 DEF CallOk, AtCall
  <2>2. ShownInv'
    BY <1>s DEF ShownInv, ConsoleInv
  <2> QED
    BY <1>s, <2>1, <2>2 DEF CallsInv
<1>7. ASSUME NEW leave \in BOOLEAN, Interrupt(leave) PROVE Goal
  <2>0. UNCHANGED <<gates, answered>>
    BY <1>7 DEF Interrupt, ghostVars
  <2>1. CASE controller = 0
    BY <2>0, <2>1, <1>7, <1>u DEF Interrupt
  <2>2. CASE controller # 0
    <3>1. /\ approval' = 0 /\ resolver' = 0
          /\ turn' = [t \in Turns |-> [turn[t] EXCEPT !.pc = IF t = resolver THEN "declined" ELSE @,
                                                      !.aborted = @ \/ t = controller]]
      BY <2>2, <1>7 DEF Interrupt
    <3>2. ASSUME NEW t \in Turns
          PROVE  /\ turn'[t] \in TurnState /\ turn'[t].left = turn[t].left /\ turn'[t].gate = turn[t].gate
                 /\ turn'[t].pc = IF t = resolver THEN "declined" ELSE turn[t].pc
      <4> DEFINE place == IF t = resolver THEN "declined" ELSE turn[t].pc
                 flag == turn[t].aborted \/ t = controller
      <4>1. turn'[t] = [turn[t] EXCEPT !.pc = place, !.aborted = flag]
        BY <3>1
      <4>2. turn[t] \in TurnState /\ flag \in BOOLEAN
        BY <1>0 DEF TurnState
      <4>3. place \in Places
        BY <4>2 DEF TurnState, Places
      <4> HIDE DEF place, flag
      <4>4. /\ turn'[t] \in TurnState /\ turn'[t].left = turn[t].left /\ turn'[t].gate = turn[t].gate
            /\ turn'[t].pc = place
        BY <4>1, <4>2, <4>3 DEF TurnState
      <4> QED
        BY <4>4 DEF place
    <3>3. turn' \in [Turns -> TurnState]
      BY <3>1, <3>2
    <3>4. \A t \in Turns : t = resolver => turn[t].pc \in AtCall
      BY TurnsNotZero DEF ConsoleInv, ShownInv, AtCall
    <3> QED
      BY <2>0, <3>1, <3>2, <3>3, <3>4, <1>s
  <2> QED
    BY <2>1, <2>2
<1>8. ASSUME Disconnected \/ \E quiet \in BOOLEAN : ServerExits(quiet) PROVE Goal
  <2>0. UNCHANGED <<gates, answered, approval, resolver>>
    BY <1>8 DEF Disconnected, ServerExits, consoleVars, ghostVars
  <2>1. CASE UNCHANGED turn
    BY <2>0, <2>1, <1>u
  <2>2. CASE SettleRequests
    <3>2. ASSUME NEW t \in Turns
          PROVE  /\ turn'[t] \in TurnState /\ turn'[t].left = turn[t].left /\ turn'[t].gate = turn[t].gate
                 /\ turn'[t].pc = IF turn[t].pc = "requesting" THEN "answered" ELSE turn[t].pc
      <4> DEFINE place == IF turn[t].pc = "requesting" THEN "answered" ELSE turn[t].pc
      <4>1. turn'[t] = [turn[t] EXCEPT !.pc = place]
        BY <2>2 DEF SettleRequests
      <4>2. turn[t] \in TurnState
        BY <1>0
      <4>3. place \in Places
        BY <4>2 DEF TurnState, Places
      <4> HIDE DEF place
      <4>4. /\ turn'[t] \in TurnState /\ turn'[t].left = turn[t].left /\ turn'[t].gate = turn[t].gate
            /\ turn'[t].pc = place
        BY <4>1, <4>2, <4>3 DEF TurnState
      <4> QED
        BY <4>4 DEF place
    <3>3. turn' \in [Turns -> TurnState]
      BY <2>2, <3>2 DEF SettleRequests
    <3>4. approval # 0 => turn'[approval].pc = turn[approval].pc
      BY <3>2 DEF ConsoleInv, ShownInv, TypeInv, TypeOK
    <3> QED
      BY <2>0, <3>2, <3>3, <3>4, <1>s DEF AtCall
  <2> QED
    BY <1>8, <2>1, <2>2 DEF Disconnected, ServerExits
<1> HIDE DEF Goal
<1> QED
  BY <1>u, <1>1, <1>2, <1>3, <1>4, <1>5, <1>6, <1>7, <1>8
     DEF Next, TurnStep, Answers, Operator, CallStep, Permit, RewindCommand, UndoCommand, Exit, McpAdd, McpRemove,
         McpConnected, McpFails, ChildError, vars, ghostVars, consoleVars

-----------------------------------------------------------------------------
(* Types                                                                   *)

\* What the turns store are messages.
LEMMA MessageTypes ==
  ASSUME NEW t \in Turns
  PROVE  /\ User(t) \in Message
         /\ \A calls \in Seq(Tools) : Assistant(t, calls) \in Message
         /\ \A call \in Tools : ToolResult(t, call) \in Message
  BY DEF User, Assistant, ToolResult, Message

\* What a step adds to the conversation.
LEMMA StepHistory ==
  ASSUME ConsoleInv, [Next]_vars
  PROVE  history' \in Seq(Message)
<1>0. history \in Seq(Message)
  BY DEF ConsoleInv, TypeInv, TypeOK
<1>1. ASSUME NEW t \in Turns, CallStep(t) PROVE history' \in Seq(Message)
  <2>1. turn[t].left # <<>> /\ turn[t].left \in Seq(Tools) /\ (turn[t].pc = "approved" => Calling(t) \in Tier2)
    BY <1>1 DEF ConsoleInv, CallsInv, CallOk, AtCall, TypeInv, TypeOK,
           CallStep, Call, Reviewed, Approved, Continue, CommandEnds
  <2>2. ToolResult(t, Calling(t)) \in Message
    BY <2>1, TailType, MessageTypes DEF Calling
  <2>3. UNCHANGED history \/ history' = Append(history, ToolResult(t, Calling(t)))
    BY <1>1, <2>1, CallSteps, Performs DEF Result, Awaits, Request, Refused
  <2> QED
    BY <1>0, <2>2, <2>3
<1>2. ASSUME NEW t \in Turns, NEW calls \in Replies, Reply(t, calls) PROVE history' \in Seq(Message)
  <2>1. Assistant(t, calls) \in Message
    BY RepliesAssumption, MessageTypes
  <2>2. history' = history \/ history' = Append(history, Assistant(t, calls))
    BY <1>2 DEF Reply
  <2> QED
    BY <1>0, <2>1, <2>2
<1>3. ASSUME NEW t \in Turns, PairEnds(t) PROVE history' \in Seq(Message)
  <2>1. User(t) \in Message /\ Assistant(t, <<>>) \in Message
    <3>1. <<>> \in Seq(Tools)
      BY EmptySeq
    <3> QED
      BY <3>1, MessageTypes
  <2>2. <<User(t), Assistant(t, <<>>)>> \in Seq(Message)
    BY <2>1
  <2>3. history' = history \/ history' = history \o <<User(t), Assistant(t, <<>>)>>
    BY <1>3 DEF PairEnds
  <2> QED
    BY <1>0, <2>2, <2>3
<1>4. ASSUME NEW t \in Turns, NEW paired \in BOOLEAN, NEW reviewed \in BOOLEAN, Submit(t, paired, reviewed)
      PROVE  history' \in Seq(Message)
  BY <1>0, <1>4, MessageTypes DEF Submit
<1> QED
  BY <1>0, <1>1, <1>2, <1>3, <1>4
     DEF Next, TurnStep, Answers, Operator, CallStep, StreamFails, ServerAnswers, Answer,
         Interrupt, Permit, RewindCommand, UndoCommand, Exit, McpAdd, McpRemove, McpConnected, McpFails, ChildError,
         Disconnected, ServerExits, vars

\* The operator's answers, and the approvals on record.
LEMMA StepAnswered ==
  ASSUME ConsoleInv, [Next]_vars
  PROVE  /\ answered' \in [Turns -> {"none", "once", "session", "decline"}]
         /\ overlap' \in BOOLEAN /\ told' \subseteq (1 .. Len(gates)) \X Tier2
<1>0. /\ answered \in [Turns -> {"none", "once", "session", "decline"}]
      /\ overlap \in BOOLEAN /\ told \subseteq (1 .. Len(gates)) \X Tier2
  BY DEF ConsoleInv, TypeInv, TypeOK
<1>1. ASSUME NEW t \in Turns, CallStep(t) PROVE answered' \in [Turns -> {"none", "once", "session", "decline"}]
  <2>1. turn[t].pc = "approved" => Calling(t) \in Tier2
    BY DEF ConsoleInv, CallsInv, CallOk
  <2>2. UNCHANGED answered \/ answered' = [answered EXCEPT ![t] = "none"]
    BY <1>1, <2>1, CallSteps, Performs DEF Result, Awaits, Request, Refused
  <2> QED
    BY <1>0, <2>2
<1>2. ASSUME NEW t \in Turns, CallStep(t) PROVE UNCHANGED <<overlap, told>>
  <2>1. turn[t].pc = "approved" => Calling(t) \in Tier2
    BY DEF ConsoleInv, CallsInv, CallOk
  <2> QED
    BY <1>2, <2>1, CallSteps DEF Silent
<1>3. ASSUME NEW choice \in {"once", "session", "decline"}, Answer(choice)
      PROVE  /\ answered' \in [Turns -> {"none", "once", "session", "decline"}]
             /\ overlap' \in BOOLEAN /\ told' \subseteq (1 .. Len(gates)) \X Tier2
  <2>1. approval \in Turns /\ Calling(approval) \in Tier2 /\ turn[approval].gate \in 1 .. Len(gates)
    BY <1>3 DEF Answer, ConsoleInv, ShownInv, CallsInv, CallOk, TypeInv, TypeOK, AtCall
  <2>2. /\ answered' = [answered EXCEPT ![approval] = choice] /\ overlap' = overlap
        /\ told' = told \/ told' = told \cup {<<turn[approval].gate, Calling(approval)>>}
    BY <1>3 DEF Answer
  <2> QED
    BY <1>0, <2>1, <2>2
<1> QED
  BY <1>0, <1>1, <1>2, <1>3
     DEF Next, TurnStep, Answers, Operator, CallStep, Silent, Reply, StreamFails, PairEnds, ServerAnswers, Submit,
         Interrupt, Permit, RewindCommand, UndoCommand, Exit, McpAdd, McpRemove, McpConnected, McpFails, ChildError,
         Disconnected, ServerExits, vars, ghostVars

\* The types of the console, the server and the bounds.
ConsoleTypes ==
  /\ mode \in Modes /\ status \in {"idle", "running"}
  /\ controller \in Turns \cup {0} /\ approval \in Turns \cup {0} /\ resolver \in Turns \cup {0}
  /\ leaving \in BOOLEAN /\ exited \in BOOLEAN
  /\ server \in {"none", "connecting", "up", "dead", "silent", "closing"} /\ into \in 0 .. Len(gates)
  /\ commands \in 0 .. MaxCommands /\ faults \in 0 .. MaxFaults

\* The console's own variables.
LEMMA StepConsole ==
  ASSUME ConsoleInv, [Next]_vars
  PROVE  ConsoleTypes'
<1>0. ConsoleTypes /\ Len(gates) \in Nat /\ Len(gates') \in Nat /\ Len(gates) <= Len(gates')
  BY StepGates DEF ConsoleInv, TypeInv, TypeOK, ConsoleTypes
<1> USE DEF ConsoleTypes
<1> USE BoundsAssumption
<1>1. ASSUME NEW t \in Turns, NEW how, Ends(t, how), UNCHANGED <<serverVars, boundVars>> PROVE ConsoleTypes'
  BY <1>0, <1>1 DEF Ends, serverVars, boundVars
<1>2. ASSUME NEW t \in Turns, CallStep(t) PROVE ConsoleTypes'
  <2>1. turn[t].pc = "approved" => Calling(t) \in Tier2
    BY DEF ConsoleInv, CallsInv, CallOk
  <2>2. UNCHANGED <<serverVars, commands>>
    BY <1>2, <2>1, CallSteps DEF Silent
  <2>3. faults' \in 0 .. MaxFaults
    <3>1. UNCHANGED faults \/ (faults < MaxFaults /\ faults' = faults + 1)
      BY <1>2, <2>1, CallSteps DEF Perform, MayFail, Fault, Refused
    <3> QED
      BY <3>1, <1>0
  <2>4. UNCHANGED consoleVars \/ Request(t) \/ Ends(t, "failed")
    BY <1>2, <2>1, CallSteps, Performs DEF Refused, Result
  <2>5. CASE UNCHANGED consoleVars
    BY <1>0, <2>2, <2>3, <2>5 DEF consoleVars, serverVars
  <2>6. CASE Request(t)
    BY <1>0, <2>2, <2>3, <2>6 DEF Request, serverVars
  <2>7. CASE Ends(t, "failed")
    BY <1>0, <2>2, <2>3, <2>7 DEF Ends, serverVars
  <2> QED
    BY <2>4, <2>5, <2>6, <2>7

<1>3. ASSUME NEW t \in Turns, NEW calls \in Replies, Reply(t, calls) PROVE ConsoleTypes'
  BY <1>0, <1>3 DEF Reply, Ends, Silent, consoleVars, serverVars
<1>4. ASSUME NEW t \in Turns, StreamFails(t) \/ PairEnds(t) PROVE ConsoleTypes'
  BY <1>0, <1>4 DEF StreamFails, PairEnds, Ends, Silent, serverVars
<1>5. ASSUME NEW t \in Turns, ServerAnswers(t) PROVE ConsoleTypes'
  BY <1>0, <1>5 DEF ServerAnswers, consoleVars, serverVars, boundVars
<1>6. ASSUME NEW choice, Answer(choice) PROVE ConsoleTypes'
  BY <1>0, <1>6 DEF Answer, serverVars, boundVars
<1>7. ASSUME NEW t \in Turns, NEW paired \in BOOLEAN, NEW reviewed \in BOOLEAN, Submit(t, paired, reviewed)
      PROVE  ConsoleTypes'
  BY <1>0, <1>7 DEF Submit, serverVars, boundVars
<1>8. ASSUME NEW leave \in BOOLEAN, Interrupt(leave) PROVE ConsoleTypes'
  BY <1>0, <1>8 DEF Interrupt, serverVars, boundVars
<1>9. CASE Exit
  BY <1>0, <1>9 DEF Exit, serverVars, boundVars
<1>10. ASSUME NEW tool, NEW action, Permit(tool, action) PROVE ConsoleTypes'
  BY <1>0, <1>10 DEF Permit, Command, consoleVars, serverVars
<1>11. ASSUME UndoCommand \/ \E i \in DOMAIN saved : RewindCommand(i) PROVE ConsoleTypes'
  BY <1>0, <1>11 DEF UndoCommand, RewindCommand, Command, Fault, consoleVars, serverVars
<1>12. ASSUME McpAdd \/ McpConnected \/ McpFails PROVE ConsoleTypes'
  BY <1>0, <1>12 DEF McpAdd, McpConnected, McpFails, Command, consoleVars, boundVars
<1>13. ASSUME McpRemove \/ Disconnected \/ \E quiet \in BOOLEAN : ServerExits(quiet) PROVE ConsoleTypes'
  BY <1>0, <1>13 DEF McpRemove, Disconnected, ServerExits, Fault, consoleVars, boundVars
<1>17. CASE ChildError
  <2>1. exited' \in BOOLEAN
    BY <1>17, Zenon DEF ChildError
  <2>2. /\ UNCHANGED <<mode, status, controller, approval, resolver, leaving, gates, server, into, commands>>
        /\ faults' \in 0 .. MaxFaults
    BY <1>0, <1>17 DEF ChildError, Fault, serverVars
  <2> QED
    BY <1>0, <2>1, <2>2
<1>14. CASE UNCHANGED vars
  BY <1>0, <1>14 DEF vars, consoleVars, serverVars, boundVars
<1> HIDE DEF ConsoleTypes
<1>15. ASSUME NEW t \in Turns, TurnStep(t) \/ ServerAnswers(t) PROVE ConsoleTypes'
  BY <1>2, <1>3, <1>4, <1>5, <1>15 DEF TurnStep, CallStep
<1>16. CASE Operator
  BY <1>7, <1>8, <1>9, <1>10, <1>11, <1>12, <1>13, <1>16 DEF Operator
<1> QED
  BY <1>6, <1>12, <1>13, <1>14, <1>15, <1>16, <1>17 DEF Next, Answers

\* The type invariant is kept.
LEMMA StepTypes ==
  ASSUME ConsoleInv, FilesInv, [Next]_vars
  PROVE  TypeInv'
<1>1. FilesTypeOK'
  BY StepFiles, FilesKept DEF FilesInv, ConsoleInv, CallsInv, CallOk
<1>2. gates' \in Seq(Gate) /\ gates' # <<>> /\ Len(gates) \in Nat /\ Len(gates') \in Nat /\ Len(gates) <= Len(gates')
  BY StepGates DEF ConsoleInv, TypeInv, TypeOK
<1>3. turn' \in [Turns -> TurnState] /\ \A t \in Turns : turn'[t].gate \in {turn[t].gate, 0, Len(gates)}
  BY StepCalls
<1>4. \A t \in Turns : turn[t].gate \in 0 .. Len(gates)
  BY DEF ConsoleInv, TypeInv, TypeOK
<1>5. \A t \in Turns :
        /\ turn'[t].pc \in Places /\ turn'[t].gate \in 0 .. Len(gates') /\ turn'[t].left \in Seq(Tools)
        /\ turn'[t].aborted \in BOOLEAN /\ turn'[t].reviewed \in BOOLEAN /\ turn'[t].rounds \in Nat
        /\ turn'[t].from \in Nat /\ turn'[t].upto \in Nat
  <2> SUFFICES ASSUME NEW t \in Turns
               PROVE  /\ turn'[t].pc \in Places /\ turn'[t].gate \in 0 .. Len(gates') /\ turn'[t].left \in Seq(Tools)
                      /\ turn'[t].aborted \in BOOLEAN /\ turn'[t].reviewed \in BOOLEAN /\ turn'[t].rounds \in Nat
                      /\ turn'[t].from \in Nat /\ turn'[t].upto \in Nat
    OBVIOUS
  <2>1. turn'[t] \in TurnState
    BY <1>3
  <2>2. turn'[t].gate \in 0 .. Len(gates')
    BY <1>2, <1>3, <1>4
  <2> QED
    BY <2>1, <2>2 DEF TurnState
<1>6. told' \subseteq (1 .. Len(gates')) \X Tier2
  BY <1>2, StepAnswered
<1>7. TypeOK'
  BY <1>1, <1>2, <1>5, <1>6, StepHistory, StepAnswered, StepConsole DEF TypeOK, ConsoleTypes
<1> QED
  BY <1>2, <1>3, <1>7 DEF TypeInv

\* The session begins in order.
LEMMA InitConsole == Init => ConsoleInv /\ FilesInv
<1> SUFFICES ASSUME Init PROVE ConsoleInv /\ FilesInv
  OBVIOUS
<1>1. FilesInv
  BY FilesBegin DEF Init
<1>2. NewTurn \in TurnState /\ NewTurn.pc = "none" /\ NewTurn.gate = 0
  BY DEF NewTurn, TurnState, Places
<1>3. Asking \in [Tier2 -> Actions] /\ NewGate(Asking) \in Gate /\ NewGate(Asking).approved = {}
  BY NewGateIs DEF Asking, Actions
<1> HIDE DEF NewTurn, NewGate, Asking
<1>4. /\ turn = [t \in Turns |-> NewTurn] /\ turn \in [Turns -> TurnState]
      /\ gates = <<NewGate(Asking)>> /\ gates \in Seq(Gate) /\ gates # <<>> /\ Len(gates) = 1
  BY <1>2, <1>3 DEF Init
<1>5. TypeOK
  <2>1. \A t \in Turns :
          /\ turn[t].pc \in Places /\ turn[t].gate \in 0 .. Len(gates) /\ turn[t].left \in Seq(Tools)
          /\ turn[t].aborted \in BOOLEAN /\ turn[t].reviewed \in BOOLEAN /\ turn[t].rounds \in Nat
          /\ turn[t].from \in Nat /\ turn[t].upto \in Nat
    BY <1>2, <1>4 DEF TurnState
  <2>2. history \in Seq(Message)
    BY EmptySeq DEF Init
  <2>3. ConsoleTypes
    <3>1. /\ mode \in Modes /\ status = "idle" /\ controller = 0 /\ approval = 0 /\ resolver = 0
          /\ server = "none" /\ into = 0 /\ commands = 0 /\ faults = 0
      BY DEF Init
    <3>3. leaving \in BOOLEAN /\ exited \in BOOLEAN
      BY Zenon DEF Init
    <3>2. Len(gates) = 1 /\ MaxCommands \in Nat /\ MaxFaults \in Nat
      BY <1>4, BoundsAssumption
    <3> QED
      BY ONLY <3>1, <3>2, <3>3 DEF ConsoleTypes
  <2>4. overlap \in BOOLEAN /\ answered \in [Turns -> {"none", "once", "session", "decline"}] /\ told = {}
    BY DEF Init
  <2> QED
    BY <1>1, <1>4, <2>1, <2>2, <2>3, <2>4 DEF TypeOK, FilesInv, ConsoleTypes
<1>6. CallsInv
  BY <1>2, <1>4 DEF CallsInv, CallOk, AtCall
<1>7. ShownInv
  BY DEF ShownInv, Init
<1>8. SessionInv
  BY <1>3, <1>4 DEF SessionInv
<1> QED
  BY <1>1, <1>4, <1>5, <1>6, <1>7, <1>8 DEF ConsoleInv, TypeInv

-----------------------------------------------------------------------------
(* The theorems                                                            *)

\* The inductive invariant.
LEMMA ConsoleInvariant == Spec => [](ConsoleInv /\ FilesInv)
<1>1. Init => ConsoleInv /\ FilesInv
  BY InitConsole
<1>2. (ConsoleInv /\ FilesInv) /\ [Next]_vars => (ConsoleInv /\ FilesInv)'
  <2> SUFFICES ASSUME ConsoleInv, FilesInv, [Next]_vars PROVE ConsoleInv' /\ FilesInv'
    OBVIOUS
  <2>1. FilesInv'
    BY StepFiles, FilesKept DEF ConsoleInv, CallsInv, CallOk
  <2> QED
    BY <2>1, StepTypes, StepCalls, StepGates DEF ConsoleInv
<1> QED
  BY <1>1, <1>2, PTL DEF Spec

\* The session's state is always of its type.
THEOREM TypeCorrect == Spec => []TypeOK
<1>1. ConsoleInv => TypeOK
  BY DEF ConsoleInv, TypeInv
<1> QED
  BY <1>1, ConsoleInvariant, PTL

\* Whatever the turns, their calls and the operator do, the file and its checkpoints go
\* through the changes, failures, undos and rewinds of AgentFiles, one at a time.
THEOREM FilesAreDriven == Spec => FilesSpec
<1>1. Init => FilesInit
  BY DEF Init
<1>2. (ConsoleInv /\ FilesInv) /\ [Next]_vars => [FilesNext]_fileVars
  BY StepFiles DEF ConsoleInv, CallsInv, CallOk
<1> QED
  BY <1>1, <1>2, ConsoleInvariant, PTL DEF Spec, FilesSpec

\* The text a tool overwrote or deleted can be had back: it is the file, a checkpoint or a
\* redo point, through any sequence of changes, undos and failures.  Lost are only a content
\* whose snapshot or redo point could not be saved, one that is not UTF-8, and what a rewind
\* or a second undo of one checkpoint replaces (checkpoint.ts, ToolRegistry.execute).
THEOREM ContentsAreKept == FilesSpec => []NothingIsLost
<1>1. FilesInv => NothingIsLost
  BY DEF FilesInv
<1> QED
  BY <1>1, FilesBegin, FilesKept, PTL DEF FilesSpec

\* A result names the turn that stored it.
LEMMA ResultIs ==
  ASSUME NEW t \in Turns, NEW r \in Turns, NEW a, NEW b,
         Append(history, ToolResult(t, a)) = Append(history, ToolResult(r, b)), history \in Seq(Message)
  PROVE  t = r
<1>1. ToolResult(t, a) = ToolResult(r, b)
  BY AppendProperties
<1> QED
  BY <1>1 DEF ToolResult

\* What the property asks of a step.
StartsAllowed ==
  \A t \in Turns : Starts(t) =>
    LET rule == GateOf(t).rule[Calling(t)]
    IN  /\ ~turn[t].aborted
        /\ \/ rule = "allow"
           \/ /\ rule = "ask"
              /\ answered[t] \in {"once", "session"} \/ <<turn[t].gate, Calling(t)>> \in told

\* What the gate lets start is what the rules and the operator allow.
LEMMA PermittedAllowed ==
  ASSUME ConsoleInv, NEW t \in Turns, turn[t].pc \in AtCall, Permitted(t)
  PROVE  LET rule == GateOf(t).rule[Calling(t)]
         IN  /\ ~turn[t].aborted
             /\ \/ rule = "allow"
                \/ /\ rule = "ask"
                   /\ answered[t] \in {"once", "session"} \/ <<turn[t].gate, Calling(t)>> \in told
<1>1. CallOk(t) /\ turn[t].gate \in DOMAIN gates
  BY DEF ConsoleInv, CallsInv, CallOk, TypeInv, TypeOK
<1>2. Calling(t) \in GateOf(t).approved => <<turn[t].gate, Calling(t)>> \in told
  BY <1>1 DEF ConsoleInv, SessionInv, GateOf
<1> QED
  BY <1>1, <1>2 DEF Permitted, Allowed, CallOk

\* A command starts only when a tool is performed.
LEMMA NotStarted ==
  ASSUME ConsoleInv, NEW t \in Turns, CallStep(t), ~(Perform(t) /\ Permitted(t))
  PROVE  turn'[t].pc # "running"
<1>0. /\ turn[t].pc = "approved" => Calling(t) \in Tier2
      /\ turn \in [Turns -> TurnState] /\ turn[t] \in TurnState /\ turn[t].left # <<>>
      /\ answered \in [Turns -> {"none", "once", "session", "decline"}]
  BY CallSteps DEF ConsoleInv, CallsInv, CallOk, TypeInv, TypeOK
<1>1. CASE Ends(t, "failed")
  BY <1>0, <1>1, EndsMoves, EndedTurn DEF Ended
<1>2. CASE Result(t)
  <2>1. [NewTurn EXCEPT !.pc = "failed"].pc = "failed"
    BY EndedTurn
  <2>2. \/ turn'[t] = [NewTurn EXCEPT !.pc = "failed"]
        \/ turn'[t].pc = IF Tail(turn[t].left) = <<>> THEN "waiting" ELSE "calls"
    BY <1>0, <1>2, ResultMoves
  <2> HIDE DEF NewTurn
  <2> QED
    BY <2>1, <2>2
<1>3. ASSUME NEW place \in {"reviewing", "requesting"}, Awaits(t, place) PROVE turn'[t].pc # "running"
  BY <1>0, <1>3, AwaitsMoves DEF Awaits, Places
<1>4. CASE Request(t)
  BY <1>0, <1>4, AwaitsMoves DEF Request, Places
<1> QED
  BY <1>0, <1>1, <1>2, <1>3, <1>4, CallSteps DEF Refused

\* No other step starts a command.
LEMMA NoneStarted ==
  ASSUME ConsoleInv, [Next]_vars, NEW t \in Turns, \A r \in Turns : ~CallStep(r), turn[t].pc # "running"
  PROVE  turn'[t].pc # "running"
<1>0. turn \in [Turns -> TurnState] /\ turn[t] \in TurnState
  BY DEF ConsoleInv, TypeInv
<1>1. ASSUME NEW r \in Turns, NEW how \in Ended, Ends(r, how) PROVE turn'[t].pc # "running"
  <2>1. turn'[t] = turn[t] \/ turn'[t].pc = how
    <3>1. [NewTurn EXCEPT !.pc = how].pc = how
      BY EndedTurn
    <3>2. turn'[r] = [NewTurn EXCEPT !.pc = how] /\ \A u \in Turns \ {r} : turn'[u] = turn[u]
      BY <1>0, <1>1, EndsMoves
    <3> HIDE DEF NewTurn
    <3> QED
      BY <3>1, <3>2
  <2> QED
    BY <2>1 DEF Ended
<1>2. ASSUME NEW r \in Turns, NEW calls \in Replies, Reply(r, calls) PROVE turn'[t].pc # "running"
  BY <1>0, <1>1, <1>2 DEF Reply, Ended, TurnState
<1>3. ASSUME NEW r \in Turns, StreamFails(r) \/ PairEnds(r) PROVE turn'[t].pc # "running"
  BY <1>1, <1>3 DEF StreamFails, PairEnds, Ended
<1>4. ASSUME NEW r \in Turns, ServerAnswers(r) PROVE turn'[t].pc # "running"
  BY <1>0, <1>4 DEF ServerAnswers, TurnState
<1>5. ASSUME NEW r \in Turns, NEW paired \in BOOLEAN, NEW reviewed \in BOOLEAN, Submit(r, paired, reviewed)
      PROVE  turn'[t].pc # "running"
  BY <1>0, <1>5 DEF Submit, NewTurn, TurnState
<1>6. ASSUME NEW choice, Answer(choice) PROVE turn'[t].pc # "running"
  BY <1>0, <1>6 DEF Answer, TurnState
<1>7. ASSUME NEW leave, Interrupt(leave) PROVE turn'[t].pc # "running"
  <2>1. CASE UNCHANGED turn
    BY <2>1
  <2>2. CASE turn' = [u \in Turns |-> [turn[u] EXCEPT !.pc = IF u = resolver THEN "declined" ELSE @,
                                                      !.aborted = @ \/ u = controller]]
    <3> DEFINE place == IF t = resolver THEN "declined" ELSE turn[t].pc
               flag == turn[t].aborted \/ t = controller
    <3>1. turn'[t] = [turn[t] EXCEPT !.pc = place, !.aborted = flag]
      BY <2>2
    <3>2. place # "running"
      OBVIOUS
    <3> HIDE DEF place, flag
    <3> QED
      BY <1>0, <3>1, <3>2 DEF TurnState
  <2> QED
    BY <1>7, <2>1, <2>2 DEF Interrupt
<1>8. CASE SettleRequests
  BY <1>0, <1>8 DEF SettleRequests, TurnState
<1>9. CASE UNCHANGED turn
  BY <1>9
<1> QED
  BY <1>2, <1>3, <1>4, <1>5, <1>6, <1>7, <1>8, <1>9
     DEF Next, TurnStep, Answers, Operator, CallStep, Permit, RewindCommand, UndoCommand, Exit, McpAdd, McpRemove,
         McpConnected, McpFails, ChildError, Disconnected, ServerExits, vars

\* The other steps add nothing to the conversation, or leave the file.
LEMMA NoneChanged ==
  ASSUME [Next]_vars, \A r \in Turns : ~CallStep(r)
  PROVE  UNCHANGED history \/ UNCHANGED fileVars
  BY DEF Next, TurnStep, Answers, Operator, CallStep, Reply, StreamFails, PairEnds, ServerAnswers, Submit, Answer,
         Interrupt, Permit, RewindCommand, UndoCommand, Exit, McpAdd, McpRemove, McpConnected, McpFails, ChildError,
         Disconnected, ServerExits, vars

\* What starts was permitted, and so allowed.
LEMMA StepAllowed ==
  ASSUME ConsoleInv, [Next]_vars
  PROVE  StartsAllowed
<1> SUFFICES ASSUME NEW t \in Turns, Starts(t)
             PROVE  turn[t].pc \in AtCall /\ Permitted(t)
  BY PermittedAllowed DEF StartsAllowed
<1>0. /\ \A r \in Turns : turn[r].pc = "approved" => Calling(r) \in Tier2
      /\ turn \in [Turns -> TurnState] /\ history \in Seq(Message)
  BY DEF ConsoleInv, CallsInv, CallOk, TypeInv, TypeOK
<1>1. ASSUME NEW r \in Turns, CallStep(r) PROVE turn[t].pc \in AtCall /\ Permitted(t)
  <2>1. turn[r].pc \in AtCall
    BY <1>0, <1>1, CallSteps
  <2>2. CASE Perform(r) /\ Permitted(r)
    <3>1. r = t
      <4>1. CASE history' = Append(history, ToolResult(t, Calling(t)))
        <5>1. history' = history \/ history' = Append(history, ToolResult(r, Calling(r)))
          BY <2>2, Performs DEF Result, Awaits
        <5>2. Append(history, ToolResult(t, Calling(t))) # history
          BY <1>0
        <5> QED
          BY <4>1, <5>1, <5>2, <1>0, ResultIs
      <4>2. CASE turn[t].pc # "running" /\ turn'[t].pc = "running"
        <5>1. Moves(r)
          BY <1>1, CallStepMoves
        <5> QED
          BY <4>2, <5>1 DEF Moves
      <4> QED
        BY <4>1, <4>2 DEF Starts
    <3> QED
      BY <3>1, <2>1, <2>2
  <2>3. CASE ~(Perform(r) /\ Permitted(r))
    <3>1. UNCHANGED fileVars
      BY <1>0, <1>1, <2>3, CallSteps DEF Refused
    <3>2. turn[t].pc # "running" /\ turn'[t].pc = "running"
      BY <3>1 DEF Starts, fileVars
    <3>3. Moves(r)
      BY <1>1, CallStepMoves
    <3>4. r = t
      BY <3>2, <3>3 DEF Moves
    <3> QED
      BY <3>2, <3>4, <1>1, <2>3, NotStarted
  <2> QED
    BY <2>2, <2>3
<1>2. ASSUME \A r \in Turns : ~CallStep(r) PROVE FALSE
  <2>1. UNCHANGED <<file, written>> \/ history' # Append(history, ToolResult(t, Calling(t)))
    <3>1. Append(history, ToolResult(t, Calling(t))) # history
      BY <1>0
    <3> QED
      BY <3>1, <1>2, NoneChanged DEF fileVars
  <2> QED
    BY <2>1, <1>2, NoneStarted DEF Starts
<1> QED
  BY <1>1, <1>2

\* A tool that writes, deletes or runs starts only for a turn that is not aborted and only
\* if its rule allows it, or asks and the operator approved this very call or the tool for
\* the session of that registry: whatever turns run at the same time, whatever rules are
\* added while they run, and however the shown request is replaced (ToolRegistry.execute,
\* requestApproval, handleApproval).
THEOREM EffectsAlwaysAllowed == Spec => EffectsWereAllowed
<1>1. ConsoleInv /\ [Next]_vars => StartsAllowed
  BY StepAllowed
<1>2. Spec => [][StartsAllowed]_vars
  BY <1>1, ConsoleInvariant, PTL DEF Spec
<1> QED
  BY <1>2, PTL DEF EffectsWereAllowed, StartsAllowed

-----------------------------------------------------------------------------
(* The conversation                                                        *)

Active == AtCall \cup {"pairing", "waiting"}

\* The reply at place i is being answered: a result for each call before those its turn
\* still has in hand.
InProgress(i) ==
  LET t == history[i].turn
      done == Len(history) - i
  IN  /\ turn[t].pc \in AtCall
      /\ Len(history[i].calls) = done + Len(turn[t].left)
      /\ \A k \in 1 .. done : history[i + k] = ToolResult(t, history[i].calls[k])
      /\ \A k \in 1 .. Len(turn[t].left) : turn[t].left[k] = history[i].calls[done + k]

OneActive == \A r, t \in Turns : turn[r].pc \in Active /\ turn[t].pc \in Active => r = t

RepliesAnswered ==
  \A i \in DOMAIN history :
    history[i].role = "assistant" =>
      Whole(history, i) \/ turn[history[i].turn].pc = "failed" \/ InProgress(i)

\* Why the conversation is answered: one turn at a time is under way, and the only reply
\* that lacks results is the one it is answering.
HistInv == overlap \/ (OneActive /\ RepliesAnswered)

\* A turn does not come to life again, and a failed one stays failed.
Keeps(r) ==
  /\ turn'[r].pc \in Active => turn[r].pc \in Active
  /\ turn[r].pc = "failed" => turn'[r].pc = "failed"

\* A turn at a call still has it, or fails.
Stays(r) ==
  turn[r].pc \in AtCall =>
    turn'[r].pc = "failed" \/ (turn'[r].pc \in AtCall /\ turn'[r].left = turn[r].left)

\* The parts of a message.
LEMMA MessageIs ==
  ASSUME NEW messages \in Seq(Message), NEW i \in DOMAIN messages
  PROVE  /\ messages[i] \in Message /\ messages[i].turn \in Turns
         /\ messages[i].calls \in Seq(Tools) /\ DOMAIN messages[i].calls = 1 .. Len(messages[i].calls)
<1>1. messages[i] \in Message
  OBVIOUS
<1>2. messages[i].turn \in Turns /\ messages[i].calls \in Seq(Tools)
  BY <1>1 DEF Message
<1> QED
  BY <1>1, <1>2

\* A step that adds nothing to the conversation and only reroutes or ends turns keeps it answered.
LEMMA Quiet ==
  ASSUME HistInv, UNCHANGED <<history, overlap>>, TypeInv, \A r \in Turns : Keeps(r) /\ Stays(r)
  PROVE  HistInv'
<1>1. CASE overlap
  BY <1>1 DEF HistInv
<1>2. CASE ~overlap
  <2>1. OneActive /\ RepliesAnswered
    BY <1>2 DEF HistInv
  <2>2. OneActive'
    BY <2>1 DEF OneActive, Keeps
  <2>3. ASSUME NEW i \in DOMAIN history, history[i].role = "assistant"
        PROVE  Whole(history, i)' \/ turn'[history'[i].turn].pc = "failed" \/ InProgress(i)'
    <3>1. history[i].turn \in Turns
      BY MessageIs DEF TypeInv, TypeOK
    <3>2. CASE Whole(history, i)
      BY <3>2 DEF Whole, ToolResult
    <3>3. CASE turn[history[i].turn].pc = "failed"
      BY <3>1, <3>3 DEF Keeps
    <3>4. CASE InProgress(i)
      <4>1. Stays(history[i].turn)
        BY <3>1
      <4> QED
        BY <3>4, <4>1 DEF InProgress, Stays, ToolResult
    <3> QED
      BY <2>1, <2>3, <3>2, <3>3, <3>4 DEF RepliesAnswered
  <2>4. RepliesAnswered'
    BY <2>3 DEF RepliesAnswered
  <2> QED
    BY <2>2, <2>4 DEF HistInv
<1> QED
  BY <1>1, <1>2

\* A reply with all its results keeps them in a longer conversation.
LEMMA WholeGrows ==
  ASSUME NEW old \in Seq(Message), NEW new \in Seq(Message), Len(old) <= Len(new),
         \A k \in 1 .. Len(old) : new[k] = old[k],
         NEW i \in 1 .. Len(old), Whole(old, i)
  PROVE  Whole(new, i)
<1>1. new[i] = old[i] /\ DOMAIN old[i].calls = 1 .. Len(old[i].calls)
  BY MessageIs
<1>2. ASSUME NEW k \in DOMAIN old[i].calls
      PROVE  i + k <= Len(new) /\ new[i + k] = ToolResult(old[i].turn, old[i].calls[k])
  <2>1. i + k <= Len(old) /\ old[i + k] = ToolResult(old[i].turn, old[i].calls[k])
    BY <1>2 DEF Whole
  <2>2. i + k \in 1 .. Len(old)
    BY <1>1, <1>2, <2>1
  <2> QED
    BY <2>1, <2>2
<1> QED
  BY <1>1, <1>2 DEF Whole

\* When no turn is at a call, what is added to the conversation disturbs no reply in it.
LEMMA OldAnswered ==
  ASSUME TypeInv, RepliesAnswered, \A r \in Turns : Keeps(r),
         \A r \in Turns : turn[r].pc \notin AtCall,
         history' \in Seq(Message), Len(history) <= Len(history'),
         \A k \in 1 .. Len(history) : history'[k] = history[k],
         NEW i \in 1 .. Len(history), history'[i].role = "assistant"
  PROVE  Whole(history', i) \/ turn'[history'[i].turn].pc = "failed"
<1>1. history \in Seq(Message) /\ history[i].turn \in Turns /\ history'[i] = history[i] /\ i \in DOMAIN history
  <2>1. history \in Seq(Message) /\ i \in DOMAIN history
    BY DEF TypeInv, TypeOK
  <2> QED
    BY <2>1, MessageIs
<1>2. ~InProgress(i)
  BY <1>1 DEF InProgress
<1>3. Whole(history, i) \/ turn[history[i].turn].pc = "failed"
  BY <1>1, <1>2 DEF RepliesAnswered
<1>4. Whole(history, i) => Whole(history', i)
  BY <1>1, WholeGrows
<1> QED
  BY <1>1, <1>3, <1>4 DEF Keeps

\* A turn that ends,
LEMMA EndsKeeps ==
  ASSUME turn \in [Turns -> TurnState], NEW t \in Turns, NEW how \in Ended, Ends(t, how), turn[t].pc \in Active
  PROVE  \A r \in Turns : Keeps(r) /\ (how = "failed" => Stays(r))
<1>1. [NewTurn EXCEPT !.pc = how].pc = how
  BY EndedTurn
<1>2. turn'[t] = [NewTurn EXCEPT !.pc = how] /\ \A r \in Turns \ {t} : turn'[r] = turn[r]
  BY EndsMoves
<1> HIDE DEF NewTurn
<1>3. turn'[t].pc = how /\ how \notin Active /\ turn[t].pc # "failed"
  BY <1>1, <1>2 DEF Active, AtCall, Ended
<1> QED
  BY <1>2, <1>3 DEF Keeps, Stays

\* or goes from one place at its call to another, keeps its place in the conversation.
LEMMA RoutedKeeps ==
  ASSUME turn \in [Turns -> TurnState], NEW t \in Turns, NEW place \in AtCall, turn[t].pc \in AtCall,
         turn' = [turn EXCEPT ![t].pc = place]
  PROVE  \A r \in Turns : Keeps(r) /\ Stays(r)
<1>1. place \in Places
  BY DEF AtCall, Places
<1>2. /\ \A r \in Turns \ {t} : turn'[r] = turn[r]
      /\ turn'[t].pc = place /\ turn'[t].left = turn[t].left
  BY <1>1, AwaitsMoves
<1>3. turn[t].pc # "failed" /\ turn[t].pc \in Active
  BY DEF AtCall, Active
<1> QED
  BY <1>2, <1>3 DEF Keeps, Stays

\* What is left after the first element.
LEMMA TailIs ==
  ASSUME NEW S, NEW s \in Seq(S), s # <<>>
  PROVE  /\ Len(s) \in Nat /\ Len(s) > 0 /\ Head(s) = s[1]
         /\ Tail(s) \in Seq(S) /\ Len(Tail(s)) = Len(s) - 1
         /\ \A k \in 1 .. Len(s) - 1 : Tail(s)[k] = s[k + 1]
         /\ Tail(s) = <<>> <=> Len(s) = 1
<1>1. Len(s) \in Nat /\ Len(s) > 0 /\ Head(s) = s[1]
  OBVIOUS
<1>2. Tail(s) \in Seq(S) /\ Len(Tail(s)) = Len(s) - 1
  OBVIOUS
<1>3. \A k \in 1 .. Len(s) - 1 : Tail(s)[k] = s[k + 1]
  OBVIOUS
<1>4. Tail(s) = <<>> <=> Len(Tail(s)) = 0
  BY <1>2, EmptySeq
<1> QED
  BY <1>1, <1>2, <1>3, <1>4

\* A result joins the reply that its turn is answering.
LEMMA ResultAnswers ==
  ASSUME TypeInv, HistInv, history' \in Seq(Message), UNCHANGED overlap,
         NEW t \in Turns, turn[t].pc \in AtCall, turn[t].left # <<>>, Result(t)
  PROVE  HistInv'
<1>0. /\ history \in Seq(Message) /\ history' = Append(history, ToolResult(t, Calling(t)))
      /\ turn \in [Turns -> TurnState] /\ turn[t].left \in Seq(Tools)
      /\ answered \in [Turns -> {"none", "once", "session", "decline"}]
  BY DEF TypeInv, TypeOK, Result
<1>1. /\ \A r \in Turns \ {t} : turn'[r] = turn[r]
      /\ \/ turn'[t].pc = "failed"
         \/ /\ turn'[t].pc = IF Tail(turn[t].left) = <<>> THEN "waiting" ELSE "calls"
            /\ turn'[t].left = Tail(turn[t].left)
  <2>1. [NewTurn EXCEPT !.pc = "failed"].pc = "failed"
    BY EndedTurn
  <2>2. /\ Moves(t)
        /\ \/ turn'[t] = [NewTurn EXCEPT !.pc = "failed"]
           \/ /\ turn'[t].pc = IF Tail(turn[t].left) = <<>> THEN "waiting" ELSE "calls"
              /\ turn'[t].left = Tail(turn[t].left)
    BY <1>0, ResultMoves
  <2> HIDE DEF NewTurn
  <2> QED
    BY <2>1, <2>2 DEF Moves
<1>2. /\ turn[t].pc \in Active /\ turn[t].pc # "failed"
      /\ \A r \in Turns : Keeps(r)
  BY <1>1 DEF Active, AtCall, Keeps
<1>3. SUFFICES ASSUME ~overlap PROVE OneActive' /\ RepliesAnswered'
  BY DEF HistInv
<1>4. OneActive /\ RepliesAnswered
  BY <1>3 DEF HistInv
<1>5. OneActive'
  BY <1>2, <1>4 DEF OneActive, Keeps
<1>6. /\ Len(history') = Len(history) + 1 /\ history'[Len(history) + 1] = ToolResult(t, Calling(t))
      /\ \A k \in 1 .. Len(history) : history'[k] = history[k]
      /\ Len(history) \in Nat /\ DOMAIN history = 1 .. Len(history) /\ DOMAIN history' = 1 .. Len(history) + 1
  BY <1>0
<1>7. ASSUME NEW i \in 1 .. Len(history), history[i].role = "assistant"
      PROVE  Whole(history', i) \/ turn'[history[i].turn].pc = "failed" \/ InProgress(i)'
  <2>1. /\ history[i].turn \in Turns /\ history[i].calls \in Seq(Tools) /\ history'[i] = history[i]
        /\ DOMAIN history[i].calls = 1 .. Len(history[i].calls) /\ i \in DOMAIN history
    BY <1>0, <1>6, MessageIs
  <2>2. ASSUME Whole(history, i) PROVE Whole(history', i)
    <3>1. Len(history) <= Len(history')
      BY <1>6
    <3> QED
      BY <1>0, <1>6, <2>2, <3>1, WholeGrows
  <2>3. CASE turn[history[i].turn].pc = "failed"
    BY <1>2, <2>1, <2>3 DEF Keeps
  <2>4. CASE InProgress(i) /\ turn'[history[i].turn].pc # "failed"
    <3> DEFINE done == Len(history) - i
               left == turn[t].left
    <3>1. history[i].turn = t
      <4>1. turn[history[i].turn].pc \in Active
        BY <2>4 DEF InProgress, Active
      <4> QED
        BY <1>2, <1>4, <2>1, <4>1 DEF OneActive
    <3>2. /\ Len(history[i].calls) = done + Len(left) /\ done \in Nat
          /\ \A k \in 1 .. done : history[i + k] = ToolResult(t, history[i].calls[k])
          /\ \A k \in 1 .. Len(left) : left[k] = history[i].calls[done + k]
      <4>1. done \in Nat
        BY <1>6
      <4>2. InProgress(i)
        BY <2>4
      <4> QED
        BY <3>1, <4>1, <4>2 DEF InProgress
    <3>3. /\ Len(left) \in Nat /\ Len(left) > 0 /\ Calling(t) = left[1]
          /\ Tail(left) \in Seq(Tools) /\ Len(Tail(left)) = Len(left) - 1
          /\ \A k \in 1 .. Len(left) - 1 : Tail(left)[k] = left[k + 1]
          /\ Tail(left) = <<>> <=> Len(left) = 1
      <4>1. left \in Seq(Tools) /\ left # <<>> /\ Calling(t) = Head(left)
        BY <1>0 DEF Calling
      <4> HIDE DEF left
      <4> QED
        BY <4>1, TailIs
    <3>4. Calling(t) = history[i].calls[done + 1]
      BY <3>2, <3>3
    <3>5. \A k \in 1 .. done + 1 : history'[i + k] = ToolResult(t, history[i].calls[k])
      <4> SUFFICES ASSUME NEW k \in 1 .. done + 1 PROVE history'[i + k] = ToolResult(t, history[i].calls[k])
        OBVIOUS
      <4>1. CASE k = done + 1
        BY <1>6, <3>4, <4>1
      <4>2. CASE k # done + 1
        <5>1. k \in 1 .. done /\ i + k \in 1 .. Len(history)
          BY <1>6, <3>2, <4>2
        <5> QED
          BY <1>6, <3>2, <5>1
      <4> QED
        BY <4>1, <4>2
    <3>6. turn'[t].left = Tail(left) /\ turn'[t].pc = IF Tail(left) = <<>> THEN "waiting" ELSE "calls"
      BY <1>1, <2>4, <3>1
    <3> HIDE DEF left
    <3>7. CASE Tail(left) = <<>>
      <4>1. Len(history[i].calls) = done + 1
        BY <3>2, <3>3, <3>7
      <4>2. \A k \in 1 .. done + 1 : i + k <= Len(history')
        BY <1>6, <3>2
      <4>3. Whole(history', i)
        BY <2>1, <3>1, <3>5, <4>1, <4>2 DEF Whole
      <4> QED
        BY <4>3
    <3>8. CASE Tail(left) # <<>>
      <4>1. Len(history') - i = done + 1 /\ Len(turn'[t].left) = Len(left) - 1
        BY <1>6, <3>2, <3>3, <3>6
      <4>2. Len(history[i].calls) = (done + 1) + (Len(left) - 1)
        BY <3>2, <3>3
      <4>3. \A k \in 1 .. Len(left) - 1 : turn'[t].left[k] = history[i].calls[(done + 1) + k]
        <5> SUFFICES ASSUME NEW k \in 1 .. Len(left) - 1
                     PROVE  turn'[t].left[k] = history[i].calls[(done + 1) + k]
          OBVIOUS
        <5>1. turn'[t].left[k] = left[k + 1] /\ k + 1 \in 1 .. Len(left)
          BY <3>3, <3>6
        <5>2. left[k + 1] = history[i].calls[done + (k + 1)] /\ done + (k + 1) = (done + 1) + k
          BY <3>2, <3>3
        <5> QED
          BY <5>1, <5>2
      <4>4. turn'[t].pc \in AtCall
        BY <3>6, <3>8 DEF AtCall
      <4> HIDE DEF done
      <4>5. InProgress(i)'
        BY <2>1, <3>1, <3>5, <4>1, <4>2, <4>3, <4>4 DEF InProgress, ToolResult
      <4> QED
        BY <4>5
    <3> QED
      BY <3>7, <3>8
  <2> QED
    BY <1>4, <1>6, <1>7, <2>2, <2>3, <2>4 DEF RepliesAnswered
<1>8. history'[Len(history) + 1].role # "assistant"
  BY <1>6 DEF ToolResult
<1>9. RepliesAnswered'
  <2>1. ASSUME NEW i \in DOMAIN history', history'[i].role = "assistant"
        PROVE  Whole(history', i) \/ turn'[history'[i].turn].pc = "failed" \/ InProgress(i)'
    <3>1. i \in 1 .. Len(history)
      BY <1>6, <1>8, <2>1
    <3> QED
      BY <1>6, <1>7, <2>1, <3>1
  <2> QED
    BY <2>1 DEF RepliesAnswered, Whole, ToolResult
<1> QED
  BY <1>5, <1>9

\* A turn at a call answers it, waits, asks or fails.
LEMMA CallStepAnswers ==
  ASSUME ConsoleInv, HistInv, history' \in Seq(Message), NEW t \in Turns, CallStep(t)
  PROVE  HistInv'
<1>1. /\ turn \in [Turns -> TurnState] /\ TypeInv
      /\ turn[t].pc = "approved" => Calling(t) \in Tier2
  BY DEF ConsoleInv, CallsInv, CallOk, TypeInv
<1>2. turn[t].pc \in AtCall /\ turn[t].pc \in Active /\ Silent
  BY <1>1, CallSteps DEF Active
<1>3. turn[t].left # <<>> /\ UNCHANGED overlap
  BY <1>2 DEF ConsoleInv, CallsInv, CallOk, Silent
<1>4. ASSUME Ends(t, "failed"), UNCHANGED history PROVE HistInv'
  <2>1. \A r \in Turns : Keeps(r) /\ Stays(r)
    BY <1>1, <1>2, <1>4, EndsKeeps DEF Ended
  <2> QED
    BY <1>1, <1>3, <1>4, <2>1, Quiet
<1>5. ASSUME NEW place \in AtCall, turn' = [turn EXCEPT ![t].pc = place], UNCHANGED history PROVE HistInv'
  <2>1. \A r \in Turns : Keeps(r) /\ Stays(r)
    BY <1>1, <1>2, <1>5, RoutedKeeps
  <2> QED
    BY <1>1, <1>3, <1>5, <2>1, Quiet
<1>6. ASSUME Result(t) PROVE HistInv'
  BY <1>1, <1>2, <1>3, <1>6, ResultAnswers
<1>7. ASSUME NEW place \in AtCall, Awaits(t, place) PROVE HistInv'
  BY <1>5, <1>7 DEF Awaits
<1>8. ASSUME Request(t) PROVE HistInv'
  <2> DEFINE place == IF mode = "piped" THEN "declined" ELSE "approval"
  <2>1. place \in AtCall /\ turn' = [turn EXCEPT ![t].pc = place] /\ UNCHANGED history
    BY <1>8 DEF Request, AtCall
  <2> HIDE DEF place
  <2> QED
    BY <2>1, <1>5
<1>9. {"reviewing", "requesting", "running"} \subseteq AtCall
  BY DEF AtCall
<1> QED
  BY <1>1, <1>4, <1>6, <1>7, <1>8, <1>9, CallSteps, Performs DEF Refused

\* The model's reply joins the conversation and is the one its turn answers.
LEMMA ReplyAnswers ==
  ASSUME ConsoleInv, HistInv, history' \in Seq(Message), NEW t \in Turns, NEW calls \in Replies, Reply(t, calls)
  PROVE  HistInv'
<1>0. /\ turn \in [Turns -> TurnState] /\ turn[t] \in TurnState /\ TypeInv /\ history \in Seq(Message)
      /\ turn[t].pc = "waiting" /\ turn[t].pc \in Active /\ UNCHANGED overlap /\ calls \in Seq(Tools)
  BY RepliesAssumption DEF ConsoleInv, TypeInv, TypeOK, Reply, Silent, Active
<1>1. CASE Ends(t, "failed") /\ UNCHANGED history
  <2>1. \A r \in Turns : Keeps(r) /\ Stays(r)
    BY <1>0, <1>1, EndsKeeps DEF Ended
  <2> QED
    BY <1>0, <1>1, <2>1, Quiet
<1>2. CASE /\ history' = Append(history, Assistant(t, calls))
           /\ \/ calls = <<>> /\ Ends(t, "completed")
              \/ turn' = [turn EXCEPT ![t].pc = "calls", ![t].left = calls, ![t].rounds = @ + 1]
  <2>1. SUFFICES ASSUME ~overlap PROVE OneActive' /\ RepliesAnswered'
    BY <1>0 DEF HistInv
  <2>2. OneActive /\ RepliesAnswered
    BY <2>1 DEF HistInv
  <2>3. \A r \in Turns : turn[r].pc \notin AtCall
    <3>1. turn[t].pc \notin AtCall
      BY <1>0 DEF AtCall
    <3> QED
      BY <1>0, <2>2, <3>1 DEF OneActive, Active
  <2>4. \A r \in Turns : Keeps(r)
    <3>1. CASE Ends(t, "completed")
      BY <1>0, <3>1, EndsKeeps DEF Ended
    <3>2. CASE turn' = [turn EXCEPT ![t].pc = "calls", ![t].left = calls, ![t].rounds = @ + 1]
      BY <1>0, <3>2 DEF Keeps, TurnState
    <3> QED
      BY <1>2, <3>1, <3>2
  <2>5. OneActive'
    BY <2>2, <2>4 DEF OneActive, Keeps
  <2>6. /\ Len(history') = Len(history) + 1 /\ history'[Len(history) + 1] = Assistant(t, calls)
        /\ \A k \in 1 .. Len(history) : history'[k] = history[k]
        /\ Len(history) \in Nat /\ DOMAIN history' = 1 .. Len(history) + 1 /\ Len(history) <= Len(history')
    BY <1>0, <1>2
  <2>7. Assistant(t, calls).calls = calls /\ Assistant(t, calls).turn = t
    BY DEF Assistant
  <2>. PICK last : last = Len(history) + 1
    OBVIOUS
  <2>8. Whole(history', last) \/ InProgress(last)'
    <3>1. CASE calls = <<>>
      BY <2>6, <2>7, <3>1 DEF Whole
    <3>2. CASE turn' = [turn EXCEPT ![t].pc = "calls", ![t].left = calls, ![t].rounds = @ + 1]
      <4>1. turn'[t].pc \in AtCall /\ turn'[t].left = calls
        BY <1>0, <3>2 DEF TurnState, AtCall
      <4>2. Len(history') - last = 0 /\ history'[last] = Assistant(t, calls)
        BY <2>6
      <4>3. \A k \in 1 .. Len(calls) : calls[k] = calls[0 + k]
        BY <1>0
      <4>4. Len(calls) = 0 + Len(calls)
        BY <1>0
      <4>5. \A k \in 1 .. 0 : FALSE
        OBVIOUS
      <4>6. InProgress(last)'
        BY <2>7, <4>1, <4>2, <4>3, <4>4, <4>5 DEF InProgress
      <4> QED
        BY <4>6
    <3> QED
      BY <1>2, <3>1, <3>2
  <2>9. ASSUME NEW i \in DOMAIN history', history'[i].role = "assistant"
        PROVE  Whole(history', i) \/ turn'[history'[i].turn].pc = "failed" \/ InProgress(i)'
    <3>1. CASE i = last
      BY <2>8, <3>1
    <3>2. CASE i # last
      <4>1. i \in 1 .. Len(history)
        BY <2>6, <3>2
      <4> QED
        BY <1>0, <2>2, <2>3, <2>4, <2>6, <2>9, <4>1, OldAnswered
    <3> QED
      BY <3>1, <3>2
  <2>10. RepliesAnswered'
    BY <2>9 DEF RepliesAnswered, Whole, ToolResult
  <2> QED
    BY <2>5, <2>10
<1> QED
  BY <1>1, <1>2 DEF Reply

\* The exchange of a pair has no calls.
LEMMA PairAnswers ==
  ASSUME ConsoleInv, HistInv, history' \in Seq(Message), NEW t \in Turns, PairEnds(t)
  PROVE  HistInv'
<1>0. /\ turn \in [Turns -> TurnState] /\ TypeInv /\ history \in Seq(Message)
      /\ turn[t].pc = "pairing" /\ turn[t].pc \in Active /\ UNCHANGED overlap
  BY DEF ConsoleInv, TypeInv, TypeOK, PairEnds, Silent, Active
<1>1. CASE Ends(t, "failed") /\ UNCHANGED history
  <2>1. \A r \in Turns : Keeps(r) /\ Stays(r)
    BY <1>0, <1>1, EndsKeeps DEF Ended
  <2> QED
    BY <1>0, <1>1, <2>1, Quiet
<1>2. CASE history' = history \o <<User(t), Assistant(t, <<>>)>> /\ Ends(t, "completed")
  <2>1. SUFFICES ASSUME ~overlap PROVE OneActive' /\ RepliesAnswered'
    BY <1>0 DEF HistInv
  <2>2. OneActive /\ RepliesAnswered
    BY <2>1 DEF HistInv
  <2>3. \A r \in Turns : turn[r].pc \notin AtCall
    <3>1. turn[t].pc \notin AtCall
      BY <1>0 DEF AtCall
    <3> QED
      BY <1>0, <2>2, <3>1 DEF OneActive, Active
  <2>4. \A r \in Turns : Keeps(r)
    BY <1>0, <1>2, EndsKeeps DEF Ended
  <2>5. OneActive'
    BY <2>2, <2>4 DEF OneActive, Keeps
  <2>6. /\ Len(history') = Len(history) + 2 /\ history'[Len(history) + 1] = User(t)
        /\ history'[Len(history) + 2] = Assistant(t, <<>>)
        /\ \A k \in 1 .. Len(history) : history'[k] = history[k]
        /\ Len(history) \in Nat /\ DOMAIN history' = 1 .. Len(history) + 2 /\ Len(history) <= Len(history')
    BY <1>0, <1>2
  <2>7. ASSUME NEW i \in DOMAIN history', history'[i].role = "assistant"
        PROVE  Whole(history', i) \/ turn'[history'[i].turn].pc = "failed"
    <3>1. CASE i = Len(history) + 2
      BY <2>6, <3>1 DEF Whole, Assistant
    <3>2. CASE i = Len(history) + 1
      BY <2>6, <2>7, <3>2 DEF User
    <3>3. CASE i \in 1 .. Len(history)
      BY <1>0, <2>2, <2>3, <2>4, <2>6, <2>7, <3>3, OldAnswered
    <3> QED
      BY <2>6, <3>1, <3>2, <3>3
  <2>8. RepliesAnswered'
    BY <2>7 DEF RepliesAnswered, Whole, ToolResult
  <2> QED
    BY <2>5, <2>8
<1> QED
  BY <1>1, <1>2 DEF PairEnds

\* A turn begins when the others have ended, or the overlap is on record.
LEMMA SubmitAnswers ==
  ASSUME ConsoleInv, HistInv, history' \in Seq(Message), NEW t \in Turns, NEW paired \in BOOLEAN,
         NEW reviewed \in BOOLEAN, Submit(t, paired, reviewed)
  PROVE  HistInv'
<1>0. turn \in [Turns -> TurnState] /\ TypeInv /\ history \in Seq(Message) /\ turn[t].pc = "none"
  BY DEF ConsoleInv, TypeInv, TypeOK, Submit, NextTurn
<1>1. SUFFICES ASSUME ~overlap' PROVE OneActive' /\ RepliesAnswered'
  BY DEF HistInv
<1>2. OneActive /\ RepliesAnswered /\ AllEnded
  BY <1>1 DEF HistInv, Submit
<1>3. \A r \in Turns : turn[r].pc \notin Active /\ turn[r].pc \notin AtCall
  BY <1>2 DEF AllEnded, Ended, Active, AtCall
<1>4. PICK next : turn' = [turn EXCEPT ![t] = next]
  BY DEF Submit
<1>5. \A r \in Turns \ {t} : turn'[r] = turn[r]
  BY <1>4
<1>6. OneActive'
  BY <1>3, <1>5 DEF OneActive
<1>7. /\ Len(history) \in Nat /\ Len(history) <= Len(history') /\ DOMAIN history = 1 .. Len(history)
      /\ \A k \in 1 .. Len(history) : history'[k] = history[k]
      /\ \A i \in DOMAIN history' : i \in 1 .. Len(history) \/ history'[i] = User(t)
  <2>1. CASE history' = history
    BY <1>0, <2>1
  <2>2. CASE history' = Append(history, User(t))
    BY <1>0, <2>2
  <2> QED
    BY <2>1, <2>2 DEF Submit
<1>8. ASSUME NEW i \in DOMAIN history', history'[i].role = "assistant"
      PROVE  Whole(history', i) \/ turn'[history'[i].turn].pc = "failed"
  <2>1. i \in DOMAIN history /\ history'[i] = history[i]
    BY <1>7, <1>8 DEF User
  <2>2. history[i].turn \in Turns
    BY <1>0, <2>1, MessageIs
  <2>3. ~InProgress(i)
    BY <1>3, <2>2 DEF InProgress
  <2>4. CASE turn[history[i].turn].pc = "failed"
    <3>1. history[i].turn # t
      BY <1>0, <2>4
    <3> QED
      BY <1>5, <2>1, <2>2, <2>4, <3>1
  <2>5. ASSUME Whole(history, i) PROVE Whole(history', i)
    BY <1>0, <1>7, <2>1, <2>5, WholeGrows
  <2> QED
    BY <1>2, <1>8, <2>1, <2>3, <2>4, <2>5 DEF RepliesAnswered
<1>9. RepliesAnswered'
  BY <1>8 DEF RepliesAnswered, Whole, ToolResult
<1> QED
  BY <1>6, <1>9

\* The operator's keys and the server's answers reroute turns and add nothing.
LEMMA KeysAnswer ==
  ASSUME ConsoleInv, HistInv, UNCHANGED <<history, overlap>>,
         \/ \E choice \in {"once", "session", "decline"} : Answer(choice)
         \/ \E leave \in BOOLEAN : Interrupt(leave)
         \/ SettleRequests
  PROVE  HistInv'
<1>0. /\ turn \in [Turns -> TurnState] /\ TypeInv /\ \A t \in Turns : turn[t] \in TurnState
      /\ resolver = approval /\ (approval # 0 => approval \in Turns /\ turn[approval].pc \in AtCall)
  BY DEF ConsoleInv, TypeInv, TypeOK, ShownInv, AtCall
<1>1. ASSUME NEW choice, Answer(choice) PROVE \A r \in Turns : Keeps(r) /\ Stays(r)
  <2> DEFINE place == IF choice = "decline" THEN "declined" ELSE "approved"
  <2>1. PICK asked \in Turns : asked = resolver /\ turn[asked].pc \in AtCall
    BY <1>0, <1>1 DEF Answer
  <2>2. place \in AtCall /\ turn' = [turn EXCEPT ![asked].pc = place]
    BY <1>1, <2>1 DEF Answer, AtCall
  <2> HIDE DEF place
  <2> QED
    BY <1>0, <2>1, <2>2, RoutedKeeps
<1>2. ASSUME NEW leave, Interrupt(leave), NEW r \in Turns PROVE Keeps(r) /\ Stays(r)
  <2>1. CASE UNCHANGED turn
    BY <2>1 DEF Keeps, Stays, AtCall
  <2>2. CASE turn' = [u \in Turns |-> [turn[u] EXCEPT !.pc = IF u = resolver THEN "declined" ELSE @,
                                                      !.aborted = @ \/ u = controller]]
    <3> DEFINE place == IF r = resolver THEN "declined" ELSE turn[r].pc
               flag == turn[r].aborted \/ r = controller
    <3>1. turn'[r] = [turn[r] EXCEPT !.pc = place, !.aborted = flag]
      BY <2>2
    <3>2. place = turn[r].pc \/ (turn[r].pc \in AtCall /\ place \in AtCall)
      BY <1>0, TurnsNotZero DEF AtCall
    <3> HIDE DEF place, flag
    <3>3. turn'[r].pc = place /\ turn'[r].left = turn[r].left
      BY <1>0, <3>1 DEF TurnState
    <3> QED
      BY <3>2, <3>3 DEF Keeps, Stays, Active, AtCall
  <2> QED
    BY <1>2, <2>1, <2>2 DEF Interrupt
<1>3. ASSUME SettleRequests, NEW r \in Turns PROVE Keeps(r) /\ Stays(r)
  <2> DEFINE place == IF turn[r].pc = "requesting" THEN "answered" ELSE turn[r].pc
  <2>1. turn'[r] = [turn[r] EXCEPT !.pc = place]
    BY <1>3 DEF SettleRequests
  <2>2. place = turn[r].pc \/ (turn[r].pc \in AtCall /\ place \in AtCall)
    BY DEF AtCall
  <2> HIDE DEF place
  <2>3. turn'[r].pc = place /\ turn'[r].left = turn[r].left
    BY <1>0, <2>1 DEF TurnState
  <2> QED
    BY <2>2, <2>3 DEF Keeps, Stays, Active, AtCall
<1> QED
  BY <1>0, <1>1, <1>2, <1>3, Quiet

\* Every step keeps the conversation answered.
LEMMA StepAnswers ==
  ASSUME ConsoleInv, HistInv, [Next]_vars
  PROVE  HistInv'
<1>0. turn \in [Turns -> TurnState] /\ TypeInv /\ history' \in Seq(Message)
  BY StepHistory DEF ConsoleInv, TypeInv
<1>1. ASSUME NEW t \in Turns, StreamFails(t) PROVE HistInv'
  <2>1. turn[t].pc \in Active /\ Ends(t, "failed") /\ UNCHANGED <<history, overlap>>
    BY <1>1 DEF StreamFails, Silent, Active
  <2>2. \A r \in Turns : Keeps(r) /\ Stays(r)
    BY <1>0, <2>1, EndsKeeps DEF Ended
  <2> QED
    BY <1>0, <2>1, <2>2, Quiet
<1>2. ASSUME NEW t \in Turns, ServerAnswers(t) PROVE HistInv'
  <2>1. /\ turn[t].pc \in AtCall /\ "answered" \in AtCall
        /\ turn' = [turn EXCEPT ![t].pc = "answered"] /\ UNCHANGED <<history, overlap>>
    BY <1>2 DEF ServerAnswers, AtCall, ghostVars
  <2>2. \A r \in Turns : Keeps(r) /\ Stays(r)
    BY <1>0, <2>1, RoutedKeeps
  <2> QED
    BY <1>0, <2>1, <2>2, Quiet
<1>3. ASSUME UNCHANGED <<turn, history, overlap>> PROVE HistInv'
  <2>1. \A r \in Turns : Keeps(r) /\ Stays(r)
    BY <1>3 DEF Keeps, Stays
  <2> QED
    BY <1>0, <1>3, <2>1, Quiet
<1>4. ASSUME NEW choice \in {"once", "session", "decline"}, Answer(choice) PROVE HistInv'
  BY <1>4, KeysAnswer DEF Answer
<1>5. ASSUME NEW leave \in BOOLEAN, Interrupt(leave) PROVE HistInv'
  BY <1>5, KeysAnswer DEF Interrupt, ghostVars
<1>6. CASE Disconnected
  BY <1>6, KeysAnswer DEF Disconnected, ghostVars
<1>7. ASSUME NEW quiet \in BOOLEAN, ServerExits(quiet) PROVE HistInv'
  BY <1>3, <1>7, KeysAnswer DEF ServerExits, ghostVars
<1> QED
  BY <1>0, <1>1, <1>2, <1>3, <1>4, <1>5, <1>6, <1>7, CallStepAnswers, ReplyAnswers, PairAnswers, SubmitAnswers
     DEF Next, TurnStep, Answers, Operator, CallStep, Permit, RewindCommand, UndoCommand, Exit, McpAdd, McpRemove,
         McpConnected, McpFails, ChildError, vars, ghostVars

\* A reply that is being answered has as many results as calls its turn is done with.
LEMMA InvAnswered ==
  ASSUME TypeInv, HistInv
  PROVE  HistoryIsAnswered
<1>1. SUFFICES ASSUME ~overlap, NEW i \in DOMAIN history, history[i].role = "assistant", InProgress(i)
               PROVE  Answered(i) + Len(turn[history[i].turn].left) = Len(history[i].calls)
  BY DEF HistInv, HistoryIsAnswered, RepliesAnswered
<1>2. /\ history \in Seq(Message) /\ Len(history) \in Nat /\ i \in 1 .. Len(history)
      /\ history[i].turn \in Turns
  <2>1. history \in Seq(Message)
    BY DEF TypeInv, TypeOK
  <2> QED
    BY <2>1, MessageIs
<1>3. \A j \in i + 1 .. Len(history) : history[j].role = "tool"
  <2> SUFFICES ASSUME NEW j \in i + 1 .. Len(history) PROVE history[j].role = "tool"
    OBVIOUS
  <2>1. j - i \in 1 .. Len(history) - i /\ i + (j - i) = j
    BY <1>2
  <2>2. history[i + (j - i)] = ToolResult(history[i].turn, history[i].calls[j - i])
    BY <1>1, <2>1 DEF InProgress
  <2> QED
    BY <2>1, <2>2 DEF ToolResult
<1>4. {j \in i + 1 .. Len(history) : \A k \in i + 1 .. j : history[k].role = "tool"} = i + 1 .. Len(history)
  <2> SUFFICES ASSUME NEW j \in i + 1 .. Len(history), NEW k \in i + 1 .. j PROVE history[k].role = "tool"
    BY Zenon
  <2>1. k \in i + 1 .. Len(history)
    BY <1>2
  <2> QED
    BY <1>3, <2>1
<1>5. Cardinality(i + 1 .. Len(history)) = Len(history) - i
  <2>1. i + 1 \in Int /\ Len(history) \in Int
    BY <1>2
  <2>2. Cardinality(i + 1 .. Len(history)) = IF i + 1 > Len(history) THEN 0 ELSE Len(history) - (i + 1) + 1
    BY <2>1, FS_Interval
  <2> QED
    BY <1>2, <2>2
<1>6. Answered(i) = Len(history) - i
  BY <1>4, <1>5 DEF Answered
<1>7. Len(history[i].calls) = (Len(history) - i) + Len(turn[history[i].turn].left)
  BY <1>1 DEF InProgress
<1> QED
  BY <1>6, <1>7

\* In the stored conversation every call of the model is answered once and in order,
\* through aborts, refusals, declined and replaced requests and a server that exits; only
\* a turn that failed leaves calls without results, unless two turns ran at once
\* (agentTurn; App's status in tui.tsx).
THEOREM ConversationIsAnswered == Spec => []HistoryIsAnswered
<1>1. Init => HistInv
  BY DEF Init, HistInv, OneActive, RepliesAnswered, NewTurn, Active, AtCall
<1>2. ConsoleInv /\ HistInv /\ [Next]_vars => HistInv'
  BY StepAnswers
<1>3. ConsoleInv /\ HistInv => HistoryIsAnswered
  BY InvAnswered DEF ConsoleInv
<1> QED
  BY <1>1, <1>2, <1>3, ConsoleInvariant, PTL DEF Spec

-----------------------------------------------------------------------------
(* What the model is sent                                                  *)

\* A part of a conversation grows by one message.
LEMMA PartGrows ==
  ASSUME NEW messages \in Seq(Message), NEW i \in 1 .. Len(messages), NEW from \in 1 .. i
  PROVE  SubSeq(messages, from, i) = Append(SubSeq(messages, from, i - 1), messages[i])
  OBVIOUS

\* The messages of a part of a conversation.
LEMMA PartIs ==
  ASSUME NEW messages \in Seq(Message), NEW from \in 1 .. Len(messages)
  PROVE  /\ SubSeq(messages, from, Len(messages)) \in Seq(Message)
         /\ Len(SubSeq(messages, from, Len(messages))) = Len(messages) + 1 - from
         /\ \A k \in 1 .. Len(messages) + 1 - from :
              SubSeq(messages, from, Len(messages))[k] = messages[from - 1 + k]
  OBVIOUS

\* When only turn t has spoken since it began, it is sent all that has been stored since.
LEMMA ContextIs ==
  ASSUME history \in Seq(Message), NEW t,
         turn[t].upto \in 0 .. Len(history), turn[t].from \in 1 .. turn[t].upto,
         \A k \in turn[t].upto + 1 .. Len(history) : history[k].turn = t
  PROVE  Context(t) = SubSeq(history, turn[t].from, Len(history))
<1> DEFINE n == Len(history)
           from == turn[t].from
           upto == turn[t].upto
           Part(i) == SubSeq(history, from, i)
           Fits(f) == f = [i \in upto .. n |-> IF i = upto THEN Part(i)
                                               ELSE IF history[i].turn = t THEN Append(f[i - 1], history[i])
                                               ELSE f[i - 1]]
           sent == CHOOSE f : Fits(f)
<1>0. /\ n \in Nat /\ upto \in 0 .. n /\ from \in 1 .. upto /\ upto \in Nat
      /\ \A k \in upto + 1 .. n : history[k].turn = t
  OBVIOUS
<1>1. ASSUME NEW i \in upto + 1 .. n
      PROVE  Part(i) = Append(Part(i - 1), history[i]) /\ i - 1 \in upto .. n /\ i \in upto .. n /\ i # upto
  <2>1. i \in 1 .. Len(history) /\ from \in 1 .. i
    BY <1>0
  <2> HIDE DEF from, upto
  <2>2. Part(i) = Append(Part(i - 1), history[i])
    BY <2>1, PartGrows
  <2> QED
    BY <1>0, <2>2
<1>2. Context(t) = sent[n]
  BY DEF Context
<1> HIDE DEF Part, from, upto, n
<1>3. Fits([i \in upto .. n |-> Part(i)])
  <2> DEFINE g == [i \in upto .. n |-> Part(i)]
  <2>1. ASSUME NEW i \in upto .. n
        PROVE  g[i] = IF i = upto THEN Part(i)
                      ELSE IF history[i].turn = t THEN Append(g[i - 1], history[i]) ELSE g[i - 1]
    <3>1. CASE i = upto
      BY <3>1
    <3>2. CASE i # upto
      <4>1. i \in upto + 1 .. n
        BY <1>0, <3>2
      <4> QED
        BY <1>0, <1>1, <3>2, <4>1
    <3> QED
      BY <3>1, <3>2
  <2> QED
    BY <2>1
<1>4. Fits(sent)
  <2> HIDE DEF Fits
  <2> QED
    BY <1>3
<1> HIDE DEF sent
<1>5. sent[upto] = Part(upto)
  BY <1>0, <1>4
<1>6. ASSUME NEW i \in upto + 1 .. n PROVE sent[i] = Append(sent[i - 1], history[i])
  BY <1>0, <1>1, <1>4
<1> HIDE DEF Fits
<1>7. sent[n] = Part(n)
  <2> DEFINE bad == {i \in upto .. n : sent[i] # Part(i)}
  <2>1. SUFFICES ASSUME bad # {} PROVE FALSE
    BY <1>0
  <2>2. PICK i \in bad : \A m \in bad : i <= m
    <3>1. bad \subseteq Nat
      BY <1>0
    <3> HIDE DEF bad
    <3> QED
      BY <2>1, <3>1, LeastNatural
  <2>3. i \in upto + 1 .. n /\ ~(i <= i - 1)
    BY <1>0, <1>5, <2>2
  <2>4. sent[i - 1] = Part(i - 1)
    BY <1>1, <2>2, <2>3
  <2>5. sent[i] = Part(i)
    BY <1>1, <1>6, <2>3, <2>4
  <2> QED
    BY <2>2, <2>5
<1> QED
  BY <1>2, <1>7 DEF Part, from, n

\* A turn that speaks has a window that begins with a user, and is the only one that has
\* spoken since it began.
WindowOk(t) ==
  turn[t].pc \in AtCall \cup {"waiting"} =>
    /\ turn[t].from \in 1 .. turn[t].upto /\ turn[t].upto <= Len(history)
    /\ turn[t].from = 1 \/ history[turn[t].from].role = "user"
    /\ \A k \in turn[t].upto + 1 .. Len(history) : history[k].turn = t

\* The reply that turn t is answering is at place i.
Replying(t, i) == history[i].role = "assistant" /\ history[i].turn = t /\ InProgress(i)

CallsHaveReply == \A t \in Turns : turn[t].pc \in AtCall => \E i \in DOMAIN history : Replying(t, i)

\* The result at place i is one of the reply at place j: only results lie between them.
Follows(messages, j, i) ==
  /\ messages[j].role = "assistant" /\ i - j <= Len(messages[j].calls)
  /\ \A k \in j + 1 .. i : messages[k].role = "tool"

ResultsFollow ==
  \A i \in DOMAIN history : history[i].role = "tool" => \E j \in 1 .. i - 1 : Follows(history, j, i)

TurnsInOrder ==
  /\ \A r, t \in Turns : r < t /\ turn[t].pc # "none" => turn[r].pc \in Ended
  /\ \A i \in DOMAIN history : turn[history[i].turn].pc # "none"

\* Why the context is whole: the window begins where no result is cut from its reply, and
\* what follows it is the turn's own.
WindowInv ==
  overlap \/ ((\A t \in Turns : WindowOk(t)) /\ CallsHaveReply /\ ResultsFollow /\ TurnsInOrder)

\* A turn goes on as it began, or ends.
GoesOn(r) ==
  /\ turn'[r].pc \in AtCall \cup {"waiting"} =>
       /\ turn[r].pc \in AtCall \cup {"waiting"}
       /\ turn'[r].from = turn[r].from /\ turn'[r].upto = turn[r].upto
  /\ turn[r].pc = "none" <=> turn'[r].pc = "none"
  /\ turn[r].pc \in Ended => turn'[r].pc \in Ended

\* A turn comes to a call only with a reply.
KeepsCall(r) == turn'[r].pc \in AtCall => turn[r].pc \in AtCall /\ turn'[r].left = turn[r].left

\* The order of the turns stays, and so does the conversation's.
LEMMA OrderKept ==
  ASSUME TypeInv, TurnsInOrder, \A r \in Turns : GoesOn(r), history' \in Seq(Message),
         \A i \in DOMAIN history' :
           \/ i \in DOMAIN history /\ history'[i] = history[i]
           \/ history'[i].turn \in Turns /\ turn[history'[i].turn].pc # "none"
  PROVE  TurnsInOrder'
<1>1. ASSUME NEW i \in DOMAIN history' PROVE turn'[history'[i].turn].pc # "none"
  <2>1. turn[history'[i].turn].pc # "none"
    BY DEF TurnsInOrder
  <2>2. history'[i].turn \in Turns
    BY MessageIs
  <2> QED
    BY <2>1, <2>2 DEF GoesOn
<1>2. ASSUME NEW r \in Turns, NEW t \in Turns, r < t, turn'[t].pc # "none" PROVE turn'[r].pc \in Ended
  BY <1>2 DEF TurnsInOrder, GoesOn
<1> QED
  BY <1>1, <1>2 DEF TurnsInOrder

\* What is added to a conversation leaves its results where they follow.
LEMMA FollowsGrows ==
  ASSUME NEW old \in Seq(Message), NEW new \in Seq(Message), Len(old) <= Len(new),
         \A k \in 1 .. Len(old) : new[k] = old[k],
         NEW i \in 1 .. Len(old), NEW j \in 1 .. i - 1, Follows(old, j, i)
  PROVE  Follows(new, j, i)
<1>1. j \in 1 .. Len(old) /\ \A k \in j + 1 .. i : k \in 1 .. Len(old)
  OBVIOUS
<1> QED
  BY <1>1 DEF Follows

\* A step that adds nothing to the conversation, and only reroutes or ends turns, keeps the windows.
LEMMA QuietWindows ==
  ASSUME TypeInv, WindowInv, UNCHANGED <<history, overlap>>, \A r \in Turns : GoesOn(r) /\ KeepsCall(r)
  PROVE  WindowInv'
<1> SUFFICES ASSUME ~overlap PROVE (\A t \in Turns : WindowOk(t)') /\ CallsHaveReply' /\ ResultsFollow' /\ TurnsInOrder'
  BY DEF WindowInv
<1>1. \A t \in Turns : WindowOk(t)'
  BY DEF WindowInv, WindowOk, GoesOn
<1>2. ASSUME NEW t \in Turns, turn'[t].pc \in AtCall PROVE \E i \in DOMAIN history' : Replying(t, i)'
  <2>1. turn[t].pc \in AtCall /\ turn'[t].left = turn[t].left
    BY <1>2 DEF KeepsCall
  <2>2. PICK i \in DOMAIN history : Replying(t, i)
    BY <2>1 DEF WindowInv, CallsHaveReply
  <2>3. Replying(t, i)'
    BY <1>2, <2>1, <2>2 DEF Replying, InProgress, ToolResult
  <2> QED
    BY <2>2, <2>3
<1>3. ResultsFollow'
  BY DEF WindowInv, ResultsFollow, Follows
<1>4. TurnsInOrder'
  BY OrderKept DEF WindowInv, TypeInv, TypeOK
<1> QED
  BY <1>1, <1>2, <1>3, <1>4 DEF CallsHaveReply

\* A turn that ends,
LEMMA EndsGoesOn ==
  ASSUME turn \in [Turns -> TurnState], NEW t \in Turns, NEW how \in Ended, Ends(t, how), turn[t].pc \in Active
  PROVE  \A r \in Turns : GoesOn(r) /\ KeepsCall(r)
<1>1. [NewTurn EXCEPT !.pc = how].pc = how
  BY EndedTurn
<1>2. turn'[t] = [NewTurn EXCEPT !.pc = how] /\ \A r \in Turns \ {t} : turn'[r] = turn[r]
  BY EndsMoves
<1> HIDE DEF NewTurn
<1>3. /\ turn'[t].pc = how /\ how \in Ended /\ how \notin AtCall \cup {"waiting"} /\ how # "none"
      /\ turn[t].pc # "none" /\ turn[t].pc \notin Ended
  BY <1>1, <1>2 DEF Active, AtCall, Ended
<1> QED
  BY <1>2, <1>3 DEF GoesOn, KeepsCall

\* or goes from one place at its call to another, goes on as it began.
LEMMA RoutedGoesOn ==
  ASSUME turn \in [Turns -> TurnState], NEW t \in Turns, NEW place \in AtCall, turn[t].pc \in AtCall,
         turn' = [turn EXCEPT ![t].pc = place]
  PROVE  \A r \in Turns : GoesOn(r) /\ KeepsCall(r)
<1>1. /\ \A r \in Turns \ {t} : turn'[r] = turn[r]
      /\ turn'[t].pc = place /\ turn'[t].left = turn[t].left
      /\ turn'[t].from = turn[t].from /\ turn'[t].upto = turn[t].upto
  BY DEF TurnState
<1>2. place # "none" /\ turn[t].pc # "none" /\ turn[t].pc \notin Ended
  BY DEF AtCall, Ended
<1> QED
  BY <1>1, <1>2 DEF GoesOn, KeepsCall

\* The operator's keys and the server's answers reroute turns and add nothing.
LEMMA KeysGoOn ==
  ASSUME ConsoleInv,
         \/ \E choice \in {"once", "session", "decline"} : Answer(choice)
         \/ \E leave \in BOOLEAN : Interrupt(leave)
         \/ SettleRequests
  PROVE  \A r \in Turns : GoesOn(r) /\ KeepsCall(r)
<1>0. /\ turn \in [Turns -> TurnState] /\ TypeInv /\ \A t \in Turns : turn[t] \in TurnState
      /\ resolver = approval /\ (approval # 0 => approval \in Turns /\ turn[approval].pc \in AtCall)
  BY DEF ConsoleInv, TypeInv, TypeOK, ShownInv, AtCall
<1>1. ASSUME NEW choice, Answer(choice) PROVE \A r \in Turns : GoesOn(r) /\ KeepsCall(r)
  <2> DEFINE place == IF choice = "decline" THEN "declined" ELSE "approved"
  <2>1. PICK asked \in Turns : asked = resolver /\ turn[asked].pc \in AtCall
    BY <1>0, <1>1 DEF Answer
  <2>2. place \in AtCall /\ turn' = [turn EXCEPT ![asked].pc = place]
    BY <1>1, <2>1 DEF Answer, AtCall
  <2> HIDE DEF place
  <2> QED
    BY <1>0, <2>1, <2>2, RoutedGoesOn
<1>2. ASSUME NEW r \in Turns, NEW place, NEW flag, turn'[r] = [turn[r] EXCEPT !.pc = place, !.aborted = flag],
             place = turn[r].pc \/ (turn[r].pc \in AtCall /\ place \in AtCall)
      PROVE  GoesOn(r) /\ KeepsCall(r)
  <2>1. /\ turn'[r].pc = place /\ turn'[r].left = turn[r].left
        /\ turn'[r].from = turn[r].from /\ turn'[r].upto = turn[r].upto
    BY <1>0, <1>2 DEF TurnState
  <2> QED
    BY <1>2, <2>1 DEF GoesOn, KeepsCall, AtCall, Ended
<1>3. ASSUME NEW leave, Interrupt(leave), NEW r \in Turns PROVE GoesOn(r) /\ KeepsCall(r)
  <2>1. CASE UNCHANGED turn
    BY <2>1 DEF GoesOn, KeepsCall
  <2>2. CASE turn' = [u \in Turns |-> [turn[u] EXCEPT !.pc = IF u = resolver THEN "declined" ELSE @,
                                                      !.aborted = @ \/ u = controller]]
    <3> DEFINE place == IF r = resolver THEN "declined" ELSE turn[r].pc
               flag == turn[r].aborted \/ r = controller
    <3>1. turn'[r] = [turn[r] EXCEPT !.pc = place, !.aborted = flag]
      BY <2>2
    <3>2. place = turn[r].pc \/ (turn[r].pc \in AtCall /\ place \in AtCall)
      BY <1>0, TurnsNotZero DEF AtCall
    <3> HIDE DEF place, flag
    <3> QED
      BY <1>2, <3>1, <3>2
  <2> QED
    BY <1>3, <2>1, <2>2 DEF Interrupt
<1>4. ASSUME SettleRequests, NEW r \in Turns PROVE GoesOn(r) /\ KeepsCall(r)
  <2> DEFINE place == IF turn[r].pc = "requesting" THEN "answered" ELSE turn[r].pc
  <2>1. turn'[r] = [turn[r] EXCEPT !.pc = place]
    BY <1>4 DEF SettleRequests
  <2>2. place = turn[r].pc \/ (turn[r].pc \in AtCall /\ place \in AtCall)
    BY DEF AtCall
  <2> HIDE DEF place
  <2>3. /\ turn'[r].pc = place /\ turn'[r].left = turn[r].left
        /\ turn'[r].from = turn[r].from /\ turn'[r].upto = turn[r].upto
    BY <1>0, <2>1 DEF TurnState
  <2> QED
    BY <2>2, <2>3 DEF GoesOn, KeepsCall, AtCall, Ended
<1> QED
  BY <1>1, <1>3, <1>4

\* What the turn under way adds to the conversation keeps the windows and the order, when
\* its results follow their reply.
LEMMA AddedWindows ==
  ASSUME TypeInv, OneActive, ~overlap, WindowInv, NEW t \in Turns, turn[t].pc \in Active,
         \A r \in Turns : GoesOn(r), history' \in Seq(Message), Len(history) <= Len(history'),
         \A k \in 1 .. Len(history) : history'[k] = history[k],
         \A k \in Len(history) + 1 .. Len(history') :
           /\ history'[k].turn = t
           /\ history'[k].role = "tool" => \E j \in 1 .. k - 1 : Follows(history', j, k)
  PROVE  /\ \A r \in Turns : WindowOk(r)'
         /\ ResultsFollow' /\ TurnsInOrder'
         /\ \A r \in Turns : turn'[r].pc \in AtCall \cup {"waiting"} => r = t
<1>0. /\ history \in Seq(Message) /\ Len(history) \in Nat /\ Len(history') \in Nat
      /\ DOMAIN history = 1 .. Len(history) /\ DOMAIN history' = 1 .. Len(history')
      /\ turn \in [Turns -> TurnState]
  <2>1. history \in Seq(Message) /\ turn \in [Turns -> TurnState]
    BY DEF TypeInv, TypeOK
  <2> QED
    BY <2>1
<1>1. (\A r \in Turns : WindowOk(r)) /\ ResultsFollow /\ TurnsInOrder
  BY DEF WindowInv
<1>2. ASSUME NEW r \in Turns, turn'[r].pc \in AtCall \cup {"waiting"}
      PROVE  r = t
  BY <1>2 DEF GoesOn, OneActive, Active
<1>3. ASSUME NEW r \in Turns, turn'[r].pc \in AtCall \cup {"waiting"} PROVE WindowOk(r)'
  <2>1. /\ r = t /\ turn[t].pc \in AtCall \cup {"waiting"}
        /\ turn'[t].from = turn[t].from /\ turn'[t].upto = turn[t].upto
    BY <1>2, <1>3 DEF GoesOn
  <2>2. /\ turn[t].from \in 1 .. turn[t].upto /\ turn[t].upto <= Len(history)
        /\ turn[t].from = 1 \/ history[turn[t].from].role = "user"
        /\ \A k \in turn[t].upto + 1 .. Len(history) : history[k].turn = t
    BY <1>1, <2>1 DEF WindowOk
  <2>3. turn[t].from \in Nat /\ turn[t].upto \in Nat
    BY <1>0 DEF TurnState
  <2>4. turn[t].from \in 1 .. Len(history) /\ turn[t].upto <= Len(history')
    BY <1>0, <2>2, <2>3
  <2>5. turn[t].from = 1 \/ history'[turn[t].from].role = "user"
    BY <2>2, <2>4
  <2>6. ASSUME NEW k \in turn[t].upto + 1 .. Len(history') PROVE history'[k].turn = t
    <3>1. CASE k <= Len(history)
      <4>1. k \in turn[t].upto + 1 .. Len(history) /\ k \in 1 .. Len(history)
        BY <1>0, <2>3, <2>6, <3>1
      <4> QED
        BY <2>2, <4>1
    <3>2. CASE ~(k <= Len(history))
      <4>1. k \in Len(history) + 1 .. Len(history')
        BY <1>0, <2>3, <2>6, <3>2
      <4> QED
        BY <4>1
    <3> QED
      BY <3>1, <3>2
  <2> QED
    BY <2>1, <2>2, <2>4, <2>5, <2>6 DEF WindowOk
<1>4. ASSUME NEW r \in Turns PROVE WindowOk(r)'
  BY <1>3 DEF WindowOk
<1>5. ASSUME NEW i \in DOMAIN history', history'[i].role = "tool"
      PROVE  \E j \in 1 .. i - 1 : Follows(history', j, i)
  <2>1. CASE i \in 1 .. Len(history)
    <3>1. history[i].role = "tool"
      BY <1>5, <2>1
    <3>2. PICK j \in 1 .. i - 1 : Follows(history, j, i)
      BY <1>0, <1>1, <2>1, <3>1 DEF ResultsFollow
    <3>3. Follows(history', j, i)
      BY <1>0, <2>1, <3>2, FollowsGrows
    <3> QED
      BY <3>3
  <2>2. CASE i \notin 1 .. Len(history)
    <3>1. i \in Len(history) + 1 .. Len(history')
      BY <1>0, <2>2
    <3> QED
      BY <1>5, <3>1
  <2> QED
    BY <2>1, <2>2
<1>6. TurnsInOrder'
  <2>1. ASSUME NEW i \in DOMAIN history'
        PROVE  \/ i \in DOMAIN history /\ history'[i] = history[i]
               \/ history'[i].turn \in Turns /\ turn[history'[i].turn].pc # "none"
    <3>1. CASE i \in 1 .. Len(history)
      BY <1>0, <3>1
    <3>2. CASE i \notin 1 .. Len(history)
      <4>1. i \in Len(history) + 1 .. Len(history')
        BY <1>0, <3>2
      <4> QED
        BY <4>1 DEF Active, AtCall
    <3> QED
      BY <3>1, <3>2
  <2> QED
    BY <1>1, <2>1, OrderKept
<1> QED
  BY <1>2, <1>4, <1>5, <1>6 DEF ResultsFollow

\* A result follows the reply that its turn is answering.
LEMMA ResultWindows ==
  ASSUME TypeInv, HistInv, HistInv', WindowInv, history' \in Seq(Message), UNCHANGED overlap,
         NEW t \in Turns, turn[t].pc \in AtCall, turn[t].left # <<>>, Result(t)
  PROVE  WindowInv'
<1>0. /\ history \in Seq(Message) /\ history' = Append(history, ToolResult(t, Calling(t)))
      /\ turn \in [Turns -> TurnState] /\ turn[t] \in TurnState /\ turn[t].left \in Seq(Tools)
  BY DEF TypeInv, TypeOK, Result, TurnState
<1>1. /\ \A r \in Turns \ {t} : turn'[r] = turn[r]
      /\ \/ turn'[t].pc = "failed"
         \/ /\ turn'[t].pc = IF Tail(turn[t].left) = <<>> THEN "waiting" ELSE "calls"
            /\ turn'[t].from = turn[t].from /\ turn'[t].upto = turn[t].upto
  <2>1. CASE turn[t].aborted
    <3>1. Ends(t, "failed") /\ "failed" \in Ended
      BY <2>1 DEF Result, Ended
    <3>2. [NewTurn EXCEPT !.pc = "failed"].pc = "failed"
      BY EndedTurn
    <3>3. turn'[t] = [NewTurn EXCEPT !.pc = "failed"] /\ \A r \in Turns \ {t} : turn'[r] = turn[r]
      BY <1>0, <3>1, EndsMoves
    <3> HIDE DEF NewTurn
    <3> QED
      BY <3>2, <3>3
  <2>2. CASE ~turn[t].aborted
    <3> DEFINE place == IF Tail(turn[t].left) = <<>> THEN "waiting" ELSE "calls"
    <3>1. turn' = [turn EXCEPT ![t].left = Tail(turn[t].left), ![t].pc = place]
      BY <2>2 DEF Result
    <3> HIDE DEF place
    <3>2. /\ \A r \in Turns \ {t} : turn'[r] = turn[r]
          /\ turn'[t].pc = place /\ turn'[t].from = turn[t].from /\ turn'[t].upto = turn[t].upto
      BY <1>0, <3>1 DEF TurnState
    <3> QED
      BY <3>2 DEF place
  <2> QED
    BY <2>1, <2>2
<1>2. SUFFICES ASSUME ~overlap
               PROVE  (\A r \in Turns : WindowOk(r)') /\ CallsHaveReply' /\ ResultsFollow' /\ TurnsInOrder'
  BY DEF WindowInv
<1>3. /\ OneActive /\ CallsHaveReply /\ RepliesAnswered' /\ turn[t].pc \in Active
      /\ \A r \in Turns : GoesOn(r)
  BY <1>1, <1>2 DEF HistInv, WindowInv, Active, AtCall, GoesOn, Ended
<1>4. /\ Len(history') = Len(history) + 1 /\ history'[Len(history) + 1] = ToolResult(t, Calling(t))
      /\ \A k \in 1 .. Len(history) : history'[k] = history[k]
      /\ Len(history) \in Nat /\ DOMAIN history = 1 .. Len(history) /\ DOMAIN history' = 1 .. Len(history) + 1
  BY <1>0
<1>5. PICK j \in DOMAIN history : Replying(t, j)
  BY <1>3 DEF CallsHaveReply
<1> DEFINE done == Len(history) - j
           new == Len(history) + 1
<1>6. /\ done \in Nat /\ Len(history[j].calls) = done + Len(turn[t].left)
      /\ history[j].role = "assistant" /\ history[j].turn = t
      /\ \A k \in 1 .. done : history[j + k] = ToolResult(t, history[j].calls[k])
      /\ history[j].calls \in Seq(Tools) /\ DOMAIN history[j].calls = 1 .. Len(history[j].calls)
  BY <1>0, <1>4, <1>5, MessageIs DEF Replying, InProgress
<1>7. /\ Len(turn[t].left) \in Nat /\ Len(turn[t].left) > 0
      /\ Tail(turn[t].left) = <<>> <=> Len(turn[t].left) = 1
  BY <1>0, TailIs
<1>8. Follows(history', j, new)
  <2>1. \A k \in j + 1 .. new : history'[k].role = "tool"
    <3> SUFFICES ASSUME NEW k \in j + 1 .. new PROVE history'[k].role = "tool"
      OBVIOUS
    <3>1. CASE k = new
      BY <1>4, <3>1 DEF ToolResult
    <3>2. CASE k # new
      <4>1. k - j \in 1 .. done /\ j + (k - j) = k /\ k \in 1 .. Len(history)
        BY <1>4, <1>5, <3>2
      <4>2. history[j + (k - j)] = ToolResult(t, history[j].calls[k - j])
        BY <1>6, <4>1
      <4>3. history'[k] = ToolResult(t, history[j].calls[k - j])
        BY <1>4, <4>1, <4>2
      <4> QED
        BY <4>3 DEF ToolResult
    <3> QED
      BY <3>1, <3>2
  <2>2. new - j <= Len(history[j].calls) /\ history'[j] = history[j]
    BY <1>4, <1>5, <1>6, <1>7
  <2> QED
    BY <1>6, <2>1, <2>2 DEF Follows
<1>9. ASSUME NEW k \in Len(history) + 1 .. Len(history')
      PROVE  /\ history'[k].turn = t
             /\ history'[k].role = "tool" => \E i \in 1 .. k - 1 : Follows(history', i, k)
  <2>1. k = new /\ j \in 1 .. k - 1
    BY <1>4, <1>5
  <2> QED
    BY <1>4, <1>8, <2>1 DEF ToolResult
<1> HIDE DEF new
<1>10. /\ (\A r \in Turns : WindowOk(r)') /\ ResultsFollow' /\ TurnsInOrder'
       /\ \A r \in Turns : turn'[r].pc \in AtCall \cup {"waiting"} => r = t
  <2>1. Len(history) <= Len(history')
    BY <1>4
  <2> QED
    BY <1>2, <1>3, <1>4, <1>9, <2>1, AddedWindows
<1>11. ASSUME NEW r \in Turns, turn'[r].pc \in AtCall PROVE \E i \in DOMAIN history' : Replying(r, i)'
  <2>1. r = t /\ turn'[t].pc # "failed" /\ turn'[t].pc # "waiting"
    BY <1>10, <1>11 DEF AtCall
  <2>2. Len(turn[t].left) > 1
    <3>1. Tail(turn[t].left) # <<>>
      BY <1>1, <2>1
    <3>2. Len(turn[t].left) # 1
      BY <1>7, <3>1
    <3> QED
      BY <1>7, <3>2
  <2>3. j \in DOMAIN history' /\ history'[j] = history[j]
    BY <1>4, <1>5
  <2>4. ~Whole(history', j)
    <3>1. Len(history[j].calls) \in DOMAIN history'[j].calls
      BY <1>6, <1>7, <2>3
    <3>2. ~(j + Len(history[j].calls) <= Len(history'))
      BY <1>4, <1>5, <1>6, <1>7, <2>2
    <3> QED
      BY <3>1, <3>2 DEF Whole
  <2>5. Whole(history', j) \/ turn'[t].pc = "failed" \/ InProgress(j)'
    BY <1>3, <1>6, <2>3 DEF RepliesAnswered, Whole, ToolResult
  <2>6. Replying(t, j)'
    BY <1>6, <2>1, <2>3, <2>4, <2>5 DEF Replying
  <2> QED
    BY <2>1, <2>3, <2>6
<1> QED
  BY <1>10, <1>11 DEF CallsHaveReply

\* A turn at a call answers it, waits, asks or fails.
LEMMA CallStepWindows ==
  ASSUME ConsoleInv, HistInv, HistInv', WindowInv, history' \in Seq(Message), NEW t \in Turns, CallStep(t)
  PROVE  WindowInv'
<1>1. /\ turn \in [Turns -> TurnState] /\ TypeInv
      /\ turn[t].pc = "approved" => Calling(t) \in Tier2
  BY DEF ConsoleInv, CallsInv, CallOk, TypeInv
<1>2. turn[t].pc \in AtCall /\ turn[t].pc \in Active /\ Silent
  BY <1>1, CallSteps DEF Active
<1>3. turn[t].left # <<>> /\ UNCHANGED overlap
  BY <1>2 DEF ConsoleInv, CallsInv, CallOk, Silent
<1>4. ASSUME Ends(t, "failed"), UNCHANGED history PROVE WindowInv'
  <2>1. \A r \in Turns : GoesOn(r) /\ KeepsCall(r)
    BY <1>1, <1>2, <1>4, EndsGoesOn DEF Ended
  <2> QED
    BY <1>1, <1>3, <1>4, <2>1, QuietWindows
<1>5. ASSUME NEW place \in AtCall, turn' = [turn EXCEPT ![t].pc = place], UNCHANGED history PROVE WindowInv'
  <2>1. \A r \in Turns : GoesOn(r) /\ KeepsCall(r)
    BY <1>1, <1>2, <1>5, RoutedGoesOn
  <2> QED
    BY <1>1, <1>3, <1>5, <2>1, QuietWindows
<1>6. ASSUME Result(t) PROVE WindowInv'
  BY <1>1, <1>2, <1>3, <1>6, ResultWindows
<1>7. ASSUME NEW place \in AtCall, Awaits(t, place) PROVE WindowInv'
  BY <1>5, <1>7 DEF Awaits
<1>8. ASSUME Request(t) PROVE WindowInv'
  <2> DEFINE place == IF mode = "piped" THEN "declined" ELSE "approval"
  <2>1. place \in AtCall /\ turn' = [turn EXCEPT ![t].pc = place] /\ UNCHANGED history
    BY <1>8 DEF Request, AtCall
  <2> HIDE DEF place
  <2> QED
    BY <2>1, <1>5
<1>9. {"reviewing", "requesting", "running"} \subseteq AtCall
  BY DEF AtCall
<1> QED
  BY <1>1, <1>4, <1>6, <1>7, <1>8, <1>9, CallSteps, Performs DEF Refused

\* The model's reply is the one its turn answers next.
LEMMA ReplyWindows ==
  ASSUME ConsoleInv, HistInv, HistInv', WindowInv, history' \in Seq(Message), NEW t \in Turns,
         NEW calls \in Replies, Reply(t, calls)
  PROVE  WindowInv'
<1>0. /\ turn \in [Turns -> TurnState] /\ turn[t] \in TurnState /\ TypeInv /\ history \in Seq(Message)
      /\ turn[t].pc = "waiting" /\ turn[t].pc \in Active /\ UNCHANGED overlap /\ calls \in Seq(Tools)
  BY RepliesAssumption DEF ConsoleInv, TypeInv, TypeOK, Reply, Silent, Active
<1>1. CASE Ends(t, "failed") /\ UNCHANGED history
  <2>1. \A r \in Turns : GoesOn(r) /\ KeepsCall(r)
    BY <1>0, <1>1, EndsGoesOn DEF Ended
  <2> QED
    BY <1>0, <1>1, <2>1, QuietWindows
<1>2. CASE /\ history' = Append(history, Assistant(t, calls))
           /\ \/ calls = <<>> /\ Ends(t, "completed")
              \/ turn' = [turn EXCEPT ![t].pc = "calls", ![t].left = calls, ![t].rounds = @ + 1] /\ calls # <<>>
  <2>1. SUFFICES ASSUME ~overlap
                 PROVE  (\A r \in Turns : WindowOk(r)') /\ CallsHaveReply' /\ ResultsFollow' /\ TurnsInOrder'
    BY <1>0 DEF WindowInv
  <2>2. OneActive /\ RepliesAnswered'
    BY <1>0, <2>1 DEF HistInv
  <2>3. \A r \in Turns : GoesOn(r)
    <3>1. CASE Ends(t, "completed")
      BY <1>0, <3>1, EndsGoesOn DEF Ended
    <3>2. CASE turn' = [turn EXCEPT ![t].pc = "calls", ![t].left = calls, ![t].rounds = @ + 1]
      <4>1. /\ \A r \in Turns \ {t} : turn'[r] = turn[r]
            /\ turn'[t].pc = "calls" /\ turn'[t].from = turn[t].from /\ turn'[t].upto = turn[t].upto
        BY <1>0, <3>2 DEF TurnState
      <4> QED
        BY <1>0, <4>1 DEF GoesOn, AtCall, Ended
    <3> QED
      BY <1>2, <3>1, <3>2
  <2>4. /\ Len(history') = Len(history) + 1 /\ history'[Len(history) + 1] = Assistant(t, calls)
        /\ \A k \in 1 .. Len(history) : history'[k] = history[k]
        /\ Len(history) \in Nat /\ DOMAIN history' = 1 .. Len(history) + 1 /\ Len(history) <= Len(history')
    BY <1>0, <1>2
  <2>5. Assistant(t, calls).calls = calls /\ Assistant(t, calls).turn = t /\ Assistant(t, calls).role = "assistant"
    BY DEF Assistant
  <2>. PICK last : last = Len(history) + 1
    OBVIOUS
  <2>6. ASSUME NEW k \in Len(history) + 1 .. Len(history') PROVE k = last
    BY <2>4
  <2>7. /\ (\A r \in Turns : WindowOk(r)') /\ ResultsFollow' /\ TurnsInOrder'
        /\ \A r \in Turns : turn'[r].pc \in AtCall \cup {"waiting"} => r = t
    <3>1. ASSUME NEW k \in Len(history) + 1 .. Len(history')
          PROVE  /\ history'[k].turn = t
                 /\ history'[k].role = "tool" => \E j \in 1 .. k - 1 : Follows(history', j, k)
      BY <2>4, <2>5, <2>6
    <3> QED
      BY <1>0, <2>1, <2>2, <2>3, <2>4, <3>1, AddedWindows
  <2>8. ASSUME NEW r \in Turns, turn'[r].pc \in AtCall PROVE \E i \in DOMAIN history' : Replying(r, i)'
    <3>1. r = t
      BY <2>7, <2>8
    <3>2. ~Ends(t, "completed")
      <4> SUFFICES ASSUME Ends(t, "completed") PROVE FALSE
        OBVIOUS
      <4>1. "completed" \in Ended /\ [NewTurn EXCEPT !.pc = "completed"].pc = "completed"
        BY EndedTurn DEF Ended
      <4>2. turn'[t] = [NewTurn EXCEPT !.pc = "completed"]
        BY <1>0, <4>1, EndsMoves
      <4> HIDE DEF NewTurn
      <4> QED
        BY <2>8, <3>1, <4>1, <4>2 DEF AtCall
    <3>3. calls # <<>> /\ turn'[t].pc = "calls"
      BY <1>0, <1>2, <3>2 DEF TurnState
    <3>4. ~Whole(history', last)
      <4>1. 1 \in DOMAIN calls
        BY <1>0, <3>3
      <4>2. ~(last + 1 <= Len(history'))
        BY <2>4
      <4> QED
        BY <2>4, <2>5, <4>1, <4>2 DEF Whole
    <3>5. last \in DOMAIN history' /\ history'[last].role = "assistant" /\ history'[last].turn = t
      BY <2>4, <2>5
    <3>6. Whole(history', last) \/ turn'[t].pc = "failed" \/ InProgress(last)'
      BY <2>2, <3>5 DEF RepliesAnswered, Whole, ToolResult
    <3>7. Replying(t, last)'
      BY <3>3, <3>4, <3>5, <3>6 DEF Replying
    <3> QED
      BY <3>1, <3>5, <3>7
  <2> QED
    BY <2>7, <2>8 DEF CallsHaveReply
<1> QED
  BY <1>1, <1>2 DEF Reply

\* The exchange of a pair has no results.
LEMMA PairWindows ==
  ASSUME ConsoleInv, HistInv, WindowInv, history' \in Seq(Message), NEW t \in Turns, PairEnds(t)
  PROVE  WindowInv'
<1>0. /\ turn \in [Turns -> TurnState] /\ TypeInv /\ history \in Seq(Message)
      /\ turn[t].pc = "pairing" /\ turn[t].pc \in Active /\ UNCHANGED overlap
  BY DEF ConsoleInv, TypeInv, TypeOK, PairEnds, Silent, Active
<1>1. CASE Ends(t, "failed") /\ UNCHANGED history
  <2>1. \A r \in Turns : GoesOn(r) /\ KeepsCall(r)
    BY <1>0, <1>1, EndsGoesOn DEF Ended
  <2> QED
    BY <1>0, <1>1, <2>1, QuietWindows
<1>2. CASE history' = history \o <<User(t), Assistant(t, <<>>)>> /\ Ends(t, "completed")
  <2>1. SUFFICES ASSUME ~overlap
                 PROVE  (\A r \in Turns : WindowOk(r)') /\ CallsHaveReply' /\ ResultsFollow' /\ TurnsInOrder'
    BY <1>0 DEF WindowInv
  <2>2. OneActive
    BY <2>1 DEF HistInv
  <2>3. \A r \in Turns : GoesOn(r) /\ KeepsCall(r)
    BY <1>0, <1>2, EndsGoesOn DEF Ended
  <2>4. /\ Len(history') = Len(history) + 2 /\ history'[Len(history) + 1] = User(t)
        /\ history'[Len(history) + 2] = Assistant(t, <<>>)
        /\ \A k \in 1 .. Len(history) : history'[k] = history[k]
        /\ Len(history) \in Nat /\ DOMAIN history' = 1 .. Len(history) + 2 /\ Len(history) <= Len(history')
    BY <1>0, <1>2
  <2>5. ASSUME NEW k \in Len(history) + 1 .. Len(history')
        PROVE  history'[k].turn = t /\ history'[k].role # "tool"
    <3>1. k = Len(history) + 1 \/ k = Len(history) + 2
      BY <2>4
    <3> QED
      BY <2>4, <3>1 DEF User, Assistant
  <2>6. /\ (\A r \in Turns : WindowOk(r)') /\ ResultsFollow' /\ TurnsInOrder'
        /\ \A r \in Turns : turn'[r].pc \in AtCall \cup {"waiting"} => r = t
    BY <1>0, <2>1, <2>2, <2>3, <2>4, <2>5, AddedWindows
  <2>7. \A r \in Turns : turn'[r].pc \notin AtCall
    BY <1>0, <2>3, <2>6 DEF KeepsCall, AtCall
  <2> QED
    BY <2>6, <2>7 DEF CallsHaveReply
<1> QED
  BY <1>1, <1>2 DEF PairEnds

\* A turn begins after the others, with a window that the history begins.
LEMMA SubmitWindows ==
  ASSUME ConsoleInv, WindowInv, history' \in Seq(Message), NEW t \in Turns, NEW paired \in BOOLEAN,
         NEW reviewed \in BOOLEAN, Submit(t, paired, reviewed)
  PROVE  WindowInv'
<1>0. turn \in [Turns -> TurnState] /\ TypeInv /\ history \in Seq(Message) /\ turn[t].pc = "none" /\ NextTurn(t)
  BY DEF ConsoleInv, TypeInv, TypeOK, Submit, NextTurn
<1>1. SUFFICES ASSUME ~overlap'
               PROVE  (\A r \in Turns : WindowOk(r)') /\ CallsHaveReply' /\ ResultsFollow' /\ TurnsInOrder'
  BY DEF WindowInv
<1>2. ResultsFollow /\ TurnsInOrder /\ AllEnded
  BY <1>1 DEF WindowInv, Submit
<1>3. /\ \A r \in Turns \ {t} : turn'[r] = turn[r]
      /\ turn'[t].pc = IF paired THEN "pairing" ELSE "waiting"
      /\ turn'[t].from = IF paired THEN 0 ELSE HistoryStart(history')
      /\ turn'[t].upto = Len(history')
      /\ history' = IF paired THEN history ELSE Append(history, User(t))
  <2> DEFINE from == IF paired THEN 0 ELSE HistoryStart(history')
             place == IF paired THEN "pairing" ELSE "waiting"
             upto == Len(history')
             gate == Len(gates)
  <2>1. turn' = [turn EXCEPT ![t] = [NewTurn EXCEPT !.pc = place, !.gate = gate, !.reviewed = reviewed,
                                                    !.from = from, !.upto = upto]]
        /\ history' = IF paired THEN history ELSE Append(history, User(t))
    BY DEF Submit
  <2> HIDE DEF from, place, upto, gate
  <2>2. turn'[t] = [NewTurn EXCEPT !.pc = place, !.gate = gate, !.reviewed = reviewed,
                                   !.from = from, !.upto = upto]
        /\ \A r \in Turns \ {t} : turn'[r] = turn[r]
    BY <1>0, <2>1
  <2>3. turn'[t].pc = place /\ turn'[t].from = from /\ turn'[t].upto = upto
    BY <2>2 DEF NewTurn
  <2> QED
    BY <2>1, <2>2, <2>3 DEF from, place, upto
<1>4. /\ Len(history) \in Nat /\ Len(history) <= Len(history') /\ DOMAIN history = 1 .. Len(history)
      /\ \A k \in 1 .. Len(history) : history'[k] = history[k]
      /\ \A i \in DOMAIN history' : i \in 1 .. Len(history) \/ history'[i] = User(t)
  <2>1. CASE history' = history
    BY <1>0, <2>1
  <2>2. CASE history' = Append(history, User(t))
    BY <1>0, <2>2
  <2> QED
    BY <1>3, <2>1, <2>2
<1>5. \A r \in Turns \ {t} : turn'[r].pc \notin AtCall \cup {"waiting"}
  BY <1>2, <1>3 DEF AllEnded, Ended, AtCall
<1>6. turn'[t].pc \notin AtCall
  BY <1>3 DEF AtCall
<1>7. ASSUME NEW r \in Turns, turn'[r].pc \in AtCall \cup {"waiting"} PROVE WindowOk(r)'
  <2>1. r = t /\ ~paired
    BY <1>3, <1>5, <1>6, <1>7
  <2>2. history' # <<>>
    BY <1>0, <1>3, <2>1
  <2>3. /\ HistoryStart(history') \in 1 .. Len(history')
        /\ HistoryStart(history') = 1 \/ history'[HistoryStart(history')].role = "user"
    BY <2>2, HistoryStartIs
  <2>4. /\ turn'[t].from = HistoryStart(history') /\ turn'[t].upto = Len(history') /\ Len(history') \in Nat
    BY <1>3, <2>1
  <2>5. Len(history') + 1 .. Len(history') = {}
    BY <2>4
  <2> QED
    BY <2>1, <2>3, <2>4, <2>5 DEF WindowOk
<1>8. \A r \in Turns : WindowOk(r)'
  BY <1>7 DEF WindowOk
<1>9. ASSUME NEW i \in DOMAIN history', history'[i].role = "tool"
      PROVE  \E j \in 1 .. i - 1 : Follows(history', j, i)
  <2>1. i \in 1 .. Len(history) /\ history'[i] = history[i]
    BY <1>4, <1>9 DEF User
  <2>2. PICK j \in 1 .. i - 1 : Follows(history, j, i)
    BY <1>2, <1>4, <1>9, <2>1 DEF ResultsFollow
  <2>3. Follows(history', j, i)
    BY <1>0, <1>4, <2>1, <2>2, FollowsGrows
  <2> QED
    BY <2>3
<1>10. ASSUME NEW i \in DOMAIN history' PROVE turn'[history'[i].turn].pc # "none"
  <2>1. turn'[t].pc # "none"
    BY <1>3
  <2>2. CASE i \in 1 .. Len(history)
    <3>1. history'[i] = history[i] /\ turn[history[i].turn].pc # "none" /\ history'[i].turn \in Turns
      BY <1>2, <1>4, <1>10, <2>2, MessageIs DEF TurnsInOrder
    <3> QED
      BY <1>3, <2>1, <3>1
  <2>3. CASE history'[i] = User(t)
    BY <2>1, <2>3 DEF User
  <2> QED
    BY <1>4, <2>2, <2>3
<1>11. ASSUME NEW r \in Turns, NEW u \in Turns, r < u, turn'[u].pc # "none" PROVE turn'[r].pc \in Ended
  <2>0. \A v \in Turns : v \in Nat
    BY TurnsAssumption, FS_CardinalityType
  <2>1. CASE u = t
    <3>1. r # t /\ turn[r].pc # "none"
      BY <1>0, <1>11, <2>0, <2>1 DEF NextTurn
    <3> QED
      BY <1>2, <1>3, <3>1 DEF AllEnded
  <2>2. CASE u # t
    <3>1. turn[r].pc \in Ended
      BY <1>2, <1>3, <1>11, <2>2 DEF TurnsInOrder
    <3>2. r # t
      BY <1>0, <3>1 DEF Ended
    <3> QED
      BY <1>3, <3>1, <3>2
  <2> QED
    BY <2>1, <2>2
<1> QED
  BY <1>5, <1>6, <1>8, <1>9, <1>10, <1>11 DEF CallsHaveReply, ResultsFollow, TurnsInOrder

\* Every step keeps the windows.
LEMMA StepWindows ==
  ASSUME ConsoleInv, HistInv, WindowInv, [Next]_vars
  PROVE  WindowInv'
<1>0. turn \in [Turns -> TurnState] /\ TypeInv /\ history' \in Seq(Message) /\ HistInv'
  BY StepHistory, StepAnswers DEF ConsoleInv, TypeInv
<1>1. ASSUME NEW t \in Turns, StreamFails(t) PROVE WindowInv'
  <2>1. turn[t].pc \in Active /\ Ends(t, "failed") /\ UNCHANGED <<history, overlap>>
    BY <1>1 DEF StreamFails, Silent, Active
  <2>2. \A r \in Turns : GoesOn(r) /\ KeepsCall(r)
    BY <1>0, <2>1, EndsGoesOn DEF Ended
  <2> QED
    BY <1>0, <2>1, <2>2, QuietWindows
<1>2. ASSUME NEW t \in Turns, ServerAnswers(t) PROVE WindowInv'
  <2>1. /\ turn[t].pc \in AtCall /\ "answered" \in AtCall
        /\ turn' = [turn EXCEPT ![t].pc = "answered"] /\ UNCHANGED <<history, overlap>>
    BY <1>2 DEF ServerAnswers, AtCall, ghostVars
  <2>2. \A r \in Turns : GoesOn(r) /\ KeepsCall(r)
    BY <1>0, <2>1, RoutedGoesOn
  <2> QED
    BY <1>0, <2>1, <2>2, QuietWindows
<1>3. ASSUME UNCHANGED <<turn, history, overlap>> PROVE WindowInv'
  <2>1. \A r \in Turns : GoesOn(r) /\ KeepsCall(r)
    BY <1>3 DEF GoesOn, KeepsCall
  <2> QED
    BY <1>0, <1>3, <2>1, QuietWindows
<1>4. ASSUME NEW choice \in {"once", "session", "decline"}, Answer(choice) PROVE WindowInv'
  <2>1. UNCHANGED <<history, overlap>>
    BY <1>4 DEF Answer
  <2> QED
    BY <1>0, <1>4, <2>1, KeysGoOn, QuietWindows
<1>5. ASSUME NEW leave \in BOOLEAN, Interrupt(leave) PROVE WindowInv'
  <2>1. UNCHANGED <<history, overlap>>
    BY <1>5 DEF Interrupt, ghostVars
  <2> QED
    BY <1>0, <1>5, <2>1, KeysGoOn, QuietWindows
<1>6. ASSUME SettleRequests, UNCHANGED <<history, overlap>> PROVE WindowInv'
  BY <1>0, <1>6, KeysGoOn, QuietWindows
<1>7. CASE Disconnected
  BY <1>6, <1>7 DEF Disconnected, ghostVars
<1>8. ASSUME NEW quiet \in BOOLEAN, ServerExits(quiet) PROVE WindowInv'
  BY <1>3, <1>6, <1>8 DEF ServerExits, ghostVars
<1> QED
  BY <1>0, <1>1, <1>2, <1>3, <1>4, <1>5, <1>7, <1>8, CallStepWindows, ReplyWindows, PairWindows, SubmitWindows
     DEF Next, TurnStep, Answers, Operator, CallStep, Permit, RewindCommand, UndoCommand, Exit, McpAdd, McpRemove,
         McpConnected, McpFails, ChildError, vars, ghostVars

\* The window of a turn that waits is a conversation the provider accepts.
LEMMA InvContext ==
  ASSUME TypeInv, HistInv, WindowInv
  PROVE  ContextIsWhole
<1>1. SUFFICES ASSUME ~overlap, NEW t \in Turns, turn[t].pc = "waiting",
                      \A r \in Turns : ~(r < t /\ turn[r].pc = "failed")
               PROVE  Accepted(Context(t))
  BY DEF ContextIsWhole
<1> DEFINE from == turn[t].from
           n == Len(history)
           sent == SubSeq(history, from, n)
<1>2. /\ OneActive /\ RepliesAnswered /\ WindowOk(t) /\ ResultsFollow /\ TurnsInOrder
      /\ history \in Seq(Message) /\ DOMAIN history = 1 .. n
  BY <1>1 DEF HistInv, WindowInv, TypeInv, TypeOK
<1>3. /\ n \in Nat /\ turn[t].upto \in 0 .. n /\ from \in 1 .. turn[t].upto /\ from \in 1 .. n
      /\ from = 1 \/ history[from].role = "user"
      /\ \A k \in turn[t].upto + 1 .. n : history[k].turn = t
  <2>1. turn[t].from \in Nat /\ turn[t].upto \in Nat /\ Len(history) \in Nat
    BY <1>2 DEF TypeInv, TypeOK
  <2> QED
    BY <1>1, <1>2, <2>1 DEF WindowOk
<1>4. /\ Len(sent) = n + 1 - from /\ DOMAIN sent = 1 .. n + 1 - from
      /\ \A k \in 1 .. n + 1 - from : sent[k] = history[from - 1 + k]
  <2>1. /\ sent \in Seq(Message) /\ Len(sent) = n + 1 - from
        /\ \A k \in 1 .. n + 1 - from : sent[k] = history[from - 1 + k]
    <3> HIDE DEF from
    <3> QED
      BY <1>2, <1>3, PartIs
  <2> HIDE DEF sent, n, from
  <2>2. DOMAIN sent = 1 .. n + 1 - from
    BY <2>1
  <2> QED
    BY <2>1, <2>2
<1>5. Context(t) = sent
  BY <1>2, <1>3, ContextIs
<1> HIDE DEF from, n, sent
<1>6. ASSUME NEW i \in DOMAIN sent, sent[i].role = "assistant" PROVE Whole(sent, i)
  <2> DEFINE p == from - 1 + i
  <2>1. p \in DOMAIN history /\ sent[i] = history[p] /\ p + 1 - from = i
    <3>1. i \in 1 .. n + 1 - from
      BY <1>4, <1>6
    <3>2. p \in 1 .. n /\ p + 1 - from = i
      BY <1>3, <3>1
    <3> QED
      BY <1>2, <1>4, <3>1, <3>2
  <2>2. /\ history[p].turn \in Turns
        /\ history[p].calls \in Seq(Tools) /\ DOMAIN history[p].calls = 1 .. Len(history[p].calls)
    BY <1>2, <2>1, MessageIs
  <2>3. turn[history[p].turn].pc # "failed"
    <3> SUFFICES ASSUME turn[history[p].turn].pc = "failed" PROVE FALSE
      OBVIOUS
    <3>1. PICK r \in Turns : r = history[p].turn /\ turn[r].pc = "failed"
      BY <2>2
    <3>2. r \in Nat /\ t \in Nat /\ r # t /\ ~(r < t)
      BY <1>1, <3>1, TurnsAssumption, FS_CardinalityType
    <3>3. t < r
      BY <3>2
    <3>4. turn[t].pc \in Ended
      BY <1>2, <3>1, <3>3 DEF TurnsInOrder
    <3> QED
      BY <1>1, <3>4 DEF Ended
  <2>4. ~InProgress(p)
    <3> SUFFICES ASSUME InProgress(p) PROVE FALSE
      OBVIOUS
    <3>1. turn[history[p].turn].pc \in AtCall
      BY DEF InProgress
    <3>2. history[p].turn = t
      BY <1>1, <1>2, <2>2, <3>1 DEF OneActive, Active
    <3> QED
      BY <1>1, <3>1, <3>2 DEF AtCall
  <2>5. Whole(history, p)
    BY <1>2, <1>6, <2>1, <2>3, <2>4 DEF RepliesAnswered
  <2>6. ASSUME NEW k \in DOMAIN sent[i].calls
        PROVE  i + k <= Len(sent) /\ sent[i + k] = ToolResult(sent[i].turn, sent[i].calls[k])
    <3>1. p + k <= Len(history) /\ history[p + k] = ToolResult(history[p].turn, history[p].calls[k])
      BY <2>1, <2>5, <2>6 DEF Whole
    <3>2. k \in Nat /\ k >= 1
      BY <2>1, <2>2, <2>6
    <3>3. i + k \in 1 .. n + 1 - from /\ from - 1 + (i + k) = p + k
      <4>1. i \in 1 .. n + 1 - from /\ p + k <= n
        BY <1>4, <1>6, <3>1 DEF n
      <4> QED
        BY <1>3, <3>2, <4>1
    <3>4. sent[i + k] = history[p + k]
      BY <1>4, <3>3
    <3> QED
      BY <1>3, <1>4, <2>1, <3>1, <3>3, <3>4
  <2> QED
    BY <2>6 DEF Whole
<1>7. ASSUME NEW i \in DOMAIN sent, sent[i].role = "tool"
      PROVE  \E j \in 1 .. i - 1 : sent[j].role = "assistant" /\ i - j <= Len(sent[j].calls)
  <2> DEFINE p == from - 1 + i
  <2>1. p \in 1 .. n /\ p \in DOMAIN history /\ sent[i] = history[p] /\ i \in 1 .. n + 1 - from
    <3>1. i \in 1 .. n + 1 - from
      BY <1>4, <1>7
    <3>2. p \in 1 .. n
      BY <1>3, <3>1
    <3> QED
      BY <1>2, <1>4, <3>1, <3>2
  <2>2. PICK j \in 1 .. p - 1 : Follows(history, j, p)
    BY <1>2, <1>7, <2>1 DEF ResultsFollow
  <2>3. j >= from
    <3> SUFFICES ASSUME ~(j >= from) PROVE FALSE
      OBVIOUS
    <3>1. from \in j + 1 .. p /\ from # 1
      BY <1>3, <2>1
    <3> QED
      BY <1>3, <2>2, <3>1 DEF Follows
  <2>4. /\ j + 1 - from \in 1 .. i - 1 /\ j + 1 - from \in 1 .. n + 1 - from
        /\ from - 1 + (j + 1 - from) = j /\ i - (j + 1 - from) = p - j
    BY <1>3, <2>1, <2>2, <2>3
  <2>5. sent[j + 1 - from] = history[j]
    BY <1>4, <2>4
  <2> QED
    BY <2>2, <2>4, <2>5 DEF Follows
<1> QED
  BY <1>5, <1>6, <1>7 DEF Accepted

\* What the model is sent is a conversation that a provider accepts: every call with its
\* results and every result after its call, wherever the stored conversation is cut, unless
\* a turn failed before or two turns ran at once (buildContext, findProtocolSafeHistoryStart).
THEOREM ContextsAreWhole == Spec => []ContextIsWhole
<1>1. Init => HistInv /\ WindowInv
  <2>1. Init => HistInv
    BY DEF Init, HistInv, OneActive, RepliesAnswered, NewTurn, Active, AtCall
  <2>2. Init => WindowInv
    BY DEF Init, WindowInv, WindowOk, CallsHaveReply, ResultsFollow, TurnsInOrder, NewTurn, AtCall
  <2> QED
    BY <2>1, <2>2
<1>2. ConsoleInv /\ HistInv /\ WindowInv /\ [Next]_vars => HistInv' /\ WindowInv'
  BY StepAnswers, StepWindows
<1>3. ConsoleInv /\ HistInv /\ WindowInv => ContextIsWhole
  BY InvContext DEF ConsoleInv
<1> QED
  BY <1>1, <1>2, <1>3, ConsoleInvariant, PTL DEF Spec
=============================================================================
