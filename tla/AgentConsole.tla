----------------------------- MODULE AgentConsole -----------------------------
(***************************************************************************)
(* A chat session of the agent: the operator's console, the turns it       *)
(* starts, the gate before their tool calls, the stored conversation and   *)
(* one MCP server (src/agent/loop.ts, tools.ts, permissions.ts, cli.ts,    *)
(* tui.tsx, tui-state.ts, context.ts, session.ts, mcp-client.ts).          *)
(*                                                                         *)
(* The process has one thread: what a turn does between two awaits is one  *)
(* step, and while a turn can go on (Busy) no key, answer of the model,    *)
(* exit of a child or timer comes in between.                              *)
(*                                                                         *)
(* The console is the terminal interface ("tui"), the line-by-line one     *)
(* ("plain"), or the latter without a terminal ("piped").                  *)
(***************************************************************************)
EXTENDS AgentFiles, FiniteSets

CONSTANTS
  Turns,        \* the turns of the session, in the order they are submitted
  Modes,        \* consoles to consider
  Replies,      \* the tool calls of a reply of the model: sequences, <<>> ends the turn
  Rules,        \* the rules /permit may add: pairs of a tool and an action
  MaxRounds,    \* maxToolRounds of agentTurn
  Recent,       \* MAX_RECENT_MESSAGES of buildContext, 25 in the code
  MaxCommands,  \* bound on the slash commands given, /mcp remove aside
  Faulty,       \* what may fail: the MCP server, the file system under the tools and checkpoints
  MaxFaults     \* bound on their failures

Tier2 == {"write", "delete", "run"}
Tools == Tier2 \cup {"read", "mcp", "unknown", "malformed"}

ASSUME TurnsAssumption == IsFiniteSet(Turns) /\ Turns = 1 .. Cardinality(Turns)
ASSUME ModesAssumption == Modes \subseteq {"tui", "plain", "piped"}
ASSUME RulesAssumption == Rules \subseteq Tier2 \X {"allow", "deny", "ask"}
ASSUME RepliesAssumption == Replies \subseteq Seq(Tools)
ASSUME FaultyAssumption == Faulty \subseteq {"server", "file"}
ASSUME BoundsAssumption == MaxRounds \in Nat /\ Recent \in Nat \ {0} /\ MaxCommands \in Nat /\ MaxFaults \in Nat

VARIABLES
  mode,
  status,       \* TuiState.status
  controller,   \* turnController: the turn Ctrl-C aborts, 0 for none
  approval,     \* the turn whose approval request is shown, 0 for none
  resolver,     \* approvalResolver: the turn an answer goes to, 0 for none
  leaving, exited,
  gates,        \* the tool registries there have been; the last is the console's
  turn,         \* what each turn is at
  history,      \* the stored messages
  server, into, \* the MCP server; the registry its tools will go to
  commands, faults,
  overlap,      \* history: two turns ran at the same time
  answered,     \* history: what the operator answered to a turn's request as shown
  told          \* history: tools the operator approved for the session, by registry

consoleVars == <<mode, status, controller, approval, resolver, leaving, exited>>
serverVars  == <<server, into>>
boundVars   == <<commands, faults>>
ghostVars   == <<overlap, answered, told>>
vars == <<consoleVars, gates, turn, history, serverVars, boundVars, ghostVars, fileVars>>

Actions  == {"allow", "deny", "ask"}
Gate     == [rule : [Tier2 -> Actions], approved : SUBSET Tier2, mcp : BOOLEAN]
Places   == {"none", "pairing", "waiting", "calls", "reviewing", "approval", "approved", "declined",
             "running", "requesting", "answered", "completed", "failed"}
Ended    == {"completed", "failed"}
Message  == [role : {"user", "assistant", "tool"}, turn : Turns, calls : Seq(Tools)]

TypeOK ==
  /\ FilesTypeOK
  /\ mode \in Modes /\ status \in {"idle", "running"}
  /\ controller \in Turns \cup {0} /\ approval \in Turns \cup {0} /\ resolver \in Turns \cup {0}
  /\ leaving \in BOOLEAN /\ exited \in BOOLEAN
  /\ gates \in Seq(Gate)
  /\ \A t \in Turns :
       /\ turn[t].pc \in Places /\ turn[t].gate \in 0 .. Len(gates) /\ turn[t].left \in Seq(Tools)
       /\ turn[t].aborted \in BOOLEAN /\ turn[t].reviewed \in BOOLEAN /\ turn[t].rounds \in Nat
       /\ turn[t].from \in Nat /\ turn[t].upto \in Nat
  /\ history \in Seq(Message)
  /\ server \in {"none", "connecting", "up", "dead", "silent", "closing"} /\ into \in 0 .. Len(gates)
  /\ commands \in 0 .. MaxCommands /\ faults \in 0 .. MaxFaults
  /\ overlap \in BOOLEAN /\ answered \in [Turns -> {"none", "once", "session", "decline"}]
  /\ told \subseteq (1 .. Len(gates)) \X Tier2

-----------------------------------------------------------------------------
(* Helpers *)

Asking == [tool \in Tier2 |-> "ask"]

\* createToolRegistry, with a permission gate over a session approval gate.
NewGate(rule) == [rule |-> rule, approved |-> {}, mcp |-> FALSE]

NewTurn == [pc |-> "none", gate |-> 0, aborted |-> FALSE, reviewed |-> FALSE, rounds |-> 0,
            left |-> <<>>, from |-> 0, upto |-> 0]

Init ==
  /\ FilesInit
  /\ mode \in Modes /\ status = "idle"
  /\ controller = 0 /\ approval = 0 /\ resolver = 0 /\ leaving = FALSE /\ exited = FALSE
  /\ gates = <<NewGate(Asking)>>
  /\ turn = [t \in Turns |-> NewTurn]
  /\ history = <<>>
  /\ server = "none" /\ into = 0
  /\ commands = 0 /\ faults = 0
  /\ overlap = FALSE /\ answered = [t \in Turns |-> "none"] /\ told = {}

\* Something fails that may.
Fault(kind) == kind \in Faulty /\ faults < MaxFaults /\ faults' = faults + 1

Calling(t) == Head(turn[t].left)
GateOf(t) == gates[turn[t].gate]

\* Turns that go on before the event loop takes anything else.
Busy == \E t \in Turns : turn[t].pc \in {"calls", "approved", "declined", "answered"}
Event == ~Busy /\ ~exited

User(t) == [role |-> "user", turn |-> t, calls |-> <<>>]
Assistant(t, calls) == [role |-> "assistant", turn |-> t, calls |-> calls]
ToolResult(t, call) == [role |-> "tool", turn |-> t, calls |-> <<call>>]

\* Mutant: the most recent messages, from wherever they begin.
HistoryStart_Cut(messages) == Max({1, Len(messages) + 1 - Recent})

\* findProtocolSafeHistoryStart: the most recent messages, back to a user's message.
HistoryStart(messages) ==
  LET start == Max({1, Len(messages) + 1 - Recent})
      users == {i \in 1 .. start : messages[i].role = "user"}
  IN  IF start = 1 THEN 1 ELSE Max(users \cup {1})

\* What the model is sent: the history of the turn's begin, and what the turn has added
\* since, without the messages of other turns.
Context(t) ==
  LET sent[i \in turn[t].upto .. Len(history)] ==
        IF i = turn[t].upto THEN SubSeq(history, turn[t].from, i)
        ELSE IF history[i].turn = t THEN Append(sent[i - 1], history[i]) ELSE sent[i - 1]
  IN  sent[Len(history)]

\* The provider refuses a call without its result, and a result without its call.
Whole(messages, i) ==
  \A k \in DOMAIN messages[i].calls :
    /\ i + k <= Len(messages)
    /\ messages[i + k] = ToolResult(messages[i].turn, messages[i].calls[k])
Accepted(messages) ==
  \A i \in DOMAIN messages :
    /\ messages[i].role = "assistant" => Whole(messages, i)
    /\ messages[i].role = "tool" =>
         \E j \in 1 .. i - 1 : messages[j].role = "assistant" /\ i - j <= Len(messages[j].calls)

\* checkPermission: the rule for the tool, the operator otherwise.
Allowed(t) ==
  \/ GateOf(t).rule[Calling(t)] = "allow"
  \/ GateOf(t).rule[Calling(t)] = "ask" /\ Calling(t) \in GateOf(t).approved
Denied(t) == GateOf(t).rule[Calling(t)] = "deny"

\* The promise of the turn settles: the console is idle, whatever else runs.
Ends(t, how) ==
  /\ turn' = [turn EXCEPT ![t] = [NewTurn EXCEPT !.pc = how]]
  /\ status' = "idle" /\ controller' = 0
  /\ exited' = (leaving \/ (mode = "piped" /\ how = "failed"))
  /\ UNCHANGED <<mode, approval, resolver, leaving>>

\* Mutant: the result of a call whose arguments cannot be parsed is not stored.
Result_MalformedSkipped(t) ==
  LET rest == Tail(turn[t].left) IN
  /\ history' = IF Calling(t) = "malformed" THEN history ELSE Append(history, ToolResult(t, Calling(t)))
  /\ answered' = [answered EXCEPT ![t] = "none"]
  /\ IF turn[t].aborted
     THEN Ends(t, "failed")
     ELSE /\ turn' = [turn EXCEPT ![t].left = rest, ![t].pc = IF rest = <<>> THEN "waiting" ELSE "calls"]
          /\ UNCHANGED consoleVars

\* The result is stored before an abort is looked for; then the next call, or the model again.
Result(t) ==
  LET rest == Tail(turn[t].left) IN
  /\ history' = Append(history, ToolResult(t, Calling(t)))
  /\ answered' = [answered EXCEPT ![t] = "none"]
  /\ IF turn[t].aborted
     THEN Ends(t, "failed")
     ELSE /\ turn' = [turn EXCEPT ![t].left = rest, ![t].pc = IF rest = <<>> THEN "waiting" ELSE "calls"]
          /\ UNCHANGED consoleVars

\* The turn waits for something outside.
Awaits(t, place) == turn' = [turn EXCEPT ![t].pc = place] /\ UNCHANGED <<history, answered>>

-----------------------------------------------------------------------------
(* ToolRegistry.execute *)

\* The terminal interface sets the checkpoint manager at its first turn, the others
\* never do; a snapshot may fail.
MayFail(ok) ==
  IF ok = (mode = "tui") THEN UNCHANGED faults
  ELSE ~ok /\ file # 0 /\ Fault("file")

\* An authorised tool starts; a command of a kind that is always blocked does not.
Perform(t) ==
  \/ /\ Calling(t) = "write"
     /\ \E ok \in BOOLEAN : MayFail(ok) /\ WriteFile(ok)
     /\ Result(t)
  \/ /\ Calling(t) = "delete"
     /\ \E ok \in BOOLEAN : MayFail(ok) /\ DeleteFile(ok)
     /\ Result(t)
  \/ /\ Calling(t) \in {"write", "delete"}
     /\ Fault("file")
     /\ ChangeFails(mode = "tui")
     /\ Result(t)
  \/ /\ Calling(t) = "run"
     /\ Awaits(t, "running")
     /\ UNCHANGED <<consoleVars, faults, fileVars>>
  \/ /\ Calling(t) = "run"
     /\ Result(t) /\ UNCHANGED <<faults, fileVars>>

\* The call ends with a message and nothing else.
Refused(t) == Result(t) /\ UNCHANGED <<faults, fileVars>>

\* Mutant: a request does not take the place of one that is shown.
Request_FirstShown(t) ==
  /\ turn' = [turn EXCEPT ![t].pc = IF mode = "piped" THEN "declined" ELSE "approval"]
  /\ resolver' = IF mode = "piped" THEN 0 ELSE t
  /\ approval' = IF mode = "piped" \/ approval # 0 THEN approval ELSE t
  /\ UNCHANGED <<mode, status, controller, leaving, exited, history, answered>>

\* requestApproval: shown in place of a request that is shown already, whose turn is
\* not answered any more; without a terminal it is declined.
Request(t) ==
  /\ turn' = [turn EXCEPT ![t].pc = IF mode = "piped" THEN "declined" ELSE "approval"]
  /\ approval' = IF mode = "piped" THEN 0 ELSE t
  /\ resolver' = approval'
  /\ UNCHANGED <<mode, status, controller, leaving, exited, history, answered>>

\* McpClient.callTool through the tool that was registered at the connection.
CallServer(t) ==
  IF server \in {"up", "silent", "closing"}
  THEN Awaits(t, "requesting") /\ UNCHANGED consoleVars
  ELSE Result(t)

Registered(t) == Calling(t) # "unknown" /\ (Calling(t) = "mcp" => GateOf(t).mcp)

Execute(t) ==
  \/ (~Registered(t) \/ turn[t].aborted \/ Calling(t) = "read") /\ Refused(t)
  \/ /\ Registered(t) /\ ~turn[t].aborted
     /\ \/ Calling(t) = "mcp" /\ CallServer(t) /\ UNCHANGED <<faults, fileVars>>
        \/ Calling(t) \in Tier2 /\ Denied(t) /\ Refused(t)
        \/ Calling(t) \in Tier2 /\ Allowed(t) /\ Perform(t)
        \/ /\ Calling(t) \in Tier2 /\ ~Denied(t) /\ ~Allowed(t)
           /\ Request(t) /\ UNCHANGED <<faults, fileVars>>

-----------------------------------------------------------------------------
(* agentTurn *)

NextTurn(t) == turn[t].pc = "none" /\ \A r \in Turns : r < t => turn[r].pc # "none"
AllEnded == \A t \in Turns : turn[t].pc \in Ended \cup {"none"}

\* A line is taken while the status is idle and no request is shown; the plain
\* console reads the next one when the turn has ended.
MaySubmit == approval = 0 /\ (IF mode = "tui" THEN status = "idle" ELSE AllEnded)

\* The operator submits a line: agentTurn stores it, builds its context from the
\* history and asks the model, or pairedTurn asks its two models first.
Submit(t, paired, reviewed) ==
  /\ Event /\ NextTurn(t) /\ MaySubmit
  /\ mode # "tui" => ~paired /\ ~reviewed
  /\ status' = "running" /\ controller' = IF mode = "tui" THEN t ELSE 0
  /\ LET messages == IF paired THEN history ELSE Append(history, User(t))
     IN  /\ history' = messages
         /\ turn' = [turn EXCEPT ![t] =
                       [NewTurn EXCEPT !.pc = IF paired THEN "pairing" ELSE "waiting",
                                       !.gate = Len(gates), !.reviewed = reviewed,
                                       !.from = IF paired THEN 0 ELSE HistoryStart(messages),
                                       !.upto = Len(messages)]]
  /\ overlap' = (overlap \/ ~AllEnded)
  /\ UNCHANGED <<mode, approval, resolver, leaving, exited, gates, serverVars, boundVars, answered, told, fileVars>>

Silent == UNCHANGED <<gates, serverVars, commands, overlap, told>>

\* The model answers.  Past the limit of rounds the turn throws before it stores the reply.
Reply(t, calls) ==
  /\ Event /\ turn[t].pc = "waiting" /\ ~turn[t].aborted /\ Accepted(Context(t))
  /\ \/ /\ calls # <<>> /\ turn[t].rounds >= MaxRounds
        /\ Ends(t, "failed") /\ UNCHANGED history
     \/ /\ calls # <<>> /\ turn[t].rounds < MaxRounds
        /\ history' = Append(history, Assistant(t, calls))
        /\ turn' = [turn EXCEPT ![t].pc = "calls", ![t].left = calls, ![t].rounds = @ + 1]
        /\ UNCHANGED consoleVars
     \/ /\ calls = <<>>
        /\ history' = Append(history, Assistant(t, calls))
        /\ Ends(t, "completed")
  /\ Silent /\ UNCHANGED <<answered, faults, fileVars>>

\* The request is aborted, refused, times out or breaks.
StreamFails(t) ==
  /\ Event /\ turn[t].pc = "waiting"
  /\ Ends(t, "failed")
  /\ Silent /\ UNCHANGED <<history, answered, faults, fileVars>>

\* The next call: an abort ends the turn and leaves the calls without results.
Call(t) ==
  /\ ~exited /\ turn[t].pc = "calls"
  /\ \/ turn[t].aborted /\ Ends(t, "failed") /\ UNCHANGED <<history, answered, faults, fileVars>>
     \/ ~turn[t].aborted /\ Calling(t) = "malformed" /\ Refused(t)
     \/ /\ ~turn[t].aborted /\ Calling(t) # "malformed" /\ turn[t].reviewed
        /\ Awaits(t, "reviewing") /\ UNCHANGED <<consoleVars, faults, fileVars>>
     \/ ~turn[t].aborted /\ Calling(t) # "malformed" /\ ~turn[t].reviewed /\ Execute(t)
  /\ Silent

\* reviewToolCall: the adversary blocks the call, or lets it on, also when it fails.
Reviewed(t) ==
  /\ Event /\ turn[t].pc = "reviewing"
  /\ Refused(t) \/ Execute(t)
  /\ Silent

\* The gate has decided, and an abort is looked for again.
Approved(t) ==
  /\ ~exited /\ turn[t].pc = "approved"
  /\ IF turn[t].aborted THEN Refused(t) ELSE Perform(t)
  /\ Silent

\* The gate has declined, or the server's answer is there.
Continue(t) ==
  /\ ~exited /\ turn[t].pc \in {"declined", "answered"}
  /\ Refused(t)
  /\ Silent

\* The command ends, at the latest at its timeout; an abort kills it.
CommandEnds(t) ==
  /\ Event /\ turn[t].pc = "running"
  /\ Refused(t)
  /\ Silent

\* pairedTurn: both models have answered and the exchange is stored, or one has not.
PairEnds(t) ==
  /\ Event /\ turn[t].pc = "pairing"
  /\ \/ history' = history \o <<User(t), Assistant(t, <<>>)>> /\ Ends(t, "completed")
     \/ UNCHANGED history /\ Ends(t, "failed")
  /\ Silent /\ UNCHANGED <<answered, faults, fileVars>>

-----------------------------------------------------------------------------
(* The operator *)

\* A key answers the request: the turn that asked goes on, and the approval for the
\* session is kept with its registry's gate.
Answer(choice) ==
  /\ Event /\ approval # 0
  /\ IF choice = "session"
     THEN /\ gates' = [gates EXCEPT ![turn[resolver].gate].approved = @ \cup {Calling(resolver)}]
          /\ told' = told \cup {<<turn[approval].gate, Calling(approval)>>}
     ELSE UNCHANGED <<gates, told>>
  /\ answered' = [answered EXCEPT ![approval] = choice]
  /\ turn' = [turn EXCEPT ![resolver].pc = IF choice = "decline" THEN "declined" ELSE "approved"]
  /\ approval' = 0 /\ resolver' = 0
  /\ UNCHANGED <<mode, status, controller, leaving, exited, history, serverVars, boundVars, overlap, fileVars>>

\* Ctrl-C or, to leave, Ctrl-D: the request is declined and the turn of the controller
\* aborted; without one the console closes.
Interrupt(leave) ==
  /\ Event /\ mode = "tui"
  /\ IF controller = 0
     THEN exited' = TRUE /\ UNCHANGED <<turn, approval, resolver, leaving>>
     ELSE /\ turn' = [t \in Turns |->
                       [turn[t] EXCEPT !.pc = IF t = resolver THEN "declined" ELSE @,
                                       !.aborted = @ \/ t = controller]]
          /\ approval' = 0 /\ resolver' = 0 /\ leaving' = (leaving \/ leave)
          /\ UNCHANGED exited
  /\ UNCHANGED <<mode, status, controller, gates, history, serverVars, boundVars, ghostVars, fileVars>>

\* /exit, or the end of the input.
Exit ==
  /\ Event /\ mode # "tui" /\ AllEnded
  /\ exited' = TRUE
  /\ UNCHANGED <<mode, status, controller, approval, resolver, leaving, gates, turn, history, serverVars,
                 boundVars, ghostVars, fileVars>>

Prompt == Event /\ MaySubmit
Command == Prompt /\ commands < MaxCommands /\ commands' = commands + 1

\* /permit: the terminal interface builds a registry anew, and a running turn keeps its
\* own; the plain console changes the rules of the one it has.
Permit(tool, action) ==
  /\ Command
  /\ LET rule == [Last(gates).rule EXCEPT ![tool] = action]
     IN  gates' = IF mode = "tui" THEN Append(gates, NewGate(rule))
                  ELSE [gates EXCEPT ![Len(gates)].rule = rule]
  /\ UNCHANGED <<consoleVars, turn, history, serverVars, faults, ghostVars, fileVars>>

UndoCommand ==
  /\ Command /\ mode = "tui"
  /\ \E kept, restored \in BOOLEAN :
       /\ Undo(kept, restored)
       /\ IF kept /\ restored THEN UNCHANGED faults ELSE Fault("file")
  /\ UNCHANGED <<consoleVars, gates, turn, history, serverVars, ghostVars>>

RewindCommand(i) ==
  /\ Command /\ mode = "tui" /\ Rewind(i)
  /\ UNCHANGED <<consoleVars, gates, turn, history, serverVars, faults, ghostVars>>

-----------------------------------------------------------------------------
(* The MCP server *)

\* /mcp add: the connection goes on beside the console, with the registry of now.
McpAdd ==
  /\ Command /\ mode = "tui" /\ server = "none"
  /\ server' = "connecting" /\ into' = Len(gates)
  /\ UNCHANGED <<consoleVars, gates, turn, history, faults, ghostVars, fileVars>>

McpConnected ==
  /\ Event /\ server = "connecting"
  /\ server' = "up" /\ into' = 0
  /\ gates' = [gates EXCEPT ![into].mcp = TRUE]
  /\ UNCHANGED <<consoleVars, turn, history, boundVars, ghostVars, fileVars>>

\* The connection is refused, or the child exits with a code during it.  The error that
\* reports it sets the status to idle, also during a turn.
McpFails ==
  /\ Event /\ server = "connecting"
  /\ server' = "none" /\ into' = 0
  /\ status' = "idle"
  /\ UNCHANGED <<mode, controller, approval, resolver, leaving, exited, gates, turn, history, boundVars, ghostVars, fileVars>>

\* /mcp remove (bounded by the additions): the tools leave the console's registry at once,
\* the client after its shutdown.
McpRemove ==
  /\ Prompt /\ mode = "tui" /\ server \in {"up", "silent", "dead"}
  /\ server' = IF server = "dead" THEN "none" ELSE "closing"
  /\ gates' = [gates EXCEPT ![Len(gates)].mcp = FALSE]
  /\ UNCHANGED <<consoleVars, turn, history, into, boundVars, ghostVars, fileVars>>

\* Pending requests are settled.
SettleRequests ==
  turn' = [t \in Turns |-> [turn[t] EXCEPT !.pc = IF @ = "requesting" THEN "answered" ELSE @]]

Disconnected ==
  /\ Event /\ server = "closing"
  /\ server' = "none"
  /\ SettleRequests
  /\ UNCHANGED <<consoleVars, gates, history, into, boundVars, ghostVars, fileVars>>

ServerAnswers(t) ==
  /\ Event /\ server \in {"up", "closing"} /\ turn[t].pc = "requesting"
  /\ turn' = [turn EXCEPT ![t].pc = "answered"]
  /\ UNCHANGED <<consoleVars, gates, history, serverVars, boundVars, ghostVars, fileVars>>

\* Mutant: requests that are pending when the child fails are kept.
ServerExits_PendingKept(quiet) ==
  /\ Event /\ server = "up" /\ Fault("server")
  /\ IF quiet THEN server' = "silent" /\ UNCHANGED turn ELSE server' = "dead" /\ UNCHANGED turn
  /\ UNCHANGED <<consoleVars, gates, history, into, commands, ghostVars, fileVars>>

\* The child exits: its pending requests are rejected, unless its code is 0 or a signal
\* killed it (quiet); then nothing is noticed.
ServerExits(quiet) ==
  /\ Event /\ server = "up" /\ Fault("server")
  /\ IF quiet THEN server' = "silent" /\ UNCHANGED turn ELSE server' = "dead" /\ SettleRequests
  /\ UNCHANGED <<consoleVars, gates, history, into, commands, ghostVars, fileVars>>

\* Nobody listens to the errors of the child and of its input: a child that cannot be
\* started, or does not take what is written to it, ends the whole process.
ChildError ==
  /\ Event /\ Fault("server")
  /\ \/ server \in {"connecting", "closing"}
     \/ server = "up" /\ \E t \in Turns : turn[t].pc = "requesting"
  /\ exited' = TRUE
  /\ UNCHANGED <<mode, status, controller, approval, resolver, leaving, gates, turn, history, serverVars,
                 commands, ghostVars, fileVars>>

-----------------------------------------------------------------------------
TurnStep(t) ==
  \/ \E calls \in Replies : Reply(t, calls)
  \/ StreamFails(t) \/ Call(t) \/ Reviewed(t) \/ Approved(t) \/ Continue(t)
  \/ CommandEnds(t) \/ PairEnds(t)

Answers == \E choice \in {"once", "session", "decline"} : Answer(choice)

Operator ==
  \/ \E t \in Turns, paired, reviewed \in BOOLEAN : Submit(t, paired, reviewed)
  \/ \E leave \in BOOLEAN : Interrupt(leave)
  \/ \E rule \in Rules : Permit(rule[1], rule[2])
  \/ \E i \in DOMAIN saved : RewindCommand(i)
  \/ Exit \/ UndoCommand \/ McpAdd \/ McpRemove

Next ==
  \/ \E t \in Turns : TurnStep(t) \/ ServerAnswers(t)
  \/ Answers \/ Operator
  \/ McpConnected \/ McpFails \/ ChildError \/ Disconnected
  \/ \E quiet \in BOOLEAN : ServerExits(quiet)

Spec == Init /\ [][Next]_vars

\* Requests to the model, commands and reviews have timeouts, and an operator answers the
\* request that is shown.  Nothing obliges the MCP server to answer or to connect.
FairSpec == Spec /\ (\A t \in Turns : WF_vars(TurnStep(t))) /\ WF_vars(Answers) /\ WF_vars(Disconnected)
-----------------------------------------------------------------------------
(* Properties *)

\* The turn's command starts, or its call changes the file.
Starts(t) ==
  /\ turn[t].left # <<>>
  /\ \/ turn[t].pc # "running" /\ turn'[t].pc = "running"
     \/ <<file, written>>' # <<file, written>> /\ history' = Append(history, ToolResult(t, Calling(t)))

\* A tier-2 tool starts only for a turn that is not aborted, and either a rule of the
\* registry the turn began with allows it, or no rule denies it and the operator has
\* approved the request that was shown for this very call, or the tool for the session
\* of that registry; whichever turns ask at the same time (tools.ts:180-214, tui.tsx:67-84).
EffectsWereAllowed ==
  [][\A t \in Turns : Starts(t) =>
       LET rule == GateOf(t).rule[Calling(t)]
       IN  /\ ~turn[t].aborted
           /\ \/ rule = "allow"
              \/ /\ rule = "ask"
                 /\ answered[t] \in {"once", "session"} \/ <<turn[t].gate, Calling(t)>> \in told]_vars

\* The results that follow a reply so far.
Answered(i) == Cardinality({j \in i + 1 .. Len(history) :
                              \A k \in i + 1 .. j : history[k].role = "tool"})

\* The stored conversation answers each call once and in order; only a turn that failed
\* leaves calls without results, or two turns at once (loop.ts:187-246, tui-state.ts:44).
HistoryIsAnswered ==
  overlap \/
    \A i \in DOMAIN history :
      LET t == history[i].turn IN
      history[i].role = "assistant" =>
        \/ Whole(history, i)
        \/ turn[t].pc = "failed"
        \/ Answered(i) + Len(turn[t].left) = Len(history[i].calls)

\* What the model is sent is a conversation the provider accepts, wherever the stored one
\* is cut, unless a turn failed before or two ran at once (context.ts:77-108, loop.ts:187).
ContextIsWhole ==
  overlap \/
    \A t \in Turns :
      turn[t].pc = "waiting" => \/ Accepted(Context(t))
                                \/ \E r \in Turns : r < t /\ turn[r].pc = "failed"

\* A turn ends, unless another turn's request took the place of the one it waits for, or it
\* waits for an answer of the MCP server, which no timeout and no abort gives up: only the
\* removal of the server or an exit that is noticed does (tui.tsx:67-84,
\* mcp-client.ts:63-82, 128-138).
TurnsConclude ==
  \A t \in Turns :
    turn[t].pc # "none" ~>
      \/ turn[t].pc \in Ended \/ exited
      \/ turn[t].pc = "approval" /\ resolver # t
      \/ turn[t].pc = "requesting" /\ server \in {"up", "silent"}

\* docs/user-guide.md:107 says "`Ctrl-C` cancels an active turn": a turn the operator aborted
\* ends, also one that waits for the MCP server.  The code does not keep this (callTool is
\* given no signal): it is TurnsConclude without an exception for the server.
AbortedTurnEnds ==
  \A t \in Turns : turn[t].aborted ~> turn[t].pc \in Ended \/ exited
=============================================================================
