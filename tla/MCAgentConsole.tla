---------------------------- MODULE MCAgentConsole ----------------------------
(* Replies that end a turn, write and run, ask the server, or are malformed    *)
(* before a deletion; one tool allowed and another denied by rule.             *)
EXTENDS AgentConsole

SomeReplies ==
  {<<>>, <<"write", "run">>, <<"mcp">>, <<"malformed", "delete">>}

TwoRules == {<<"write", "allow">>, <<"run", "deny">>}
=============================================================================
