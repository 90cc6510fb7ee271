\* Two turns in each console, one command, one fault.  The operator may leave.
CONSTANTS
  Binary = {FALSE}
  Turns = {1, 2}
  Modes = {"tui", "plain", "piped"}
  Replies <- SomeReplies
  Rules <- TwoRules
  MaxRounds = 1
  Recent = 3
  MaxCommands = 1
  Faulty = {"server"}
  MaxFaults = 1
SPECIFICATION FairSpec
CHECK_DEADLOCK FALSE
INVARIANTS
  HistoryIsAnswered
  ContextIsWhole
PROPERTIES
  EffectsWereAllowed
  TurnsConclude
