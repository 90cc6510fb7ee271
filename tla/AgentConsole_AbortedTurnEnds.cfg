\* One turn in the terminal interface, one server that is added.
CONSTANTS
  Binary = {FALSE}
  Turns = {1}
  Modes = {"tui"}
  Replies <- SomeReplies
  Rules <- TwoRules
  MaxRounds = 1
  Recent = 3
  MaxCommands = 1
  Faulty = {}
  MaxFaults = 0
SPECIFICATION FairSpec
CHECK_DEADLOCK FALSE
PROPERTY AbortedTurnEnds
