SPECIFICATION FairSpec
CONSTANTS
  MaxProc = 2
  MaxTurn = 2
  MaxLine = 1
  MaxSay = 1
  MaxReplay = 0
  Fault = {"die", "stop", "break"}
INVARIANT RuntimeInv
PROPERTY KeepsTurns
INVARIANT PromptWakes
INVARIANT NoOrphan
PROPERTY PromptEnds
CHECK_DEADLOCK FALSE
