SPECIFICATION Spec
CONSTANTS
  MaxProc = 2
  MaxTurn = 2
  MaxLine = 1
  MaxSay = 1
  MaxReplay = 1
  Fault = {"break"}
PROPERTY KeepsTurns
CHECK_DEADLOCK FALSE
