SPECIFICATION TextSpec
CONSTANTS
  Letters = {"i"}
  MaxBuff = 1
  MaxHistory = 1
  MaxLongWord = 1
  MaxRead = 3
  MaxText = 1
  MaxJumps = 0
  Elsewhere = {}
  Styles <- MCStyles
  MaxShown = 3
  MaxChanges = 1
  MaxMoves = 1
INVARIANTS CaretEditForgets
CHECK_DEADLOCK FALSE
