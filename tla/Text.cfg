SPECIFICATION TextSpec
CONSTANTS
  Letters = {"i", "s"}
  MaxBuff = 4
  MaxHistory = 2
  MaxLongWord = 1
  MaxRead = 3
  MaxText = 5
  MaxJumps = 1
  Elsewhere <- MCElsewhere
  Styles <- MCStyles
  MaxShown = 3
  MaxChanges = 1
  MaxMoves = 1
INVARIANTS Mirror WordIsSound WordIsComposed StyledAsTyped
PROPERTIES EditsStayInWord
CHECK_DEADLOCK FALSE
