SPECIFICATION Spec
CONSTANTS
  Letters = {"i", "s"}
  MaxBuff = 5
  MaxHistory = 3
  MaxLongWord = 2048
  MaxRead = 64
  MaxText = 4
  MaxJumps = 0
  Elsewhere = {}
PROPERTIES SpaceAddsText
