SPECIFICATION ToneSpec
CONSTANTS
  Keys = {"o", "a", "s"}
  MaxWord = 3
  MaxSwitches = 1
PROPERTIES StyleMovesMarksOnly
CHECK_DEADLOCK FALSE
