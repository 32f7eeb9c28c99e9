\* Three threads of two lines each, and a clock that runs up to 5.
CONSTANTS
  main = main
  crash = crash
  input = input
  Thread = {main, crash, input}
  NoThread = noThread
  BASE = 2
  LOGGER_NUMBER_DIGITS = 3
  MAX_LINES = 2
  MAX_TIME = 5
SPECIFICATION Spec
SYMMETRY ThreadSymmetry
INVARIANTS TypeOK IndInv SortedLinesKeepOrder
