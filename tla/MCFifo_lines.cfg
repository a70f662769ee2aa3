CONSTANTS
  BufSize = 6
  PipeSize = 11
  Lengths = {2, 3, 4, 5, 6, 7}
  MaxLines = 4
SPECIFICATION FairSpec
INVARIANTS PosInBuffer NothingInvented CommandsAreLines
PROPERTIES EveryLineDone
