CONSTANTS
  BufSize = 5
  PipeSize = 7
  Lengths = {2, 3}
  MaxLines = 4
SPECIFICATION Spec
INVARIANTS WholeLinesInOrder
