SPECIFICATION Spec
CONSTANTS
  w1 = w1
  w2 = w2
  n1 = n1
  n2 = n2
  Writers = {w1, w2}
  Names = {n1, n2}
  NoFile = NoFile
  Foreign = Foreign
  Leftover = Leftover
  NoName = NoName
  Chunks = 2
  MaxAttempts = 2
  Platforms = {"windows", "linux"}
INVARIANTS OneWinner
PROPERTIES TempsTidy PublishesAtomically
CHECK_DEADLOCK FALSE
