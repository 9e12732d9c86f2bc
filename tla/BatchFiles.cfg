SPECIFICATION Spec
CONSTANTS
  NumItems = 2
  MaxWorkers = 2
  Modes = {"overwrite", "skip", "suffix"}
  p1 = p1
  p2 = p2
  Paths = {p1, p2}
  NoPath = NoPath
INVARIANTS OneWriterPerPath OkMeansDelivered ResultsTruthful
PROPERTIES ForeignFilesKept Terminates
CHECK_DEADLOCK FALSE
