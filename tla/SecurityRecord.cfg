SPECIFICATION StateSpec
CONSTANTS
  a = a
  b = b
  manifest = manifest
  keyring = keyring
  x = x
  y = y
  Processes = {a, b}
  NoProcess = NoProcess
  NoCall = NoCall
  Docs = {manifest, keyring}
  Sequences = {1, 2}
  Contents = {x, y}
  NoBytes = NoBytes
  Systems = {"windows", "linux"}
  OutagesOn = {"windows"}
SYMMETRY Symmetry
PROPERTIES AcceptsForward RecordsForward
