SPECIFICATION MeshSpec
CONSTANTS
  MaxChanges = 2
  Receiver = {r1, r2}
  File = {f1, f2}
  Chunks = 2
INVARIANTS
  NegotiationSound
  FilesSound
PROPERTIES
  AllDescribedInTheEnd
CHECK_DEADLOCK FALSE
