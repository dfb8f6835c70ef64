SPECIFICATION Spec
CONSTANTS
  Paths = {"d", "f"}
  Root = "root"
  Parent <- MCParent
  Contents = {c1, c2}
  Size <- MCSize
  Modes = {"rw", "no"}
  Readable = {"rw"}
  DefaultMode = "rw"
  TempPaths = {}
  FileLinks = {}
  SnapExcluded = {}
  RestoreExcluded = {}
  MaxEntries = 0
  MaxBytes = 0
  MaxWrites = 2
  MaxFaults = 0
  None = None
INVARIANTS ManifestObjectsStored
CHECK_DEADLOCK FALSE
