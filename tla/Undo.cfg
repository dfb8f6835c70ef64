SPECIFICATION Spec
CONSTANTS
  Paths = {"d", "f", "g", "x"}
  Root = "root"
  Parent <- MCParent
  Contents = {c1, c2}
  Size <- MCSize
  Modes = {"rw", "no"}
  Readable = {"rw"}
  DefaultMode = "rw"
  TempPaths = {"f"}
  FileLinks = {"f"}
  SnapExcluded = {"x"}
  RestoreExcluded = {"x"}
  MaxEntries = 3
  MaxBytes = 0
  MaxWrites = 2
  MaxFaults = 1
  None = None
CHECK_DEADLOCK FALSE
INVARIANTS UndisturbedSnapshotComplete RestoreReachesManifest RestoreAtomicPerFile 
PROPERTIES RestoreWritesVerifiedContent
SYMMETRY MCSymmetry
CONSTRAINT SecondFileAlone
