SPECIFICATION AudienceSpec
CONSTANTS
  p1 = p1
  p2 = p2
  f1 = f1
  NoProc = NoProc
  Procs = {p1, p2}
  MaxVersions = 2
  ReaderDigest <- UnmovedDigest
  RoleDigest <- UnmovedDigest
  Roles <- MachineOnly
  Answers <- OneAnswer
  Coarse <- OneCoarse
  MaxRounds = 2
  MaxFaults = 1
  MaxRunners = 2
  MaxDisposed = 1
SYMMETRY Symmetry
INVARIANTS
    NeverContradicts
PROPERTIES
    GateAgrees
CHECK_DEADLOCK FALSE
