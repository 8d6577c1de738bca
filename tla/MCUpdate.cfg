SPECIFICATION Spec
CONSTANTS
  Versions <- SomeVersions
  Trial <- SomeTrials
  Post = {a1, a2}
  Cli = {c1}
  None = None
INVARIANTS
  TypeOK
  InstalledRuns
  NeverDowngraded
  InstalledAsReported
  NothingLeft
PROPERTIES
  UpdateEnds
