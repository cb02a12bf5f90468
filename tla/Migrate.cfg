SPECIFICATION FairSpec
CONSTANTS
  r1 = r1
  r2 = r2
  r3 = r3
  a = a
  b = b
  c = c
  NoRunner = NoRunner
  Runners = {r1, r2}
  Versions = {1, 2}
  Objects = {a, b, c}
  Times <- AnyTime
  Operations = {"up", "down"}
  StepCounts = {0, 1}
  Bodies <- ThreeBodies
  InitialFiles <- Both
  InitialSchema = {}
  ClockSteps = {1}
  InitialVersion = 1
  MaxEdits = 0
  Faults = {"crash", "loss", "reply", "query"}
INVARIANTS
  LockHeldByWorker
  LogsNameEveryDivergence
  StaleSnapshotIsReported
PROPERTIES
  ImplementsLedger
  Termination
CHECK_DEADLOCK FALSE
