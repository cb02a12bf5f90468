SPECIFICATION Spec
CONSTANTS
  r1 = r1
  r2 = r2
  r3 = r3
  a = a
  b = b
  c = c
  NoRunner = NoRunner
  Runners = {r1, r2, r3}
  Versions = {1, 2}
  Objects = {a, b, c}
  Times <- AnyTime
  Operations = {"init", "baseline", "up", "down", "dump", "status"}
  StepCounts = {1}
  Bodies <- AdoptBodies
  InitialFiles <- Reviewed
  InitialSchema = {a}
  ClockSteps = {1}
  InitialVersion = 2
  MaxEdits = 2
  Faults = {"log", "disk"}
SYMMETRY Symmetric
INVARIANTS
  TypeOK
  ResultIsRecordedState
  RecordAfterSQL
  LogAccountsForPlan
PROPERTIES
  AdoptionHolds
  DownReversesRegistration
CHECK_DEADLOCK FALSE
