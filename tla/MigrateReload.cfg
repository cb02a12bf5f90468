SPECIFICATION Spec
CONSTANTS
  r1 = r1
  r2 = r2
  r3 = r3
  a = a
  b = b
  c = c
  NoRunner = NoRunner
  Runners = {r1, r2}
  Versions = {1, 2}
  Objects = {a, b, c}
  Times <- AnyTime
  Operations = {"up", "down"}
  StepCounts = {0}
  Bodies <- TwoBodies
  InitialFiles <- Later
  InitialSchema = {}
  ClockSteps = {1}
  InitialVersion = 1
  MaxEdits = 1
  Faults = {}
SYMMETRY Symmetric
PROPERTY AppliesFilesUnderLock
CHECK_DEADLOCK FALSE
