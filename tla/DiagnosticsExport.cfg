CONSTANTS
  Emitters = {t1}
  Backend = backend
  RegularCapacity = 1
  PriorityCapacity = 1
  ControlCapacity = 2
  MaxEvents = 1
  MaxCalls = 2
  Modes = {"plain", "sensitive"}
  MayFail = TRUE
  None = None

SPECIFICATION Spec

CHECK_DEADLOCK FALSE

INVARIANTS
  BundleSound
