CONSTANTS
  Emitters = {t1}
  Backend = backend
  RegularCapacity = 2
  PriorityCapacity = 1
  ControlCapacity = 1
  MaxEvents = 2
  MaxCalls = 1
  Modes = {"plain"}
  MayFail = FALSE
  None = None

SPECIFICATION FairSpec

CHECK_DEADLOCK FALSE

INVARIANTS
  NoSilentLoss
  AcceptedIsDurable

PROPERTY
  ShutdownReturns
