SPECIFICATION Spec
CONSTANTS
  t1 = t1
  t2 = t2
  t3 = t3
  Threads = {t1, t2, t3}
  Program <- LifecycleProgram
  EUID <- TwoUsers
  Interruptible = {}
  MAX_TAG_SERVICES = 1
  MAX_LEVELS = 1
  Keys = {1}
  Messages = {m1}
  LongMessages = {}
  ZERO = ZERO
  TORN = TORN
  Blocks = {b1, b2}
  NULL = NULL
  Recycle = TRUE
  WORD = 8
INVARIANTS
  TypeOK
  LockHandOver
  TableIntegrity
  RemovalExclusive
  DeferredWorkOnLiveService
  PermissionUnderLock
PROPERTIES
  CountKept
  ImplementsExchange
SYMMETRY BlockSymmetry
VIEW Relevant
CHECK_DEADLOCK FALSE
