SPECIFICATION Spec
CONSTANTS
  t1 = t1
  t2 = t2
  t3 = t3
  Threads = {t1, t2, t3}
  Program <- TableProgram
  EUID <- OneUser
  Interruptible = {}
  MAX_TAG_SERVICES = 2
  MAX_LEVELS = 1
  Keys <- SignedKeys
  Messages = {m1}
  LongMessages = {}
  ZERO = ZERO
  TORN = TORN
  Blocks = {b1, b2, b3, b4}
  NULL = NULL
  Recycle = FALSE
  WORD = 8
INVARIANTS
  RemainingExact
  TableIntegrity
  LockHandOver
  LockInBounds
SYMMETRY BlockSymmetry
VIEW Relevant
CHECK_DEADLOCK FALSE
