SPECIFICATION RefSpec
CONSTANTS
  t1 = t1
  t2 = t2
  Threads = {t1, t2}
  Program <- Everything
  EUID <- TwoUsers
  Interruptible = {t2}
  MAX_TAG_SERVICES = 1
  MAX_LEVELS = 1
  Keys = {0, 1}
  Messages = {m1, m2}
  LongMessages = {m2}
  ZERO = ZERO
  TORN = TORN
  Blocks = {b1, b2, b3}
  NULL = NULL
  Recycle = FALSE
  WORD = 4
  MaxLeaked = 1
INVARIANT RefsExact
SYMMETRY BlockSymmetry
VIEW Relevant
CHECK_DEADLOCK FALSE
