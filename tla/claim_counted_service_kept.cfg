SPECIFICATION Spec
CONSTANTS
  t1 = t1
  t2 = t2
  t3 = t3
  Threads = {t1, t2, t3}
  Program <- RemoveProgram
  EUID <- OneUser
  Interruptible = {}
  MAX_TAG_SERVICES = 1
  MAX_LEVELS = 1
  Keys = {1}
  Messages = {m1}
  LongMessages = {}
  ZERO = ZERO
  TORN = TORN
  Blocks = {b1}
  NULL = NULL
  Recycle = FALSE
  WORD = 8
INVARIANTS
  CountedServiceKept
