SPECIFICATION Spec
CONSTANTS
  t1 = t1
  t2 = t2
  t3 = t3
  Threads = {t1, t2, t3}
  Program <- ExchangeProgram
  EUID <- OneUser
  Interruptible = {t2}
  MAX_TAG_SERVICES = 1
  MAX_LEVELS = 2
  Keys = {1}
  Messages = {m1, m2}
  LongMessages = {m2}
  ZERO = ZERO
  TORN = TORN
  Blocks = {b1}
  NULL = NULL
  Recycle = FALSE
  WORD = 8
INVARIANTS
  LockHandOver
  ExchangeWindow
  ReaderProtected
  CountExact
PROPERTIES
  MessageStable
  ImplementsExchange
VIEW Relevant
