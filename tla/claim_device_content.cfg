SPECIFICATION Spec
CONSTANTS
  t1 = t1
  t2 = t2
  t3 = t3
  Threads = {t1, t2, t3}
  Program <- ReaderProgram
  Level <- OnLevels
  MAX_LEVELS = 2
  Services = {s1}
  Buffers = {f1, f2}
  NULL = NULL
  InitOnAlloc = TRUE
PROPERTIES
  ContentKept
CHECK_DEADLOCK FALSE
