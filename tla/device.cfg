SPECIFICATION LiveSpec
CONSTANTS
  t1 = t1
  t2 = t2
  t3 = t3
  Threads = {t1, t2, t3}
  Program <- DeviceProgram
  Level <- OnLevels
  MAX_LEVELS = 2
  Services = {s1, s2}
  Buffers = {f1, f2}
  NULL = NULL
  InitOnAlloc = TRUE
INVARIANTS
  TypeOK
  LineExact
  ContentPublished
  NoBufferLeak
PROPERTIES
  DeviceLockReleased
CHECK_DEADLOCK FALSE
