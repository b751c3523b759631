SPECIFICATION Spec
CONSTANTS
  MAX_TAG_SERVICES = 512
  MAX_LEVELS = 12
  BUFSIZE = 440
  WAITING = 4
  Keys <- ShortAndLongKeys
  Euids <- SomeEuids
  Counts = {0, 9, 10, 100}
  Used = {0, 9, 10}
INVARIANTS
  TypeOK
  TextExact
  LinesKept
