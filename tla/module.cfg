SPECIFICATION Spec
CONSTANTS
  f = f
  get = get
  send = send
  receive = receive
  ctl = ctl
  Pages = {0, 1, 2}
  TABLE = 2
  PAGE_SIZE = 7
  NiSyscalls <- Pattern
  ENTRIES_TO_EXPLORE = 7
  MAX_FREE = 5
  NI = NI
  Functions = {f, get, send, receive, ctl, foreign}
  JUNK = JUNK
  Calls <- TheCalls
  FOREIGN = foreign
  World <- SmallWorld
  NONE = NONE
CONSTRAINT Explored
INVARIANTS
  TypeOK
  EntriesReserved
  TableRestored
PROPERTY
  FinderExact
CHECK_DEADLOCK FALSE
