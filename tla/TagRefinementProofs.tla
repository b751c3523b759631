------------------------- MODULE TagRefinementProofs -------------------------
(***************************************************************************)
(* TagService implements MessageExchange: every step of a system call or   *)
(* of a callback is a step of the abstract exchange, or none.              *)
(***************************************************************************)
EXTENDS TagRefinement, TagExchangeProofs

-----------------------------------------------------------------------------
\* What the flags of a service allow to conclude.

\* A READY flag or a request belongs to one call, so they are exclusive.
LEMMA OneUse ==
  ASSUME ExchangeInv, NEW b \in Blocks
  PROVE  /\ \A l, k \in Levels :
              level[b][l].message_ready /\ level[b][k].message_ready => l = k
         /\ Ready(b) # {} => Live(b) /\ ~svc[b].awake_request
         /\ svc[b].awake_request => Live(b)
  <1>1. \A l \in Levels : level[b][l].message_ready =>
          \/ \E t \in Threads : Posts(t, b, l)
          \/ \E cb \in callbacks : PostPending(cb, b, l)
    BY DEF ExchangeInv, WindowInv, ExchangeWindow, Posts, PostPending
  <1>2. svc[b].awake_request => \/ \E t \in Threads : Asks(t, b)
                                \/ \E cb \in callbacks : AskPending(cb, b)
    BY DEF ExchangeInv, WindowInv, ExchangeWindow, Asks, AskPending
  <1>3. ASSUME NEW t \in Threads, pc[t] \in Posted \cup Asked, ts[t] = b
        PROVE  /\ Live(b)
               /\ \A u \in Threads : pc[u] \in Posted \cup Asked /\ ts[u] = b
                                       => u = t
               /\ \A cb \in callbacks : cb.block # b
    BY <1>3, ExchangesWork, OneWorker
       DEF ExchangeInv, SafeInv, ServiceInv, ThreadServiceOK
  <1>4. ASSUME NEW cb \in callbacks, cb.block = b
        PROVE  /\ Live(b)
               /\ \A c \in callbacks : c.block = b => c = cb
    BY <1>4 DEF ExchangeInv, SafeInv, ServiceInv, LockHandOver, CallbackTag
  <1>5. Posted \cap Asked = {}
    BY DEF Posted, Asked
  <1>6. ASSUME NEW l \in Levels, NEW k \in Levels,
               level[b][l].message_ready, level[b][k].message_ready
        PROVE  l = k
    BY <1>1, <1>3, <1>4, <1>6 DEF Posts, PostPending
  <1>7. ASSUME NEW l \in Levels, level[b][l].message_ready
        PROVE  Live(b) /\ ~svc[b].awake_request
    BY <1>1, <1>2, <1>3, <1>4, <1>5, <1>7
       DEF Posts, PostPending, Asks, AskPending
  <1>8. svc[b].awake_request => Live(b)
    BY <1>2, <1>3, <1>4 DEF Asks, AskPending
  <1>9. Ready(b) # {} => \E l \in Levels : level[b][l].message_ready
    BY DEF Ready
  <1> QED
    BY <1>6, <1>7, <1>8, <1>9

LEMMA PostIs ==
  ASSUME ExchangeInv, NEW b \in Blocks, NEW l \in Levels,
         level[b][l].message_ready
  PROVE  /\ Ready(b) = {l} /\ PostOf(b) = <<l, level[b][l].message>>
         /\ StageOf(b) = IF SealOf(b) = {} THEN "posted" ELSE "sealed"
  <1>1. Ready(b) = {l}
    BY OneUse DEF Ready
  <1>2. b \in allocated /\ ~svc[b].lazy_deleted
    BY <1>1, OneUse DEF Live
  <1>3. \A k \in Ready(b) : k = l
    BY <1>1
  <1>4. StageOf(b) = IF SealOf(b) = {} THEN "posted" ELSE "sealed"
    BY <1>1, <1>2 DEF StageOf
  <1>5. PostOf(b) = <<l, level[b][l].message>>
    <2> DEFINE k == CHOOSE k \in Ready(b) : TRUE
    <2>1. k = l
      BY <1>1, <1>3
    <2>2. PostOf(b) = <<k, level[b][k].message>>
      BY <1>1 DEF PostOf
    <2> HIDE DEF k
    <2> QED
      BY <2>1, <2>2
  <1> QED
    BY <1>1, <1>4, <1>5

\* The service of a thread at work is idle before the thread has set a flag.
LEMMA WorkerFindsIdle ==
  ASSUME ExchangeInv, NEW t \in Threads, pc[t] \in Working \ (Posted \cup Asked)
  PROVE  /\ Ready(ts[t]) = {} /\ StageOf(ts[t]) = "idle"
         /\ PostOf(ts[t]) = NULL
  <1>1. /\ ts[t] \in Blocks /\ Live(ts[t])
        /\ \A cb \in callbacks : cb.block # ts[t]
        /\ \A u \in Threads : pc[u] \in Asked => ts[u] # ts[t]
    BY WorkerHolds, OneWorker, ExchangesWork
       DEF ExchangeInv, SafeInv, ServiceInv, ThreadServiceOK
  <1>2. ~svc[ts[t]].awake_request
    BY <1>1 DEF ExchangeInv, WindowInv, ExchangeWindow
  <1>3. Ready(ts[t]) = {}
    BY EmptyLevel DEF Ready
  <1> QED
    BY <1>1, <1>2, <1>3 DEF StageOf, PostOf, Live

-----------------------------------------------------------------------------
\* Who is promised the message of b.

AllWait(u, b) == \A cb \in SealOf(b) : u \in cb.readers

IsDue(u, b) == /\ u \in Readers /\ ts[u] = b /\ local[u].level \in Ready(b)
               /\ AllWait(u, b) /\ WillGet(u)

LEMMA DueIs ==
  ASSUME NEW b \in Blocks, NEW u \in Threads
  PROVE  /\ u \in DueOf(b) <=> IsDue(u, b)
         /\ u \in DueOf(b)' <=> IsDue(u, b)'
  BY DEF DueOf, IsDue, AllWait, Readers

LEMMA NoDue ==
  ASSUME NEW b \in Blocks
  PROVE  /\ Ready(b) = {} => DueOf(b) = {}
         /\ Ready(b)' = {} => DueOf(b)' = {}
  BY DEF DueOf

-----------------------------------------------------------------------------
\* What a step leaves as it is, as the exchange sees it.
StageKept(b) == StageOf(b)' = StageOf(b) /\ PostOf(b)' = PostOf(b)
ReaderKept(t) == ReadingOf(t)' = ReadingOf(t) /\ GotOf(t)' = GotOf(t)
DueKept == \A b \in Blocks : DueOf(b)' = DueOf(b)
ReadersKept == \A t \in Threads : ReaderKept(t)

\* The callback of b's message is still queued, or still is not.
SealKept(b) == SealOf(b)' = {} <=> SealOf(b) = {}

LEMMA KeepsStage ==
  ASSUME NEW b \in Blocks, SameBlock(b), SealKept(b),
         svc'[b].lazy_deleted = svc[b].lazy_deleted,
         b \in allocated' <=> b \in allocated
  PROVE  StageKept(b)
  <1>1. Ready(b)' = Ready(b)
    BY DEF Ready, SameBlock
  <1>2. StageOf(b)' = StageOf(b)
    BY <1>1 DEF StageOf, SameBlock, SealKept
  <1>3. CASE Ready(b) = {}
    BY <1>1, <1>2, <1>3 DEF PostOf, StageKept
  <1>4. CASE Ready(b) # {}
    <2> DEFINE l == CHOOSE l \in Ready(b) : TRUE
    <2>1. l \in Levels
      BY <1>4 DEF Ready
    <2>2. PostOf(b) = <<l, level[b][l].message>>
      BY <1>4 DEF PostOf
    <2>3. PostOf(b)' = <<l, level'[b][l].message>>
      BY <1>1, <1>4 DEF PostOf
    <2> HIDE DEF l
    <2> QED
      BY <1>2, <2>1, <2>2, <2>3 DEF StageKept, SameBlock
  <1> QED
    BY <1>3, <1>4

LEMMA KeepsReader ==
  ASSUME NEW t \in Threads, SameStage(t) PROVE ReaderKept(t)
  <1>1. /\ pc'[t] \in ReadSection <=> pc[t] \in ReadSection
        /\ pc'[t] \in Done <=> pc[t] \in Done
        /\ pc[t] \in ReadSection \cup Done =>
             ts'[t] = ts[t] /\ local'[t] = local[t] /\ ret'[t] = ret[t]
    BY DEF SameStage
  <1>2. ReadingOf(t)' = ReadingOf(t)
    BY <1>1 DEF ReadingOf, Readers
  <1>3. CASE pc[t] \in Done
    BY <1>1, <1>2, <1>3 DEF ReaderKept, GotOf, Done
  <1>4. CASE pc[t] \notin Done
    BY <1>1, <1>2, <1>4 DEF ReaderKept, GotOf, Done
  <1> QED
    BY <1>3, <1>4

LEMMA KeepsOthers ==
  ASSUME NEW t \in Threads, OthersSame(t)
  PROVE  \A u \in Threads \ {t} : ReaderKept(u)
  BY DEF OthersSame, ReaderKept, ReadingOf, GotOf, Readers

\* The READY flags and the messages of a block.
SameLevels(b) == \A l \in Levels :
  /\ level'[b][l].message_ready = level[b][l].message_ready
  /\ level'[b][l].message = level[b][l].message

LEMMA BlockLevels ==
  ASSUME NEW b \in Blocks, SameBlock(b) \/ level' = level
  PROVE  SameLevels(b)
  BY DEF SameBlock, SameLevels

\* While they stay, only a reader's own steps and the callback's list of
\* readers change what the reader is promised.
LEMMA KeepsDue ==
  ASSUME NEW b \in Blocks, NEW u \in Threads, SameLevels(b),
         pc'[u] = pc[u], ts'[u] = ts[u], local'[u] = local[u],
         ret'[u] = ret[u], u \in signalled' <=> u \in signalled,
         AllWait(u, b)' <=> AllWait(u, b)
  PROVE  u \in DueOf(b)' <=> u \in DueOf(b)
  <1>1. Ready(b)' = Ready(b)
    BY DEF Ready, SameLevels
  <1>2. u \in Readers' <=> u \in Readers
    BY DEF Readers
  <1>3. ASSUME ts[u] = b, local[u].level \in Ready(b)
        PROVE  WillGet(u)' <=> WillGet(u)
    <2>1. level'[ts'[u]][local'[u].level].message
            = level[ts[u]][local[u].level].message
      BY <1>3 DEF SameLevels, Ready
    <2> QED
      BY <2>1 DEF WillGet, At
  <1>4. IsDue(u, b)' <=> IsDue(u, b)
    BY <1>1, <1>2, <1>3 DEF IsDue
  <1> QED
    BY <1>4, DueIs

-----------------------------------------------------------------------------
\* The steps of the exchange, put together from what they do to one service
\* or to one receiver.

LEMMA NoStep ==
  ASSUME \A b \in Blocks : StageKept(b), ReadersKept, DueKept
  PROVE  UNCHANGED Exchange!vars
  BY DEF Exchange!vars, StageKept, ReadersKept, ReaderKept, DueKept

LEMMA TurnStep ==
  ASSUME NEW b \in Blocks, NEW from, NEW to, StageOf(b) = from,
         StageOf(b)' = to, PostOf(b)' = PostOf(b),
         \A c \in Blocks \ {b} : StageKept(c), ReadersKept, DueKept
  PROVE  Exchange!Turn(b, from, to)
  BY DEF Exchange!Turn, Exchange!Becomes, StageKept, ReadersKept, ReaderKept,
     DueKept

LEMMA PostStep ==
  ASSUME NEW b \in Blocks, NEW l \in Levels, NEW m \in Messages,
         StageOf(b) = "idle", StageOf(b)' = "posted", PostOf(b)' = <<l, m>>,
         \A u \in DueOf(b)' : u \in Threads /\ ReadingOf(u) = <<b, l>>,
         \A c \in Blocks \ {b} : StageKept(c) /\ DueOf(c)' = DueOf(c),
         ReadersKept
  PROVE  Exchange!Post(b, l, m)
  <1> DEFINE due == [c \in Blocks |-> DueOf(c)]
  <1>1. due' = [due EXCEPT ![b] = DueOf(b)']
    OBVIOUS
  <1>2. DueOf(b)' \in SUBSET {u \in Threads :
                               [v \in Threads |-> ReadingOf(v)][u] = <<b, l>>}
    OBVIOUS
  <1>3. \E R \in SUBSET {u \in Threads :
                        [v \in Threads |-> ReadingOf(v)][u] = <<b, l>>} :
          due' = [due EXCEPT ![b] = R]
    BY <1>1, <1>2
  <1>4. /\ [c \in Blocks |-> StageOf(c)]' =
             [[c \in Blocks |-> StageOf(c)] EXCEPT ![b] = "posted"]
        /\ [c \in Blocks |-> PostOf(c)]' =
             [[c \in Blocks |-> PostOf(c)] EXCEPT ![b] = <<l, m>>]
        /\ [u \in Threads |-> ReadingOf(u)]' = [u \in Threads |-> ReadingOf(u)]
        /\ [u \in Threads |-> GotOf(u)]' = [u \in Threads |-> GotOf(u)]
    BY DEF StageKept, ReadersKept, ReaderKept
  <1> QED
    BY <1>3, <1>4 DEF Exchange!Post, Exchange!Becomes

LEMMA CloseStep ==
  ASSUME NEW b \in Blocks, NEW from, StageOf(b) = from, StageOf(b)' = "idle",
         PostOf(b)' = NULL, DueOf(b)' = {},
         \A c \in Blocks \ {b} : StageKept(c) /\ DueOf(c)' = DueOf(c),
         ReadersKept
  PROVE  Exchange!Close(b, from)
  BY DEF Exchange!Close, Exchange!Becomes, StageKept, ReadersKept, ReaderKept

-----------------------------------------------------------------------------
\* Steps of a thread that is not receiving do not concern the receivers.
LEMMA NotReceiving ==
  ASSUME NEW t \in Threads, OthersSame(t),
         pc[t] \notin ReadSection \cup Done,
         pc'[t] \notin ReadSection \cup Done
  PROVE  ReadersKept
  <1>1. ReaderKept(t)
    BY DEF ReaderKept, ReadingOf, GotOf, Readers, Done
  <1> QED
    BY <1>1, KeepsOthers DEF ReadersKept

\* What a thread does that is not reading concerns the readers of a service
\* only by its flags, its message and its callback.
LEMMA DueUntouched ==
  ASSUME NEW t \in Threads, OthersSame(t), NEW b \in Blocks, SameLevels(b),
         \A u \in Threads \ {t} : u \in signalled' <=> u \in signalled,
         \A u \in Threads \ {t} : AllWait(u, b)' <=> AllWait(u, b),
         t \in DueOf(b)' <=> t \in DueOf(b)
  PROVE  DueOf(b)' = DueOf(b)
  <1>1. \A u \in Threads \ {t} : u \in DueOf(b)' <=> u \in DueOf(b)
    BY KeepsDue DEF OthersSame
  <1> QED
    BY <1>1 DEF DueOf, Readers

LEMMA NotReadingDue ==
  ASSUME NEW t \in Threads, OthersSame(t), NEW b \in Blocks, SameLevels(b),
         \A u \in Threads \ {t} : u \in signalled' <=> u \in signalled,
         pc[t] \notin ReadSection, pc'[t] \notin ReadSection,
         SealOf(b)' = SealOf(b)
  PROVE  DueOf(b)' = DueOf(b)
  <1>1. t \notin DueOf(b) /\ t \notin DueOf(b)'
    BY DEF DueOf, Readers
  <1> QED
    BY <1>1, DueUntouched DEF AllWait

LEMMA QuietDue ==
  ASSUME NEW t \in Threads, OthersSame(t), UNCHANGED <<level, callbacks>>,
         \A u \in Threads \ {t} : u \in signalled' <=> u \in signalled,
         pc[t] \notin ReadSection, pc'[t] \notin ReadSection
  PROVE  DueKept
  BY BlockLevels, NotReadingDue DEF DueKept, SealOf

\* While no callback is queued or run.
LEMMA SameSeal ==
  ASSUME callbacks' = callbacks
  PROVE  \A b \in Blocks : SealOf(b)' = SealOf(b) /\ SealKept(b)
  BY DEF SealOf, SealKept

\* Steps that the exchange does not see.
LEMMA RefineQuiet ==
  ASSUME ExchangeInv, NEW t \in Threads, OthersSame(t),
         Call(t) \/ Step(t) \/ MutexLock(t) \/ Signal(t), ~Turns(t),
         ~CreatePublish(t), ~RemoveMark(t), ~RemoveFree(t)
  PROVE  UNCHANGED Exchange!vars
  <1>0. /\ TypeInv
        /\ \A u \in Threads \ {t} : u \in signalled' <=> u \in signalled
    BY SignalStep DEF ExchangeInv, WindowInv
  <1>1. SameStage(t) /\ callbacks' = callbacks
    BY <1>0, SameStageStep
  <1>2. \A b \in Blocks : SameBlock(b)
    BY <1>0, SameBlockStep DEF Turns, Writes
  <1>3. \A b \in Blocks : svc'[b].lazy_deleted = svc[b].lazy_deleted
    BY <1>0, SameServiceStep DEF SameService
  <1>4. allocated' = allocated
    BY TableUnchanged DEF RemoveUnlink, heap
  <1>5. \A b \in Blocks : StageKept(b) /\ SealOf(b)' = SealOf(b)
    BY <1>1, <1>2, <1>3, <1>4, KeepsStage, SameSeal
  <1>6. ReadersKept
    BY <1>1, KeepsReader, KeepsOthers DEF ReadersKept
  <1>7. ASSUME NEW b \in Blocks PROVE DueOf(b)' = DueOf(b)
    <2>1. Ready(b)' = Ready(b)
      BY <1>2 DEF Ready, SameBlock
    <2>2. CASE pc[t] \notin ReadSection
      BY <1>0, <1>1, <1>2, <1>5, <2>2, BlockLevels, NotReadingDue
         DEF SameStage
    <2>3. CASE pc[t] \in ReadSection
      <3>1. /\ pc[t] \in {"recv_rcu", "recv_copy"}
            /\ pc'[t] \in {"recv_rcu", "recv_copy"}
            /\ ts'[t] = ts[t] /\ local'[t] = local[t]
        BY <1>1, <2>3 DEF SameStage, ReadSection
      <3>2. IsDue(t, b)' <=> IsDue(t, b)
        BY <1>5, <2>1, <3>1
           DEF IsDue, AllWait, WillGet, Readers, ReadSection
      <3> QED
        BY <1>0, <1>2, <1>5, <3>2, BlockLevels, DueIs, DueUntouched
           DEF AllWait
    <2> QED
      BY <2>2, <2>3
  <1> QED
    BY <1>5, <1>6, <1>7, NoStep DEF DueKept

-----------------------------------------------------------------------------
\* The steps of tag_send.
LEMMA RefineSender ==
  ASSUME ExchangeInv, NEW t \in Threads, OthersSame(t),
         NEW b, b = ts[t], NEW l, l = local[t].level,
         SendCopy(t) \/ SendSize(t) \/ SendReady(t) \/ SendDiscard(t)
  PROVE  [Exchange!Next]_Exchange!vars
  <1>0. /\ TypeInv /\ PostOK(t)
        /\ \A u \in Threads \ {t} : u \in signalled' <=> u \in signalled
    BY SignalStep DEF ExchangeInv, WindowInv, PostInv, Step, TagSendStep
  <1>1. /\ b \in Blocks /\ l \in Levels /\ local[t].buffer \in Messages
        /\ UNCHANGED <<svc, allocated, callbacks>>
        /\ pc[t] \in Posting /\ pc[t] \notin ReadSection \cup Done
        /\ pc'[t] \notin ReadSection \cup Done
    BY <1>0, SenderEffect DEF Posting, ReadSection, Done
  <1>2. ReadersKept
    BY <1>1, NotReceiving
  <1>3. \A c \in Blocks \ {b} : StageKept(c) /\ DueOf(c)' = DueOf(c)
    <2>1. \E m, r : OnlyLevel(b, l, m, r)
      BY <1>0, SenderEffect
    <2>2. \A c \in Blocks \ {b} : SameBlock(c)
      BY <1>1, <2>1 DEF OnlyLevel, SameBlock
    <2> QED
      BY <1>0, <1>1, <2>2, SameSeal, KeepsStage, BlockLevels, NotReadingDue
  <1>4. /\ \A cb \in callbacks : cb.block # b
        /\ b \in allocated /\ ~svc[b].lazy_deleted
    BY <1>1, OneWorker DEF Working, ExchangeInv, SafeInv, ServiceInv,
       ThreadServiceOK, Live
  <1>5. SealOf(b) = {} /\ SealOf(b)' = {}
    BY <1>1, <1>4 DEF SealOf
  <1>6. CASE pc[t] \in {"send_copy", "send_size"}
    <2>1. \E m : OnlyLevel(b, l, m, level[b][l].message_ready)
      BY <1>0, <1>6, SenderEffect
    <2>2. /\ Ready(b) = {} /\ StageOf(b) = "idle" /\ PostOf(b) = NULL
      BY <1>6, WorkerFindsIdle DEF Working, Posting, Posted, Asked
    <2>3. Ready(b)' = {}
      BY <1>1, <2>1, <2>2 DEF Ready, OnlyLevel
    <2>4. StageKept(b) /\ DueOf(b)' = DueOf(b)
      BY <1>1, <2>2, <2>3, NoDue DEF StageOf, PostOf, StageKept
    <2> QED
      BY <1>1, <1>2, <1>3, <2>4, NoStep DEF DueKept
  <1>7. CASE pc[t] = "send_ready"
    <2>1. OnlyLevel(b, l, level[b][l].message, TRUE)
      BY <1>0, <1>7, SenderEffect
    <2>2. /\ Ready(b) = {} /\ StageOf(b) = "idle"
      BY <1>7, WorkerFindsIdle DEF Working, Posting, Posted, Asked
    <2>3. Ready(b)' = {l}
      BY <1>1, <2>1, <2>2 DEF Ready, OnlyLevel
    <2>4. level'[b][l].message = local[t].buffer
      BY <1>0, <1>7, <2>1 DEF OnlyLevel, PostOK
    <2>5. StageOf(b)' = "posted"
      BY <1>1, <1>4, <1>5, <2>3 DEF StageOf
    <2>6. PostOf(b)' = <<l, local[t].buffer>>
      <3>1. (CHOOSE k \in Ready(b)' : TRUE) = l
        BY <2>3
      <3> QED
        BY <2>3, <2>4, <3>1 DEF PostOf
    <2>7. ASSUME NEW u \in DueOf(b)'
          PROVE  u \in Threads /\ ReadingOf(u) = <<b, l>>
      <3>1. /\ u \in Threads /\ u \in Readers'
            /\ ts'[u] = b /\ local'[u].level = l
        BY <2>3 DEF DueOf, Readers
      <3>2. u # t
        BY <1>1, <3>1 DEF Readers
      <3> QED
        BY <3>1, <3>2 DEF OthersSame, ReadingOf, Readers
    <2>8. Exchange!Post(b, l, local[t].buffer)
      BY <1>1, <1>2, <1>3, <2>2, <2>5, <2>6, <2>7, PostStep
    <2> QED
      BY <1>1, <2>8 DEF Exchange!Next
  <1>8. CASE pc[t] = "send_discard"
    <2>1. OnlyLevel(b, l, ZERO, FALSE)
      BY <1>0, <1>8, SenderEffect
    <2>2. level[b][l].message_ready
      BY <1>0, <1>8 DEF PostOK, Posted
    <2>3. /\ Ready(b) = {l} /\ StageOf(b) = "posted"
          /\ ~svc[b].awake_request
      BY <1>1, <1>5, <2>2, PostIs, OneUse
    <2>4. Ready(b)' = {}
      BY <1>1, <2>1, <2>3 DEF Ready, OnlyLevel
    <2>5. StageOf(b)' = "idle" /\ PostOf(b)' = NULL /\ DueOf(b)' = {}
      BY <1>1, <1>4, <2>3, <2>4, NoDue DEF StageOf, PostOf
    <2>6. Exchange!Discard(b)
      BY <1>1, <1>2, <1>3, <2>3, <2>5, CloseStep DEF Exchange!Discard
    <2> QED
      BY <1>1, <2>6 DEF Exchange!Next
  <1> QED
    BY <1>0, <1>6, <1>7, <1>8, SenderEffect

\* call_rcu: tag_send is done with its message, AWAKE_ALL with its request.
LEMMA RefineQueue ==
  ASSUME ExchangeInv, NEW t \in Threads, OthersSame(t),
         NEW b, b = ts[t], NEW l, l = local[t].level,
         SendRcu(t) \/ AwakeRcu(t)
  PROVE  [Exchange!Next]_Exchange!vars
  <1>0. /\ TypeInv /\ PostOK(t)
        /\ \A u \in Threads \ {t} : u \in signalled' <=> u \in signalled
    BY SignalStep DEF ExchangeInv, WindowInv, PostInv, Step, TagSendStep,
       TagCtlStep
  <1>1. PICK cb : /\ callbacks' = callbacks \cup {cb}
                  /\ cb.block = b /\ cb.readers = Readers
                  /\ \/ /\ pc[t] = "send_rcu" /\ cb.fn = "free_after_send"
                        /\ l \in Levels /\ cb.level = l
                     \/ /\ pc[t] = "aw_rcu"
                        /\ cb.fn = "reset_awake_condition"
    BY <1>0, QueueEffect
  <1>2. /\ b \in Blocks /\ UNCHANGED <<svc, level, allocated>>
        /\ pc[t] \in Working /\ pc[t] \notin ReadSection \cup Done
        /\ pc'[t] \notin ReadSection \cup Done
    BY <1>0, <1>1, QueueEffect DEF Working, Posting, Awaking, ReadSection, Done
  <1>3. ReadersKept
    BY <1>2, NotReceiving
  <1>4. \A c \in Blocks : SameBlock(c)
    BY <1>2 DEF SameBlock
  <1>5. \A c \in Blocks \ {b} : StageKept(c) /\ DueOf(c)' = DueOf(c)
    <2>1. \A c \in Blocks \ {b} : SealOf(c)' = SealOf(c)
      BY <1>1 DEF SealOf
    <2> QED
      BY <1>0, <1>2, <1>4, <2>1, KeepsStage, BlockLevels, NotReadingDue
         DEF SealKept
  <1>6. CASE cb.fn = "reset_awake_condition"
    <2>1. SealOf(b)' = SealOf(b)
      BY <1>1, <1>6 DEF SealOf
    <2>2. StageKept(b) /\ DueOf(b)' = DueOf(b)
      BY <1>0, <1>2, <1>4, <2>1, KeepsStage, BlockLevels, NotReadingDue
         DEF SealKept
    <2> QED
      BY <1>3, <1>5, <2>2, NoStep DEF DueKept
  <1>7. CASE cb.fn = "free_after_send"
    <2>1. SealOf(b) = {} /\ SealOf(b)' = {cb}
      <3>1. \A c \in callbacks : c.block # b
        BY <1>2, OneWorker DEF ExchangeInv
      <3> QED
        BY <1>1, <1>7, <3>1 DEF SealOf
    <2>2. l \in Levels /\ level[b][l].message_ready
      BY <1>0, <1>1, <1>7 DEF PostOK, Posted
    <2>3. Ready(b)' = Ready(b) /\ Ready(b) # {}
      BY <1>2, <2>2 DEF Ready
    <2>4. StageOf(b) = "posted" /\ StageOf(b)' = "sealed"
      <3>1. StageOf(b) = "posted"
        BY <1>2, <2>1, <2>2, PostIs
      <3> QED
        BY <1>2, <2>1, <2>3, <3>1, OneUse DEF StageOf, Live
    <2>5. PostOf(b)' = PostOf(b)
      BY <1>2, <2>3 DEF PostOf
    <2>6. DueOf(b)' = DueOf(b)
      <3>1. \A u \in Threads : ~AllWait(u, b)' => u \notin Readers
        BY <1>1, <2>1 DEF AllWait
      <3>2. \A u \in Threads \ {t} :
              IsDue(u, b)' <=> IsDue(u, b)
        <4>1. ASSUME NEW u \in Threads \ {t}
              PROVE  /\ u \in Readers' <=> u \in Readers
                     /\ ts'[u] = ts[u] /\ local'[u] = local[u]
                     /\ WillGet(u)' <=> WillGet(u)
          BY <1>0, <1>2 DEF OthersSame, Readers, WillGet, At
        <4> QED
          BY <2>1, <2>3, <3>1, <4>1 DEF IsDue, AllWait
      <3>3. t \notin DueOf(b) /\ t \notin DueOf(b)'
        BY <1>2 DEF DueOf, Readers
      <3>4. \A u \in Threads : u \in DueOf(b)' <=> u \in DueOf(b)
        BY <1>2, <3>2, <3>3, DueIs
      <3> QED
        BY <3>4 DEF DueOf, Readers
    <2>7. Exchange!Seal(b)
      BY <1>2, <1>3, <1>5, <2>4, <2>5, <2>6, TurnStep
         DEF Exchange!Seal, DueKept
    <2> QED
      BY <1>2, <2>7 DEF Exchange!Next
  <1> QED
    BY <1>1, <1>6, <1>7

-----------------------------------------------------------------------------
\* The steps of tag_get and tag_ctl.

\* A request is set on an idle service, and reset on one that is asked.
LEMMA AskStages ==
  ASSUME NEW b \in Blocks, b \in allocated, ~svc[b].lazy_deleted,
         Ready(b) = {}, UNCHANGED <<level, allocated>>,
         svc'[b].lazy_deleted = svc[b].lazy_deleted
  PROVE  /\ svc[b].awake_request => StageOf(b) = "asked"
         /\ ~svc[b].awake_request => StageOf(b) = "idle"
         /\ svc'[b].awake_request => StageOf(b)' = "asked"
         /\ ~svc'[b].awake_request => StageOf(b)' = "idle"
         /\ PostOf(b)' = PostOf(b)
  <1>1. Ready(b)' = {}
    BY DEF Ready
  <1> QED
    BY <1>1 DEF StageOf, PostOf

LEMMA RefineRequest ==
  ASSUME ExchangeInv, NEW t \in Threads, OthersSame(t), NEW b, b = ts[t],
         AwakeSet(t) \/ AwakeReset(t)
  PROVE  Exchange!Next
  <1>0. /\ TypeInv /\ PostOK(t)
        /\ \A u \in Threads \ {t} : u \in signalled' <=> u \in signalled
    BY SignalStep DEF ExchangeInv, WindowInv, PostInv, Step, TagCtlStep
  <1>1. /\ b \in Blocks /\ UNCHANGED <<level, allocated, callbacks>>
        /\ pc[t] \in Awaking /\ pc[t] \notin ReadSection \cup Done
        /\ pc'[t] \notin ReadSection \cup Done
        /\ pc[t] \in Working \ Posted
    BY <1>0, RequestEffect DEF Awaking, ReadSection, Done, Working, Posted
  <1>2. \A c \in Blocks : svc'[c].lazy_deleted = svc[c].lazy_deleted
    <2>1. Step(t) /\ pc[t] \notin {"get_cs", "rm_mark"}
      BY <1>1 DEF Step, TagCtlStep, Awaking
    <2> QED
      BY <1>0, <2>1, SameServiceStep DEF SameService, CreatePublish, InCreate,
         RemoveMark, At
  <1>3. ReadersKept
    BY <1>1, NotReceiving
  <1>4. \A c \in Blocks \ {b} : StageKept(c)
    <2>1. \E r : OnlyRequest(b, r)
      BY <1>0, RequestEffect
    <2>2. \A c \in Blocks \ {b} : SameBlock(c)
      BY <1>1, <2>1 DEF OnlyRequest, SameBlock
    <2> QED
      BY <1>1, <1>2, <2>2, SameSeal, KeepsStage
  <1>8. DueKept
    BY <1>0, <1>1, QuietDue
  <1>5. /\ b \in allocated /\ ~svc[b].lazy_deleted /\ Ready(b) = {}
    BY <1>1, EmptyLevel DEF Working, ExchangeInv, SafeInv, ServiceInv,
       ThreadServiceOK, Live, Ready
  <1>6. CASE pc[t] = "aw_set"
    <2>1. svc'[b].awake_request /\ StageOf(b) = "idle"
      BY <1>0, <1>6, RequestEffect, WorkerFindsIdle
         DEF OnlyRequest, Working, Awaking, Posted, Asked
    <2>2. StageOf(b)' = "asked" /\ PostOf(b)' = PostOf(b)
      BY <1>1, <1>2, <1>5, <2>1, AskStages
    <2>3. Exchange!Ask(b)
      BY <1>1, <1>3, <1>4, <1>8, <2>1, <2>2, TurnStep DEF Exchange!Ask
    <2> QED
      BY <1>1, <2>3 DEF Exchange!Next
  <1>7. CASE pc[t] = "aw_reset"
    <2>1. svc[b].awake_request /\ ~svc'[b].awake_request
      BY <1>0, <1>7, RequestEffect DEF OnlyRequest, PostOK, Asked
    <2>2. /\ StageOf(b) = "asked" /\ StageOf(b)' = "idle"
          /\ PostOf(b)' = PostOf(b)
      BY <1>1, <1>2, <1>5, <2>1, AskStages
    <2>3. Exchange!Reset(b)
      BY <1>1, <1>3, <1>4, <1>8, <2>2, TurnStep DEF Exchange!Reset
    <2> QED
      BY <1>1, <2>3 DEF Exchange!Next
  <1> QED
    BY <1>0, <1>6, <1>7, RequestEffect

LEMMA RefineCreate ==
  ASSUME ExchangeInv, NEW t \in Threads, OthersSame(t), CreatePublish(t)
  PROVE  Exchange!Next
  <1>0. /\ TypeInv
        /\ \A u \in Threads \ {t} : u \in signalled' <=> u \in signalled
    BY SignalStep DEF ExchangeInv, WindowInv, Step, TagGetStep
  <1>1. PICK b \in Blocks :
          /\ b \notin allocated /\ allocated' = allocated \cup {b}
          /\ ~svc'[b].awake_request /\ ~svc'[b].lazy_deleted
          /\ \A l \in Levels : ~level'[b][l].message_ready
          /\ \A c \in Blocks : c # b => svc'[c] = svc[c] /\ level'[c] = level[c]
          /\ pc[t] = "get_cs" /\ pc'[t] = "get_dec"
          /\ callbacks' = callbacks
    BY <1>0, CreateEffect
  <1>2. ReadersKept
    BY <1>1, NotReceiving DEF ReadSection, Done
  <1>3. \A c \in Blocks \ {b} : StageKept(c) /\ DueOf(c)' = DueOf(c)
    <2>1. \A c \in Blocks \ {b} : SameBlock(c)
      BY <1>1 DEF SameBlock
    <2> QED
      BY <1>0, <1>1, <2>1, SameSeal, KeepsStage, BlockLevels, NotReadingDue
         DEF ReadSection
  <1>4. Ready(b) = {}
    BY <1>1, OneUse DEF Live
  <1>5. Ready(b)' = {}
    BY <1>1 DEF Ready
  <1>6. StageOf(b) = "absent" /\ StageOf(b)' = "idle" /\ PostOf(b)' = PostOf(b)
    BY <1>1, <1>4, <1>5 DEF StageOf, PostOf
  <1>7. DueKept
    BY <1>3, <1>4, <1>5, NoDue DEF DueKept
  <1>8. Exchange!Create(b)
    BY <1>2, <1>3, <1>6, <1>7, TurnStep DEF Exchange!Create
  <1> QED
    BY <1>8 DEF Exchange!Next

LEMMA RefineRemove ==
  ASSUME ExchangeInv, NEW t \in Threads, OthersSame(t), NEW b, b = ts[t],
         RemoveMark(t) \/ RemoveFree(t)
  PROVE  Exchange!Next
  <1> USE DEF At
  <1>0. /\ TypeInv /\ svc \in [Blocks -> Services]
        /\ pc \in [Threads -> Labels]
        /\ \A u \in Threads \ {t} : u \in signalled' <=> u \in signalled
    BY SignalStep DEF Step, TagCtlStep, ExchangeInv, WindowInv, TypeInv,
       TypeOK, KernelTypeOK, ThreadTypeOK
  <1>1. /\ UNCHANGED <<level, callbacks>>
        /\ pc[t] \in {"rm_mark", "rm_free"} /\ pc'[t] \in {"rm_null", "idle"}
    BY <1>0 DEF RemoveMark, RemoveFree, Goto, Return
  <1>2. b \in Blocks
    BY <1>0, <1>1 DEF TypeInv, ControlOK, Knows, RemoveLabels
  <1>3. /\ ReadersKept /\ DueKept
    BY <1>0, <1>1, NotReceiving, QuietDue DEF ReadSection, Done
  <1>4. CASE RemoveMark(t)
    <2>1. /\ pc[t] = "rm_mark" /\ allocated' = allocated
          /\ svc' = [svc EXCEPT ![b] = [svc[b] EXCEPT !.lazy_deleted = TRUE]]
      BY <1>4 DEF RemoveMark
    <2>2. /\ svc'[b].lazy_deleted
          /\ \A c \in Blocks \ {b} : svc'[c] = svc[c]
      BY <1>0, <1>2, <2>1 DEF Services
    <2>3. StageOf(b) = "idle" /\ Ready(b) = {} /\ b \in allocated
      BY <2>1, WorkerFindsIdle DEF Working, Posted, Asked, ExchangeInv,
         SafeInv, ServiceInv, ThreadServiceOK, Live
    <2>4. Ready(b)' = {}
      BY <1>1, <2>3 DEF Ready
    <2>5. StageOf(b)' = "removed" /\ PostOf(b)' = PostOf(b)
      BY <2>1, <2>2, <2>3, <2>4 DEF StageOf, PostOf
    <2>6. \A c \in Blocks \ {b} : StageKept(c)
      BY <1>1, <2>1, <2>2, SameSeal, KeepsStage DEF SameBlock
    <2>7. Exchange!Remove(b)
      BY <1>2, <1>3, <2>3, <2>5, <2>6, TurnStep DEF Exchange!Remove
    <2> QED
      BY <1>2, <2>7 DEF Exchange!Next
  <1>5. CASE RemoveFree(t)
    <2>1. /\ pc[t] = "rm_free" /\ allocated' = allocated \ {b} /\ svc' = svc
      BY <1>5 DEF RemoveFree
    <2>2. b \in allocated /\ svc[b].lazy_deleted
      BY <2>1 DEF ExchangeInv, SafeInv, ServiceInv, RemovalExclusive, Removing
    <2>3. Ready(b) = {}
      BY <1>2, <2>2, OneUse DEF Live
    <2>4. Ready(b)' = {}
      BY <1>1, <2>3 DEF Ready
    <2>5. /\ StageOf(b) = "removed" /\ StageOf(b)' = "absent"
          /\ PostOf(b)' = PostOf(b)
      BY <2>1, <2>2, <2>3, <2>4 DEF StageOf, PostOf
    <2>6. \A c \in Blocks \ {b} : StageKept(c)
      BY <1>1, <2>1, SameSeal, KeepsStage DEF SameBlock
    <2>7. Exchange!Free(b)
      BY <1>2, <1>3, <2>5, <2>6, TurnStep DEF Exchange!Free
    <2> QED
      BY <1>2, <2>7 DEF Exchange!Next
  <1> QED
    BY <1>4, <1>5

-----------------------------------------------------------------------------
\* The callbacks.
LEMMA RefineCallback ==
  ASSUME ExchangeInv, NEW cb \in callbacks, Callback(cb),
         NEW b, b = cb.block
  PROVE  Exchange!Next
  <1>0. TypeInv /\ CallbackOK(cb)
    BY DEF ExchangeInv, WindowInv, PostInv
  <1>1. /\ b \in Blocks /\ cb.level \in Levels
        /\ callbacks' = callbacks \ {cb} /\ cb.readers = {}
        /\ UNCHANGED <<threadVars, allocated>>
    BY <1>0, CallbackEffect
  <1>2. /\ b \in allocated /\ ~svc[b].lazy_deleted
        /\ \A c \in callbacks : c.block = b => c = cb
    BY DEF ExchangeInv, SafeInv, ServiceInv, Live, LockHandOver, CallbackTag
  <1>3. ReadersKept
    BY <1>1 DEF ReadersKept, ReaderKept, ReadingOf, GotOf, Readers, threadVars
  <1>4. ASSUME NEW c \in Blocks, SameLevels(c), SealOf(c)' = SealOf(c)
        PROVE  DueOf(c)' = DueOf(c)
    <2>1. \A u \in Threads : u \in DueOf(c)' <=> u \in DueOf(c)
      BY <1>1, <1>4, KeepsDue DEF threadVars, AllWait
    <2> QED
      BY <2>1 DEF DueOf, Readers
  <1>5. CASE cb.fn = "free_after_send"
    <2>1. OnlyLevel(b, cb.level, ZERO, FALSE) /\ UNCHANGED svc
      BY <1>0, <1>5, CallbackEffect
    <2>2. level[b][cb.level].message_ready
      BY <1>0, <1>5 DEF CallbackOK
    <2>3. cb \in SealOf(b) /\ DueOf(b) = {}
      BY <1>1, <1>5 DEF SealOf, DueOf
    <2>4. /\ Ready(b) = {cb.level} /\ StageOf(b) = "sealed"
          /\ ~svc[b].awake_request
      BY <1>1, <2>2, <2>3, PostIs, OneUse
    <2>5. Ready(b)' = {}
      BY <1>1, <2>1, <2>4 DEF Ready, OnlyLevel
    <2>6. StageOf(b)' = "idle" /\ PostOf(b)' = NULL /\ DueOf(b)' = {}
      BY <1>1, <1>2, <2>1, <2>4, <2>5, NoDue DEF StageOf, PostOf
    <2>7. \A c \in Blocks \ {b} : StageKept(c) /\ DueOf(c)' = DueOf(c)
      <3>1. \A c \in Blocks \ {b} : SealOf(c)' = SealOf(c)
        BY <1>1 DEF SealOf
      <3>2. \A c \in Blocks \ {b} : SameBlock(c)
        BY <1>1, <2>1 DEF OnlyLevel, SameBlock
      <3> QED
        BY <1>1, <1>4, <2>1, <3>1, <3>2, KeepsStage, BlockLevels DEF SealKept
    <2>8. Exchange!Withdraw(b)
      <3>1. Exchange!Close(b, "sealed")
        BY <1>1, <1>3, <2>4, <2>6, <2>7, CloseStep
      <3> QED
        BY <1>1, <2>3, <3>1 DEF Exchange!Withdraw
    <2> QED
      BY <1>1, <2>8 DEF Exchange!Next
  <1>6. CASE cb.fn = "reset_awake_condition"
    <2>1. OnlyRequest(b, FALSE) /\ UNCHANGED level
      BY <1>0, <1>6, CallbackEffect
    <2>2. /\ svc[b].awake_request /\ ~svc'[b].awake_request
          /\ Ready(b) = {}
      BY <1>0, <1>1, <1>6, <2>1, OneUse DEF CallbackOK, OnlyRequest
    <2>3. \A c \in Blocks : svc'[c].lazy_deleted = svc[c].lazy_deleted
      BY <1>0, SameServiceCallback DEF SameService, RunCallback
    <2>4. /\ StageOf(b) = "asked" /\ StageOf(b)' = "idle"
          /\ PostOf(b)' = PostOf(b)
      BY <1>1, <1>2, <2>1, <2>2, <2>3, AskStages
    <2>5. \A c \in Blocks : SealOf(c)' = SealOf(c)
      BY <1>1, <1>6 DEF SealOf
    <2>6. DueKept
      BY <1>4, <2>1, <2>5, BlockLevels DEF DueKept
    <2>7. \A c \in Blocks \ {b} : StageKept(c)
      BY <1>1, <2>1, <2>3, <2>5, KeepsStage
         DEF OnlyRequest, SameBlock, SealKept
    <2>8. Exchange!Reset(b)
      BY <1>1, <1>3, <2>4, <2>6, <2>7, TurnStep DEF Exchange!Reset
    <2> QED
      BY <1>1, <2>8 DEF Exchange!Next
  <1> QED
    BY <1>0, <1>5, <1>6, CallbackEffect

-----------------------------------------------------------------------------
\* The receivers.

\* The end of a read section takes the reader off every grace period.
LEMMA LeavesDue ==
  ASSUME TypeInv, NEW t \in Threads, ReadUnlock(t), OthersSame(t),
         UNCHANGED <<level, signalled>>, pc'[t] \notin ReadSection
  PROVE  \A b \in Blocks : DueOf(b)' = DueOf(b) \ {t} /\ SealKept(b)
  <1>1. \A cb \in callbacks : \E c2 \in callbacks' :
          /\ c2.fn = cb.fn /\ c2.block = cb.block /\ c2.level = cb.level
          /\ c2.readers = cb.readers \ {t}
    <2>1. callbacks' = {[cb EXCEPT !.readers = @ \ {t}] : cb \in callbacks}
      BY DEF ReadUnlock
    <2>2. \A cb \in callbacks :
            LET c2 == [cb EXCEPT !.readers = @ \ {t}]
            IN  /\ c2.fn = cb.fn /\ c2.block = cb.block /\ c2.level = cb.level
                /\ c2.readers = cb.readers \ {t}
      BY DEF TypeInv, TypeOK, KernelTypeOK, Callbacks
    <2>3. \A cb \in callbacks : [cb EXCEPT !.readers = @ \ {t}] \in callbacks'
      BY <2>1
    <2> QED
      BY <2>2, <2>3
  <1>2. \A c2 \in callbacks' : \E cb \in callbacks :
          /\ c2.fn = cb.fn /\ c2.block = cb.block /\ c2.level = cb.level
          /\ c2.readers = cb.readers \ {t}
    BY UnlockKeeps
  <1>3. ASSUME NEW b \in Blocks
        PROVE  /\ SealKept(b)
               /\ \A u \in Threads \ {t} : AllWait(u, b)' <=> AllWait(u, b)
    BY <1>1, <1>2 DEF SealOf, SealKept, AllWait
  <1>4. ASSUME NEW b \in Blocks
        PROVE  /\ t \notin DueOf(b)'
               /\ \A u \in Threads \ {t} : u \in DueOf(b)' <=> u \in DueOf(b)
    BY <1>3, BlockLevels, KeepsDue DEF OthersSame, DueOf, Readers
  <1> QED
    BY <1>3, <1>4 DEF DueOf, Readers

\* A reader that leaves takes the message if it was promised it.
LEMMA LeaveStep ==
  ASSUME NEW t \in Threads, NEW b \in Blocks, NEW l \in Levels, NEW v,
         ReadingOf(t) = <<b, l>>, ReadingOf(t)' = NULL, GotOf(t)' = v,
         v \in Exchange!Results \cup {"none"},
         t \in DueOf(b) =>
           v = PostOf(b)[2] \/ (v = "none" /\ t \in Interruptible),
         \A c \in Blocks : StageKept(c),
         \A u \in Threads \ {t} : ReaderKept(u),
         \A c \in Blocks : DueOf(c)' = DueOf(c) \ {t}
  PROVE  Exchange!Leave(t)
  <1>1. v \in Exchange!Offer(t, b)
    BY DEF Exchange!Offer
  <1>2. [u \in Threads |-> GotOf(u)]' =
          [[u \in Threads |-> GotOf(u)] EXCEPT ![t] = v]
    BY DEF ReaderKept
  <1>3. [u \in Threads |-> ReadingOf(u)]' =
          [[u \in Threads |-> ReadingOf(u)] EXCEPT ![t] = NULL]
    BY DEF ReaderKept
  <1>4. [c \in Blocks |-> DueOf(c)]' =
          [c \in Blocks |-> [d \in Blocks |-> DueOf(d)][c] \ {t}]
    OBVIOUS
  <1>5. /\ [u \in Threads |-> ReadingOf(u)][t] # NULL
        /\ [u \in Threads |-> ReadingOf(u)][t][1] = b
    BY NullAssumption
  <1>6. /\ [c \in Blocks |-> StageOf(c)]' = [c \in Blocks |-> StageOf(c)]
        /\ [c \in Blocks |-> PostOf(c)]' = [c \in Blocks |-> PostOf(c)]
    BY DEF StageKept
  <1> QED
    BY <1>1, <1>2, <1>3, <1>4, <1>5, <1>6 DEF Exchange!Leave

\* A reader that comes is promised the message of a sender that is not done.
LEMMA ArriveStep ==
  ASSUME NEW t \in Threads, NEW b \in Blocks, NEW l \in Levels,
         ReadingOf(t) = NULL, GotOf(t) = NULL, GotOf(t)' = NULL,
         ReadingOf(t)' = <<b, l>>,
         \A c \in Blocks : StageKept(c),
         \A u \in Threads \ {t} : ReaderKept(u),
         DueOf(b)' = IF StageOf(b) = "posted" /\ PostOf(b)[1] = l
                     THEN DueOf(b) \cup {t} ELSE DueOf(b),
         \A c \in Blocks \ {b} : DueOf(c)' = DueOf(c)
  PROVE  Exchange!Arrive(t, b, l)
  <1> DEFINE due == [c \in Blocks |-> DueOf(c)]
  <1>1. Exchange!Open(b, l) <=> StageOf(b) = "posted" /\ PostOf(b)[1] = l
    BY DEF Exchange!Open
  <1>2. due' = IF Exchange!Open(b, l) THEN [due EXCEPT ![b] = @ \cup {t}]
               ELSE due
    BY <1>1
  <1>3. /\ [u \in Threads |-> GotOf(u)]' = [u \in Threads |-> GotOf(u)]
        /\ [u \in Threads |-> ReadingOf(u)]' =
             [[u \in Threads |-> ReadingOf(u)] EXCEPT ![t] = <<b, l>>]
        /\ [c \in Blocks |-> StageOf(c)]' = [c \in Blocks |-> StageOf(c)]
        /\ [c \in Blocks |-> PostOf(c)]' = [c \in Blocks |-> PostOf(c)]
    BY DEF ReaderKept, StageKept
  <1> QED
    BY <1>2, <1>3 DEF Exchange!Arrive

\* A reader that tests or copies keeps what it has been promised.
LEMMA DueWhileReading ==
  ASSUME ExchangeInv, NEW t \in Threads, OthersSame(t), ReadingStep(t),
         NEW b, b = ts[t], NEW l, l = local[t].level,
         pc[t] \in {"recv_rcu", "recv_copy", "recv_rest"},
         Ready(b)' = Ready(b), SealOf(b)' = SealOf(b)
  PROVE  t \in DueOf(b)' <=> t \in DueOf(b)
  <1> USE DEF At
  <1>0. TypeInv
    BY DEF ExchangeInv, WindowInv
  <1>1. /\ b \in Blocks /\ l \in Levels
        /\ ts'[t] = ts[t] /\ local'[t].level = l
        /\ pc'[t] \in {"recv_rest", "recv_unlock"}
    BY <1>0, ReceiverEffect
  <1>2. level'[b][l].message = level[b][l].message
    BY <1>0, <1>1, ReadingKeeps DEF SameBlock
  <1>3. t \in Readers /\ t \in Readers'
    BY <1>1 DEF Readers, ReadSection
  <1>4. l \in Ready(b) => level[b][l].message_ready
    BY DEF Ready
  <1>5. CASE pc[t] = "recv_rcu"
    <2>1. /\ ReceiveNothing(t) /\ pc'[t] = "recv_unlock" /\ ret'[t] = "EINTR"
      BY <1>0, <1>5, ReceiverEffect
    <2>2. level[b][l].message_ready => t \in signalled'
      BY <2>1 DEF ReceiveNothing
    <2> QED
      BY <1>1, <1>3, <1>4, <1>5, <2>1, <2>2, DueIs
         DEF IsDue, AllWait, WillGet
  <1>6. CASE pc[t] = "recv_copy"
    <2>1. /\ pc'[t] = "recv_rest"
          /\ local'[t].buffer = level[b][l].message
      BY <1>0, <1>6, ReceiverEffect
    <2> QED
      BY <1>1, <1>2, <1>3, <1>6, <2>1, DueIs DEF IsDue, AllWait, WillGet
  <1>7. CASE pc[t] = "recv_rest"
    <2>1. /\ pc'[t] = "recv_unlock" /\ ret'[t] = "OK"
          /\ local'[t].buffer = IF local[t].buffer = level[b][l].message
                                THEN local[t].buffer ELSE TORN
      BY <1>0, <1>7, ReceiverEffect
    <2>2. l \in Ready(b) => level[b][l].message # TORN
      BY <1>1, <1>4, ReadyMessage, DataAssumption
    <2>3. "OK" # "EINTR"
      OBVIOUS
    <2>4. l \in Ready(b) => (WillGet(t)' <=> WillGet(t))
      <3>1. WillGet(t)' <=> local'[t].buffer = level[b][l].message
        BY <1>1, <1>2, <2>1 DEF WillGet
      <3>2. WillGet(t) <=> local[t].buffer = level[b][l].message
        BY <1>7 DEF WillGet
      <3> QED
        BY <2>1, <2>2, <3>1, <3>2
    <2> QED
      BY <1>1, <1>3, <2>4, DueIs DEF IsDue, AllWait
  <1> QED
    BY <1>5, <1>6, <1>7

\* rcu_read_lock.
LEMMA RefineLock ==
  ASSUME ExchangeInv, NEW t \in Threads, OthersSame(t), ReadingStep(t),
         NEW b, b = ts[t], NEW l, l = local[t].level, pc[t] = "recv_lock",
         \A c \in Blocks : StageKept(c) /\ SealOf(c)' = SealOf(c)
                           /\ Ready(c)' = Ready(c),
         \A u \in Threads \ {t} : ReaderKept(u),
         \A c \in Blocks : (t \in DueOf(c)' <=> t \in DueOf(c))
                             => DueOf(c)' = DueOf(c),
         \A u \in Threads \ {t} : u \in DueOf(b)' <=> u \in DueOf(b)
  PROVE  Exchange!Next
  <1>0. TypeInv /\ ReadersOK
    BY DEF ExchangeInv, WindowInv
  <1>1. /\ b \in Blocks /\ l \in Levels /\ pc'[t] = "recv_rcu"
        /\ ts'[t] = b /\ local'[t].level = l
    BY <1>0, ReceiverEffect
  <1>2. t \notin Readers /\ t \in Readers'
    BY <1>1 DEF Readers, ReadSection
  <1>3. \A c \in Blocks : t \notin DueOf(c)
    BY <1>2 DEF DueOf
  <1>4. \A c \in Blocks \ {b} : DueOf(c)' = DueOf(c)
    BY <1>1, <1>3 DEF DueOf
  <1>5. t \in DueOf(b)' <=> l \in Ready(b) /\ SealOf(b) = {}
    <2>1. \A cb \in SealOf(b) : t \notin cb.readers
      BY <1>0, <1>2 DEF ReadersOK, SealOf
    <2>2. IsDue(t, b)' <=> l \in Ready(b) /\ SealOf(b) = {}
      BY <1>1, <1>2, <2>1 DEF IsDue, AllWait, WillGet
    <2> QED
      BY <1>1, <2>2, DueIs
  <1>6. l \in Ready(b) /\ SealOf(b) = {} <=>
          StageOf(b) = "posted" /\ PostOf(b)[1] = l
    <2>1. CASE Ready(b) = {}
      BY <2>1 DEF StageOf
    <2>2. ASSUME NEW k \in Levels, level[b][k].message_ready
          PROVE  l \in Ready(b) /\ SealOf(b) = {} <=>
                   StageOf(b) = "posted" /\ PostOf(b)[1] = l
      BY <1>1, <2>2, PostIs
    <2> QED
      BY <2>1, <2>2 DEF Ready
  <1>7. DueOf(b)' = IF StageOf(b) = "posted" /\ PostOf(b)[1] = l
                    THEN DueOf(b) \cup {t} ELSE DueOf(b)
    <2>1. \A u \in Threads : u \in DueOf(b)' <=>
            u \in IF StageOf(b) = "posted" /\ PostOf(b)[1] = l
                  THEN DueOf(b) \cup {t} ELSE DueOf(b)
      BY <1>3, <1>1, <1>5, <1>6
    <2> QED
      BY <2>1 DEF DueOf, Readers
  <1>8. /\ ReadingOf(t) = NULL /\ ReadingOf(t)' = <<b, l>>
        /\ GotOf(t) = NULL /\ GotOf(t)' = NULL
    BY <1>1, <1>2 DEF ReadingOf, GotOf
  <1>9. Exchange!Arrive(t, b, l)
    BY <1>1, <1>4, <1>7, <1>8, ArriveStep
  <1> QED
    BY <1>1, <1>9 DEF Exchange!Next

\* rcu_read_unlock.
LEMMA RefineUnlock ==
  ASSUME ExchangeInv, NEW t \in Threads, OthersSame(t), ReceiveUnlock(t),
         NEW b, b = ts[t], NEW l, l = local[t].level,
         \A c \in Blocks : SealKept(c) => StageKept(c),
         \A u \in Threads \ {t} : ReaderKept(u)
  PROVE  Exchange!Next
  <1>0. /\ TypeInv /\ local \in [Threads -> Locals]
        /\ signalled \subseteq Interruptible /\ ReadingStep(t)
    BY DEF ExchangeInv, WindowInv, TypeInv, TypeOK, ThreadTypeOK, ReadingStep
  <1>1. /\ b \in Blocks /\ l \in Levels /\ UNCHANGED <<level, signalled>>
        /\ pc[t] = "recv_unlock" /\ pc'[t] = "recv_dec" /\ ReadUnlock(t)
        /\ UNCHANGED <<ts, local, ret>>
    BY <1>0, ReceiverEffect
       DEF ReceiveUnlock, ReceiveLock, ReceiveNothing, ReceiveCopy,
           ReceiveRest, ReceiveDecLevel, At, Goto, heap
  <1>2. \A c \in Blocks : DueOf(c)' = DueOf(c) \ {t} /\ StageKept(c)
    BY <1>0, <1>1, LeavesDue DEF ReadSection
  <1>3. ReadingOf(t) = <<b, l>> /\ ReadingOf(t)' = NULL
    BY <1>1 DEF ReadingOf, Readers, ReadSection
  <1> DEFINE v == IF ret[t] = "OK" THEN local[t].buffer ELSE "none"
  <1>4. GotOf(t)' = v
    BY <1>1 DEF GotOf
  <1>5. v \in Exchange!Results \cup {"none"}
    BY <1>0 DEF Locals, Exchange!Results
  <1>6. ASSUME t \in DueOf(b)
        PROVE  v = PostOf(b)[2] \/ (v = "none" /\ t \in Interruptible)
    <2>1. level[b][l].message_ready /\ WillGet(t)
      BY <1>6 DEF DueOf, Ready
    <2>2. PostOf(b)[2] = level[b][l].message
      BY <1>1, <2>1, PostIs
    <2> QED
      BY <1>0, <1>1, <2>1, <2>2 DEF WillGet, At
  <1> HIDE DEF v
  <1>7. Exchange!Leave(t)
    BY <1>1, <1>2, <1>3, <1>4, <1>5, <1>6, LeaveStep
  <1> QED
    BY <1>7 DEF Exchange!Next

LEMMA RefineReceiver ==
  ASSUME ExchangeInv, NEW t \in Threads, OthersSame(t),
         NEW b, b = ts[t], NEW l, l = local[t].level, ReadingStep(t)
  PROVE  [Exchange!Next]_Exchange!vars
  <1>0. /\ TypeInv /\ ReadersOK /\ local \in [Threads -> Locals]
        /\ signalled \subseteq Interruptible
        /\ \A u \in Threads \ {t} : u \in signalled' <=> u \in signalled
    BY SignalStep DEF ExchangeInv, WindowInv, TypeInv, TypeOK, ThreadTypeOK,
       Step, TagReceiveStep, ReadingStep
  <1>1. /\ b \in Blocks /\ l \in Levels /\ UNCHANGED <<svc, allocated>>
        /\ \A c \in Blocks : SameBlock(c)
    BY <1>0, ReceiverEffect, ReadingKeeps
  <1>2. \A u \in Threads \ {t} : ReaderKept(u)
    BY KeepsOthers
  <1>3. ASSUME NEW c \in Blocks, SealKept(c) PROVE StageKept(c)
    BY <1>1, <1>3, KeepsStage
  <1>4. CASE ~ReceiveUnlock(t)
    <2>9. callbacks' = callbacks
      BY <1>0, <1>4, ReceiverEffect
    <2>0. \A c \in Blocks : SealOf(c)' = SealOf(c) /\ SealKept(c)
      BY <2>9, SameSeal
    <2>1. \A c \in Blocks : StageKept(c)
      BY <1>3, <2>0
    <2>2. ASSUME NEW c \in Blocks, t \in DueOf(c)' <=> t \in DueOf(c)
          PROVE  DueOf(c)' = DueOf(c)
      BY <1>0, <1>1, <2>0, <2>2, BlockLevels, DueUntouched DEF AllWait
    <2>3. \A c \in Blocks : Ready(c)' = Ready(c)
      BY <1>1 DEF Ready, SameBlock
    <2>4. CASE pc[t] = "recv_lock"
      <3>1. \A u \in Threads \ {t} : u \in DueOf(b)' <=> u \in DueOf(b)
        BY <1>0, <1>1, <2>0, BlockLevels, KeepsDue DEF OthersSame, AllWait
      <3> QED
        BY <3>1, <1>2, <2>0, <2>1, <2>2, <2>3, <2>4, RefineLock
    <2>5. CASE pc[t] \in {"recv_rcu", "recv_copy", "recv_rest"}
      <3>1. t \in DueOf(b)' <=> t \in DueOf(b)
        BY <1>1, <2>0, <2>3, <2>5, DueWhileReading
      <3>2. /\ ts'[t] = ts[t] /\ local'[t].level = l
            /\ pc'[t] \in {"recv_unlock", "recv_rest"}
        BY <1>0, <2>5, ReceiverEffect
      <3>3. \A c \in Blocks \ {b} : t \notin DueOf(c) /\ t \notin DueOf(c)'
        BY <3>2 DEF DueOf
      <3>4. ReaderKept(t)
        BY <2>5, <3>2
           DEF ReaderKept, ReadingOf, GotOf, Readers, ReadSection
      <3> QED
        BY <1>2, <2>1, <2>2, <3>1, <3>3, <3>4, NoStep DEF ReadersKept, DueKept
    <2>6. CASE pc[t] = "recv_dec_level"
      <3>1. pc'[t] = "idle"
        BY <1>0, <2>6, ReceiverEffect
      <3>2. DueKept
        BY <2>2, <2>6, <3>1 DEF DueKept, DueOf, Readers, ReadSection
      <3>3. /\ ReadingOf(t) = NULL /\ ReadingOf(t)' = NULL /\ GotOf(t)' = NULL
        BY <2>6, <3>1 DEF ReadingOf, GotOf, Readers, ReadSection
      <3>4. GotOf(t) # NULL
        BY <1>0, <2>6, NullAssumption DEF GotOf, Locals
      <3>5. Exchange!Return(t)
        BY <1>2, <2>1, <3>2, <3>3, <3>4
           DEF Exchange!Return, StageKept, ReaderKept, DueKept
      <3> QED
        BY <3>5 DEF Exchange!Next
    <2> QED
      BY <1>0, <1>4, <2>4, <2>5, <2>6, ReceiverEffect
  <1>5. CASE ReceiveUnlock(t)
    BY <1>0, <1>1, <1>2, <1>3, <1>5, RefineUnlock
  <1> QED
    BY <1>4, <1>5

-----------------------------------------------------------------------------
LEMMA RefineInit == Init => Exchange!Init
  <1> SUFFICES ASSUME Init PROVE Exchange!Init
    OBVIOUS
  <1>1. \A b \in Blocks :
          StageOf(b) = "absent" /\ PostOf(b) = NULL /\ DueOf(b) = {}
    <2>1. \A b \in Blocks : Ready(b) = {}
      BY DEF Init, Ready, NoLevel
    <2> QED
      BY <2>1 DEF Init, StageOf, PostOf, DueOf
  <1>2. \A t \in Threads : ReadingOf(t) = NULL /\ GotOf(t) = NULL
    BY DEF Init, ReadingOf, GotOf, Readers, ReadSection
  <1> QED
    BY <1>1, <1>2 DEF Exchange!Init

LEMMA RefineStep ==
  ASSUME ExchangeInv, [Next]_vars PROVE [Exchange!Next]_Exchange!vars
  <1>0. TypeInv
    BY DEF ExchangeInv, WindowInv
  <1>1. ASSUME NEW t \in Threads,
               Call(t) \/ Step(t) \/ MutexLock(t) \/ Signal(t)
        PROVE  [Exchange!Next]_Exchange!vars
    <2>1. OthersSame(t)
      BY <1>0, <1>1, OthersStep
    <2>2. PICK b, l : b = ts[t] /\ l = local[t].level
      OBVIOUS
    <2>3. CASE SendCopy(t) \/ SendSize(t) \/ SendReady(t) \/ SendDiscard(t)
      BY <2>1, <2>2, <2>3, RefineSender
    <2>4. CASE SendRcu(t) \/ AwakeRcu(t)
      BY <2>1, <2>2, <2>4, RefineQueue
    <2>5. CASE AwakeSet(t) \/ AwakeReset(t)
      BY <2>1, <2>2, <2>5, RefineRequest
    <2>6. CASE ReadingStep(t)
      BY <2>1, <2>2, <2>6, RefineReceiver
    <2>7. CASE CreatePublish(t)
      BY <2>1, <2>7, RefineCreate
    <2>8. CASE RemoveMark(t) \/ RemoveFree(t)
      BY <2>1, <2>2, <2>8, RefineRemove
    <2>9. CASE /\ ~Turns(t) /\ ~CreatePublish(t)
               /\ ~RemoveMark(t) /\ ~RemoveFree(t)
      BY <1>1, <2>1, <2>9, RefineQuiet
    <2> QED
      BY <2>3, <2>4, <2>5, <2>6, <2>7, <2>8, <2>9 DEF Turns
  <1>2. CASE RunCallback
    BY <1>2, RefineCallback DEF RunCallback
  <1>3. CASE UNCHANGED vars
    <2>1. /\ UNCHANGED <<svc, level, allocated, callbacks>>
          /\ UNCHANGED <<pc, ts, local, ret, signalled>>
      BY <1>3 DEF vars, kernelVars, threadVars, heap
    <2>2. UNCHANGED Exchange!vars
      BY <2>1 DEF Exchange!vars, StageOf, PostOf, DueOf, ReadingOf, GotOf,
         Ready, Readers, SealOf, WillGet, At
    <2> QED
      BY <2>2
  <1> QED
    BY <1>1, <1>2, <1>3 DEF Next

\* The four system calls and their callbacks implement MessageExchange: one
\* message, awakening or removal at a time per service, and a receiver that
\* enters its read section after the READY flag is set and before its sender
\* calls call_rcu leaves with exactly that message, whole, unless it has
\* received a signal.  Of a receiver left over from an earlier exchange nothing
\* of the kind is claimed.
THEOREM ExchangeImplemented ==
  Spec /\ [][TagsKept]_vars => ImplementsExchange
  <1> QED
    BY ExchangeAlways, RefineInit, RefineStep, PTL
       DEF Spec, ImplementsExchange, Exchange!Spec

\* So they implement it, and protect what is read, whenever kzalloc returns no
\* block that a thread still points to, or the module serves a single tag.
COROLLARY ExchangeWithoutForeignReuse ==
  ASSUME NoForeignReuse
  PROVE  Spec => ImplementsExchange /\ MessageStable /\ []ReaderProtected
  <1>1. Spec => [][TagsKept]_vars
    BY TagsAreKept
  <1> QED
    BY <1>1, ExchangeImplemented, MessagesStable, ReadersProtected, PTL
=============================================================================
