-------------------------- MODULE TagExchangeProofs --------------------------
(***************************************************************************)
(* What the flags of a service - the READY flag of a level, the request of *)
(* AWAKE_ALL - say of the calls that are under way, and what a receiver    *)
(* finds in the message buffer.                                            *)
(***************************************************************************)
EXTENDS TagLifeProofs

-----------------------------------------------------------------------------
\* The flags and the message buffers of a block.
SameBlock(b) ==
  /\ svc'[b].awake_request = svc[b].awake_request
  /\ \A l \in Levels :
       /\ level'[b][l].message_ready = level[b][l].message_ready
       /\ level'[b][l].message = level[b][l].message

\* The steps that write them.
Writes(t) == \/ CreatePublish(t)
             \/ SendCopy(t) \/ SendSize(t) \/ SendReady(t) \/ SendDiscard(t)
             \/ AwakeSet(t) \/ AwakeReset(t)

LEMMA SameBlockStep ==
  ASSUME TypeInv, NEW t \in Threads,
         Call(t) \/ Step(t) \/ MutexLock(t) \/ Signal(t), ~Writes(t)
  PROVE  \A b \in Blocks : SameBlock(b)
  <1>0. /\ svc \in [Blocks -> Services]
        /\ level \in [Blocks -> [Levels -> LevelStates]]
    BY DEF TypeInv, TypeOK, KernelTypeOK
  <1>1. ASSUME NEW c \in Blocks, NEW l \in Levels, NEW n, NEW k,
               \/ svc' = svc
               \/ svc' = [svc EXCEPT ![c] = [svc[c] EXCEPT
                            !.thread_waiting_message_count = n]],
               \/ level' = level
               \/ level' = [level EXCEPT ![c] = [level[c] EXCEPT
                    ![l] = [level[c][l] EXCEPT !.thread_waiting = k]]]
        PROVE  \A b \in Blocks : SameBlock(b)
    <2>1. \A b \in Blocks : svc'[b].awake_request = svc[b].awake_request
      BY <1>0, <1>1 DEF Services
    <2>2. CASE level' = level
      BY <2>1, <2>2 DEF SameBlock
    <2>3. CASE level' = [level EXCEPT ![c] = [level[c] EXCEPT
                    ![l] = [level[c][l] EXCEPT !.thread_waiting = k]]]
      <3> DEFINE r == [level[c][l] EXCEPT !.thread_waiting = k]
      <3>1. r.message_ready = level[c][l].message_ready
            /\ r.message = level[c][l].message
        BY <1>0 DEF LevelStates
      <3>2. level'[c][l] = r
        BY <1>0, <2>3
      <3>3. \A b \in Blocks, j \in Levels :
              b # c \/ j # l => level'[b][j] = level[b][j]
        BY <1>0, <2>3
      <3> HIDE DEF r
      <3> QED
        BY <2>1, <3>1, <3>2, <3>3 DEF SameBlock
    <2> QED
      BY <1>1, <2>2, <2>3
  <1>2. CASE UNCHANGED <<svc, level>>
    BY <1>2 DEF SameBlock
  <1>3. CASE Call(t) \/ MutexLock(t) \/ Signal(t) \/ LockOutOfBounds(t)
    BY <1>2, <1>3 DEF Call, TagGet, TagGetInvalid, TagSend, TagReceive,
       TagCtl, MutexLock, Signal, LockOutOfBounds, kernelVars, heap
  <1>4. CASE TagGetStep(t)
    BY <1>2, <1>4 DEF Writes, TagGetStep, FindFirstEntryAvailable, FindTest,
       FindFull, FindScanTaken, FindScanFree, FindRet, CreateTaken,
       CreateNoMemory, CreateDec, DeviceLoad, DeviceFill, OpenMissing,
       OpenFound, OpenLoad, OpenNull, OpenCheck, kernelVars, heap
  <1>5. CASE TagSendStep(t)
    BY <1>2, <1>5 DEF Writes, TagSendStep, SendRefused, SendAccepted,
       SendTest, SendWake, SendRcu, kernelVars, heap
  <1>6. CASE ReceiveEnter(t) \/ ReceiveDec(t) \/ ReceiveDecLevel(t)
    <2>1. ts[t] \in Blocks /\ local[t].level \in Levels
      BY <1>6 DEF ReceiveEnter, ReceiveDec, ReceiveDecLevel, At, TypeInv,
         ControlOK, Knows, RecvLabels, Counted
    <2>2. PICK n, k :
            /\ \/ svc' = svc
               \/ svc' = [svc EXCEPT ![ts[t]] = [svc[ts[t]] EXCEPT
                            !.thread_waiting_message_count = n]]
            /\ \/ level' = level
               \/ level' = [level EXCEPT ![ts[t]] = [level[ts[t]] EXCEPT
                    ![local[t].level] = [level[ts[t]][local[t].level] EXCEPT
                                           !.thread_waiting = k]]]
      BY <1>6 DEF ReceiveEnter, ReceiveDec, ReceiveDecLevel
    <2> QED
      BY <1>1, <2>1, <2>2
  <1>7. CASE TagReceiveStep(t)
    BY <1>2, <1>6, <1>7 DEF TagReceiveStep, ReceiveRefused, ReceiveAccepted,
       ReceiveAwake, ReceiveSleep, ReceiveLock, ReceiveNothing,
       ReceiveMessage, ReceiveCopy, ReceiveRest, ReceiveUnlock, kernelVars,
       heap
  <1>8. CASE RemoveMark(t)
    <2>1. ts[t] \in Blocks
      BY <1>8 DEF RemoveMark, At, TypeInv, ControlOK, Knows, RemoveLabels
    <2>2. svc' = [svc EXCEPT ![ts[t]] = [svc[ts[t]] EXCEPT
                                           !.lazy_deleted = TRUE]]
      BY <1>8 DEF RemoveMark
    <2>3. \A b \in Blocks : svc'[b].awake_request = svc[b].awake_request
      BY <1>0, <2>1, <2>2 DEF Services
    <2> QED
      BY <1>8, <2>3 DEF RemoveMark, SameBlock
  <1>9. CASE TagCtlStep(t)
    BY <1>2, <1>8, <1>9 DEF Writes, TagCtlStep, CtlAddress, CtlRefused,
       RemoveBusy, RemoveTest, RemoveUnlink, RemoveInc, RemoveFree,
       AwakeCount, AwakeWake, AwakeRcu, kernelVars, heap
  <1> QED
    BY <1>3, <1>4, <1>5, <1>7, <1>9 DEF Step

-----------------------------------------------------------------------------
\* Stages of an exchange, as far as the flags show them.
Posts(t, b, l) == pc[t] \in Posted /\ ts[t] = b /\ local[t].level = l
Asks(t, b) == pc[t] \in Asked /\ ts[t] = b

PostPending(cb, b, l) ==
  cb.fn = "free_after_send" /\ cb.block = b /\ cb.level = l
AskPending(cb, b) == cb.fn = "reset_awake_condition" /\ cb.block = b

\* Steps of a receiver into, within and after its read section.
ReadingStep(t) == \/ ReceiveLock(t) \/ ReceiveNothing(t) \/ ReceiveCopy(t)
                  \/ ReceiveRest(t) \/ ReceiveUnlock(t) \/ ReceiveDecLevel(t)

\* Steps that move a thread within an exchange, or into or out of one.
Turns(t) == \/ SendCopy(t) \/ SendSize(t) \/ SendReady(t) \/ SendRcu(t)
            \/ SendDiscard(t) \/ AwakeSet(t) \/ AwakeRcu(t) \/ AwakeReset(t)
            \/ ReadingStep(t)

\* After the end of the read section, before the return to user mode.
Done == {"recv_dec", "recv_dec_level"}

\* t stays at its stage, with the same service and arguments.
SameStage(t) ==
  /\ pc'[t] \in Posted <=> pc[t] \in Posted
  /\ pc'[t] \in Asked <=> pc[t] \in Asked
  /\ pc'[t] \in ReadSection <=> pc[t] \in ReadSection
  /\ pc'[t] \in Done <=> pc[t] \in Done
  /\ pc'[t] = "send_ready" <=> pc[t] = "send_ready"
  /\ {pc[t], pc'[t]} \cap {"recv_rest", "recv_unlock"} = {}
  /\ pc[t] \in Posted \cup Asked \cup ReadSection \cup Done \cup {"send_ready"}
       => ts'[t] = ts[t] /\ local'[t] = local[t] /\ ret'[t] = ret[t]

LEMMA SameStageStep ==
  ASSUME TypeInv, NEW t \in Threads,
         Call(t) \/ Step(t) \/ MutexLock(t) \/ Signal(t), ~Turns(t)
  PROVE  SameStage(t) /\ callbacks' = callbacks
  <1> USE DEF At
  <1>0. pc \in [Threads -> Labels] /\ ts \in [Threads -> Blocks \cup {NULL}]
        /\ local \in [Threads -> Locals] /\ ret \in [Threads -> Codes]
    BY DEF TypeInv, TypeOK, ThreadTypeOK
  <1>1. callbacks' = callbacks
    <2>1. CASE Call(t) \/ MutexLock(t) \/ Signal(t) \/ LockOutOfBounds(t)
      BY <2>1 DEF Call, TagGet, TagGetInvalid, TagSend, TagReceive, TagCtl,
         MutexLock, Signal, LockOutOfBounds, kernelVars
    <2>2. CASE TagGetStep(t)
      BY <2>2 DEF TagGetStep, FindFirstEntryAvailable, FindTest, FindFull,
         FindScanTaken, FindScanFree, FindRet, CreateTaken, CreateNoMemory,
         CreatePublish, CreateDec, DeviceLoad, DeviceFill, OpenMissing,
         OpenFound, OpenLoad, OpenNull, OpenCheck, kernelVars
    <2>3. CASE TagSendStep(t) \/ TagReceiveStep(t)
      BY <2>3 DEF Turns, ReadingStep, TagSendStep, SendRefused, SendAccepted, SendTest,
         SendWake, TagReceiveStep, ReceiveRefused, ReceiveAccepted,
         ReceiveEnter, ReceiveAwake, ReceiveSleep, ReceiveMessage, ReceiveDec,
         kernelVars
    <2>4. CASE TagCtlStep(t)
      BY <2>4 DEF Turns, TagCtlStep, CtlAddress, CtlRefused, RemoveBusy,
         RemoveTest, RemoveMark, RemoveUnlink, RemoveInc, RemoveFree,
         AwakeCount, AwakeWake, kernelVars
    <2> QED
      BY <2>1, <2>2, <2>3, <2>4 DEF Step
  <1> SUFFICES SameStage(t)
    BY <1>1
  <1> DEFINE Stages == Posted \cup Asked \cup ReadSection \cup Done
                       \cup {"send_ready"}
  <1>2. ASSUME pc[t] \notin Stages, pc'[t] \notin Stages PROVE SameStage(t)
    BY <1>2 DEF SameStage
  <1> USE DEF Posted, Asked, ReadSection, Done
  <1>4. CASE Call(t)
    <2>1. /\ pc[t] = "idle"
          /\ pc'[t] \in {"idle", "find_test", "get_lock", "send_lock",
                         "recv_check", "ctl_addr"}
      BY <1>0, <1>4 DEF Call, TagGet, TagGetInvalid, TagSend, TagReceive,
         TagCtl, Enter, Refuse
    <2> QED
      BY <1>2, <2>1
  <1>5. CASE Signal(t)
    BY <1>0, <1>5 DEF Signal, SameStage
  <1>6. CASE MutexLock(t) \/ LockOutOfBounds(t)
    <2>1. /\ pc[t] \in {"get_lock", "send_lock", "ctl_lock"}
          /\ pc'[t] \in {"get_cs", "send_cs", "ctl_cs", "oops"}
      BY <1>0, <1>6 DEF MutexLock, LockOutOfBounds, WaitsForLock, AfterLock,
         Oops, Goto
    <2> QED
      BY <1>2, <2>1
  <1>7. CASE FindFirstEntryAvailable(t)
    <2>1. /\ pc[t] \in Finding
          /\ pc'[t] \in Finding \cup {"idle", "get_lock", "rm_inc"}
      BY <1>0, <1>7 DEF FindFirstEntryAvailable, FindTest, FindFull,
         FindScanTaken, FindScanFree, FindRet, FindReturns, Goto, Return,
         Finding
    <2> QED
      BY <1>2, <2>1 DEF Finding
  <1>8. CASE TagGetStep(t) /\ ~FindFirstEntryAvailable(t)
    <2>1. pc[t] \notin Stages /\ pc'[t] \notin Stages
      BY <1>0, <1>8 DEF TagGetStep, InCreate, InOpen, CreateTaken,
         CreateNoMemory, CreatePublish, CreateDec, DeviceLoad, DeviceFill,
         OpenMissing, OpenFound, OpenLoad, OpenNull, OpenCheck, Oops, Goto,
         Return
    <2> QED
      BY <1>2, <2>1
  <1>9. CASE SendRefused(t) \/ SendAccepted(t)
    BY <1>0, <1>2, <1>9 DEF SendRefused, SendAccepted, Goto, Return
  <1>10. CASE SendTest(t) \/ SendWake(t)
    BY <1>0, <1>10 DEF SendTest, SendWake, Goto, SameStage
  <1>11. CASE ReceiveRefused(t) \/ ReceiveAccepted(t) \/ ReceiveEnter(t)
              \/ ReceiveAwake(t) \/ ReceiveSleep(t)
    BY <1>0, <1>2, <1>11 DEF ReceiveRefused, ReceiveAccepted, ReceiveEnter,
       ReceiveAwake, ReceiveSleep, Goto, Return
  <1>12. CASE ReceiveMessage(t) \/ ReceiveDec(t)
    BY <1>0, <1>12 DEF ReceiveMessage, ReceiveDec, Goto, SameStage
  <1>13. CASE AwakeWake(t)
    BY <1>0, <1>13 DEF AwakeWake, SameStage
  <1>14. CASE TagCtlStep(t) /\ ~AwakeWake(t)
    <2>1. pc[t] \notin Stages /\ pc'[t] \notin Stages
      BY <1>0, <1>14 DEF Turns, TagCtlStep, CtlAddress, CtlRefused,
         RemoveBusy, RemoveTest, CtlAccepted, RemoveMark, RemoveUnlink,
         RemoveInc, RemoveFree, AwakeCount, Goto, Return
    <2> QED
      BY <1>2, <2>1
  <1> QED
    BY <1>4, <1>5, <1>6, <1>7, <1>8, <1>9, <1>10, <1>11, <1>12, <1>13, <1>14
       DEF Step, TagSendStep, TagReceiveStep, Turns, ReadingStep
-----------------------------------------------------------------------------
\* What each of these steps does.

\* Of all READY flags and messages, only those of one level are written.
OnlyLevel(b, l, m, ready) ==
  /\ level'[b][l].message = m /\ level'[b][l].message_ready = ready
  /\ \A c \in Blocks, k \in Levels : c # b \/ k # l =>
       /\ level'[c][k].message = level[c][k].message
       /\ level'[c][k].message_ready = level[c][k].message_ready

LEMMA OnlyLevelStep ==
  ASSUME TypeInv, NEW b \in Blocks, NEW l \in Levels, NEW r,
         level' = [level EXCEPT ![b] = [level[b] EXCEPT ![l] = r]]
  PROVE  OnlyLevel(b, l, r.message, r.message_ready)
  BY DEF TypeInv, TypeOK, KernelTypeOK, OnlyLevel

\* The end of an exchange.
LEMMA Withdrawn ==
  ASSUME TypeInv, NEW b \in Blocks, NEW l \in Levels,
         level' = [level EXCEPT ![b][l].message_ready = FALSE,
                                ![b][l].message = ZERO]
  PROVE  OnlyLevel(b, l, ZERO, FALSE)
  <1>1. level \in [Blocks -> [Levels -> LevelStates]]
    BY DEF TypeInv, TypeOK, KernelTypeOK
  <1> DEFINE r == [[level[b][l] EXCEPT !.message_ready = FALSE]
                    EXCEPT !.message = ZERO]
  <1>2. r.message = ZERO /\ r.message_ready = FALSE
    BY <1>1 DEF LevelStates
  <1>3. level' = [level EXCEPT ![b] = [level[b] EXCEPT ![l] = r]]
    BY <1>1
  <1> HIDE DEF r
  <1> QED
    BY <1>2, <1>3, OnlyLevelStep

LEMMA SenderEffect ==
  ASSUME TypeInv, NEW t \in Threads,
         SendCopy(t) \/ SendSize(t) \/ SendReady(t) \/ SendDiscard(t)
  PROVE  /\ ts[t] \in Blocks /\ local[t].level \in Levels
         /\ local[t].buffer \in Messages
         /\ UNCHANGED <<svc, allocated, callbacks>>
         /\ \/ /\ pc[t] = "send_copy" /\ pc'[t] = "send_size"
               /\ OnlyLevel(ts[t], local[t].level, TORN,
                            level[ts[t]][local[t].level].message_ready)
               /\ SendCopy(t) /\ UNCHANGED <<ts, local, ret>>
            \/ /\ pc[t] = "send_size" /\ pc'[t] = "send_ready"
               /\ OnlyLevel(ts[t], local[t].level, local[t].buffer,
                            level[ts[t]][local[t].level].message_ready)
               /\ SendSize(t) /\ UNCHANGED <<ts, local, ret>>
            \/ /\ pc[t] = "send_ready" /\ pc'[t] = "send_test"
               /\ OnlyLevel(ts[t], local[t].level,
                            level[ts[t]][local[t].level].message, TRUE)
               /\ SendReady(t) /\ UNCHANGED <<ts, local, ret>>
            \/ /\ pc[t] = "send_discard" /\ pc'[t] = "idle"
               /\ OnlyLevel(ts[t], local[t].level, ZERO, FALSE)
               /\ SendDiscard(t)
  <1> DEFINE b == ts[t]
             l == local[t].level
  <1> USE DEF At
  <1>0. /\ pc \in [Threads -> Labels] /\ pc[t] \in Posting
        /\ level \in [Blocks -> [Levels -> LevelStates]]
    BY DEF SendCopy, SendSize, SendReady, SendDiscard, Posting, TypeInv,
       TypeOK,
       KernelTypeOK, ThreadTypeOK
  <1>1. b \in Blocks /\ l \in Levels /\ local[t].buffer \in Messages
    BY <1>0 DEF TypeInv, ControlOK, Knows, SendLabels
  <1>2. level[b][l] \in LevelStates
    BY <1>0, <1>1
  <1>3. UNCHANGED <<svc, allocated, callbacks>>
    BY DEF SendCopy, SendSize, SendReady, SendDiscard
  <1>4. CASE SendCopy(t) \/ SendSize(t)
    <2> DEFINE m == IF pc[t] = "send_copy" THEN TORN ELSE local[t].buffer
               r == [level[b][l] EXCEPT !.message = m]
    <2>1. r.message = m /\ r.message_ready = level[b][l].message_ready
      BY <1>2 DEF LevelStates
    <2>2. level' = [level EXCEPT ![b] = [level[b] EXCEPT ![l] = r]]
      BY <1>4 DEF SendCopy, SendSize
    <2> HIDE DEF r
    <2>3. OnlyLevel(b, l, m, level[b][l].message_ready)
      BY <1>1, <2>1, <2>2, OnlyLevelStep
    <2>4. CASE SendCopy(t)
      BY <1>0, <1>1, <1>3, <2>3, <2>4 DEF SendCopy, Goto
    <2>5. CASE SendSize(t)
      BY <1>0, <1>1, <1>3, <2>3, <2>5 DEF SendSize, Goto
    <2> QED
      BY <1>4, <2>4, <2>5
  <1>5. CASE SendReady(t)
    <2> DEFINE r == [level[b][l] EXCEPT !.message_ready = TRUE]
    <2>1. r.message = level[b][l].message /\ r.message_ready = TRUE
      BY <1>2 DEF LevelStates
    <2>2. level' = [level EXCEPT ![b] = [level[b] EXCEPT ![l] = r]]
      BY <1>5 DEF SendReady
    <2> HIDE DEF r
    <2>3. OnlyLevel(b, l, level[b][l].message, TRUE)
      BY <1>1, <2>1, <2>2, OnlyLevelStep
    <2> QED
      BY <1>0, <1>1, <1>3, <1>5, <2>3 DEF SendReady, Goto
  <1>6. CASE SendDiscard(t)
    <2>1. level' = [level EXCEPT ![b][l].message_ready = FALSE,
                                 ![b][l].message = ZERO]
      BY <1>6 DEF SendDiscard
    <2>2. OnlyLevel(b, l, ZERO, FALSE)
      BY <1>1, <2>1, Withdrawn
    <2> QED
      BY <1>0, <1>1, <1>3, <1>6, <2>2 DEF SendDiscard, Return
  <1> QED
    BY <1>4, <1>5, <1>6
\* call_rcu, by tag_send and AWAKE_ALL.
LEMMA QueueEffect ==
  ASSUME TypeInv, NEW t \in Threads, SendRcu(t) \/ AwakeRcu(t)
  PROVE  /\ ts[t] \in Blocks /\ pc'[t] = "idle"
         /\ UNCHANGED <<svc, level, allocated>>
         /\ \E cb : /\ callbacks' = callbacks \cup {cb}
                    /\ cb.block = ts[t] /\ cb.readers = Readers
                    /\ \/ /\ SendRcu(t) /\ pc[t] = "send_rcu"
                          /\ cb.fn = "free_after_send"
                          /\ local[t].level \in Levels
                          /\ cb.level = local[t].level
                       \/ /\ AwakeRcu(t) /\ pc[t] = "aw_rcu"
                          /\ cb.fn = "reset_awake_condition"
  <1> USE DEF At
  <1>1. /\ pc \in [Threads -> Labels] /\ local[t].level \in Int
        /\ pc[t] \in {"send_rcu", "aw_rcu"}
    BY DEF SendRcu, AwakeRcu, TypeInv, TypeOK, ThreadTypeOK, Locals
  <1>2. ts[t] \in Blocks
    BY <1>1 DEF TypeInv, ControlOK, Knows, SendLabels, CtlLabels, CtlCS,
       Posting
  <1>3. ASSUME NEW f, NEW l, CallRcu(f, ts[t], l)
        PROVE  \E cb : /\ callbacks' = callbacks \cup {cb}
                      /\ cb.fn = f /\ cb.block = ts[t] /\ cb.level = l
                      /\ cb.readers = Readers
    <2> DEFINE cb == [fn |-> f, block |-> ts[t], level |-> l,
                      readers |-> Readers]
    <2>1. /\ cb.fn = f /\ cb.block = ts[t] /\ cb.level = l
          /\ cb.readers = Readers
      OBVIOUS
    <2>2. callbacks' = callbacks \cup {cb}
      BY <1>3 DEF CallRcu
    <2> QED
      BY <2>1, <2>2
  <1>4. CASE SendRcu(t)
    <2>1. /\ CallRcu("free_after_send", ts[t], local[t].level)
          /\ UNCHANGED <<svc, level, allocated>>
          /\ pc[t] = "send_rcu" /\ pc'[t] = "idle"
      BY <1>1, <1>4 DEF SendRcu, Return, heap
    <2>2. local[t].level \in Levels
      BY <2>1 DEF TypeInv, ControlOK, Knows, SendLabels, Posting
    <2>3. \E cb : /\ callbacks' = callbacks \cup {cb}
                 /\ cb.fn = "free_after_send" /\ cb.block = ts[t]
                 /\ cb.level = local[t].level /\ cb.readers = Readers
      BY <1>3, <2>1
    <2> QED
      BY <1>2, <1>4, <2>1, <2>2, <2>3
  <1>5. CASE AwakeRcu(t)
    <2>1. /\ CallRcu("reset_awake_condition", ts[t], 0)
          /\ UNCHANGED <<svc, level, allocated>>
          /\ pc[t] = "aw_rcu" /\ pc'[t] = "idle"
      BY <1>1, <1>5 DEF AwakeRcu, Return, heap
    <2>2. \E cb : /\ callbacks' = callbacks \cup {cb}
                 /\ cb.fn = "reset_awake_condition" /\ cb.block = ts[t]
                 /\ cb.readers = Readers
      BY <1>3, <2>1
    <2> QED
      BY <1>2, <1>5, <2>1, <2>2
  <1> QED
    BY <1>4, <1>5

\* Of all requests, only that of one service is written.
OnlyRequest(b, request) ==
  /\ svc'[b].awake_request = request
  /\ \A c \in Blocks : c # b => svc'[c].awake_request = svc[c].awake_request

LEMMA OnlyRequestStep ==
  ASSUME TypeInv, NEW b \in Blocks, NEW r \in BOOLEAN,
         svc' = [svc EXCEPT ![b] = [svc[b] EXCEPT !.awake_request = r]]
  PROVE  OnlyRequest(b, r)
  BY DEF TypeInv, TypeOK, KernelTypeOK, OnlyRequest, Services

LEMMA RequestEffect ==
  ASSUME TypeInv, NEW t \in Threads, AwakeSet(t) \/ AwakeReset(t)
  PROVE  /\ ts[t] \in Blocks /\ UNCHANGED <<level, allocated, callbacks>>
         /\ \/ /\ AwakeSet(t) /\ pc[t] = "aw_set" /\ pc'[t] = "aw_wake"
               /\ OnlyRequest(ts[t], TRUE) /\ UNCHANGED <<ts, local, ret>>
            \/ /\ AwakeReset(t) /\ pc[t] = "aw_reset" /\ pc'[t] = "idle"
               /\ OnlyRequest(ts[t], FALSE)
  <1> USE DEF At
  <1>1. /\ pc \in [Threads -> Labels] /\ pc[t] \in CtlCS
        /\ UNCHANGED <<level, allocated, callbacks>>
    BY DEF AwakeSet, AwakeReset, CtlCS, TypeInv, TypeOK, ThreadTypeOK
  <1>2. ts[t] \in Blocks
    BY <1>1 DEF TypeInv, ControlOK, Knows, CtlLabels
  <1>3. CASE AwakeSet(t)
    BY <1>1, <1>2, <1>3, OnlyRequestStep DEF AwakeSet, Goto
  <1>4. CASE AwakeReset(t)
    BY <1>1, <1>2, <1>4, OnlyRequestStep DEF AwakeReset, Return
  <1> QED
    BY <1>3, <1>4

\* A receiver writes neither a flag nor a message; the end of its read section
\* is the only step that a callback can tell.
LEMMA ReceiverEffect ==
  ASSUME TypeInv, NEW t \in Threads, ReadingStep(t)
  PROVE  /\ ts[t] \in Blocks /\ local[t].level \in Levels
         /\ UNCHANGED <<svc, allocated>>
         /\ pc[t] \notin Posted \cup Asked /\ pc'[t] \notin Posted \cup Asked
         /\ pc'[t] # "send_ready"
         /\ \/ callbacks' = callbacks /\ ~ReceiveUnlock(t)
            \/ ReadUnlock(t) /\ ReceiveUnlock(t)
         /\ \/ /\ ReceiveLock(t) /\ pc[t] = "recv_lock" /\ pc'[t] = "recv_rcu"
               /\ UNCHANGED <<ts, local, ret>>
            \/ /\ ReceiveNothing(t) /\ pc[t] = "recv_rcu"
               /\ pc'[t] = "recv_unlock" /\ UNCHANGED <<ts, local>>
               /\ ret'[t] = "EINTR"
            \/ /\ ReceiveCopy(t) /\ pc[t] = "recv_copy"
               /\ pc'[t] = "recv_rest" /\ UNCHANGED <<ts, ret>>
               /\ local'[t].buffer = level[ts[t]][local[t].level].message
               /\ local'[t].level = local[t].level
            \/ /\ ReceiveRest(t) /\ pc[t] = "recv_rest"
               /\ pc'[t] = "recv_unlock" /\ ts' = ts /\ ret'[t] = "OK"
               /\ local'[t].buffer =
                    IF local[t].buffer = level[ts[t]][local[t].level].message
                    THEN local[t].buffer ELSE TORN
               /\ local'[t].level = local[t].level
            \/ /\ ReceiveUnlock(t) /\ pc[t] = "recv_unlock"
               /\ pc'[t] = "recv_dec" /\ UNCHANGED <<ts, local, ret>>
            \/ /\ ReceiveDecLevel(t) /\ pc[t] = "recv_dec_level"
               /\ pc'[t] = "idle"
  <1> USE DEF At
  <1>1. /\ pc \in [Threads -> Labels] /\ local \in [Threads -> Locals]
        /\ ret \in [Threads -> Codes] /\ pc[t] \in RecvLabels
        /\ UNCHANGED <<svc, allocated>>
    BY DEF ReadingStep, ReceiveLock, ReceiveNothing, ReceiveCopy, ReceiveRest,
       ReceiveUnlock, ReceiveDecLevel, TypeInv, TypeOK, ThreadTypeOK,
       RecvLabels, Counted, kernelVars, heap
  <1>2. ts[t] \in Blocks /\ local[t].level \in Levels
    BY <1>1 DEF TypeInv, ControlOK, Knows
  <1> USE DEF Posted, Asked
  <1>3. CASE ReceiveLock(t)
    BY <1>1, <1>2, <1>3 DEF ReceiveLock, ReceiveUnlock, Goto, kernelVars
  <1>4. CASE ReceiveNothing(t)
    BY <1>1, <1>2, <1>4 DEF ReceiveNothing, ReceiveUnlock, kernelVars
  <1>5. CASE ReceiveCopy(t)
    BY <1>1, <1>2, <1>5 DEF ReceiveCopy, ReceiveUnlock, kernelVars, Locals
  <1>6. CASE ReceiveRest(t)
    BY <1>1, <1>2, <1>6 DEF ReceiveRest, ReceiveUnlock, kernelVars, Locals
  <1>7. CASE ReceiveUnlock(t)
    BY <1>1, <1>2, <1>7 DEF ReceiveUnlock, Goto
  <1>8. CASE ReceiveDecLevel(t)
    BY <1>1, <1>2, <1>8 DEF ReceiveDecLevel, ReceiveUnlock, Return
  <1> QED
    BY <1>3, <1>4, <1>5, <1>6, <1>7, <1>8 DEF ReadingStep

LEMMA ReadingKeeps ==
  ASSUME TypeInv, NEW t \in Threads, ReadingStep(t)
  PROVE  \A b \in Blocks : SameBlock(b)
  <1>1. Step(t) /\ ~Writes(t)
    BY ReceiverEffect DEF ReadingStep, Step, TagReceiveStep, Writes,
       CreatePublish, InCreate, SendCopy, SendSize, SendReady, SendDiscard,
       AwakeSet, AwakeReset, At
  <1> QED
    BY <1>1, SameBlockStep

\* tag_get writes one new service, whose flags are clear.
LEMMA CreateEffect ==
  ASSUME TypeInv, NEW t \in Threads, CreatePublish(t)
  PROVE  \E b \in FreshBlocks :
           /\ b \in Blocks \ allocated /\ allocated' = allocated \cup {b}
           /\ \A cb \in callbacks : cb.block # b
           /\ ~svc'[b].awake_request /\ ~svc'[b].lazy_deleted
           /\ \A l \in Levels : /\ ~level'[b][l].message_ready
                               /\ level'[b][l].message = ZERO
           /\ \A c \in Blocks : c # b => svc'[c] = svc[c] /\ level'[c] = level[c]
           /\ pc[t] = "get_cs" /\ pc'[t] = "get_dec"
           /\ UNCHANGED callbacks
  <1>1. /\ svc \in [Blocks -> Services] /\ pc \in [Threads -> Labels]
        /\ level \in [Blocks -> [Levels -> LevelStates]]
    BY DEF TypeInv, TypeOK, KernelTypeOK, ThreadTypeOK
  <1> DEFINE r == [NoService EXCEPT !.tag = local[t].tag,
                     !.key = IF local[t].key = IPC_PRIVATE
                             THEN -1 ELSE local[t].key,
                     !.permission = local[t].permission,
                     !.owner_euid = EUID[t]]
  <1>2. ~r.awake_request /\ ~r.lazy_deleted
    BY DEF NoService
  <1>3. PICK b \in FreshBlocks :
          /\ allocated' = allocated \cup {b}
          /\ svc' = [svc EXCEPT ![b] = r]
          /\ level' = [level EXCEPT ![b] = [l \in Levels |-> NoLevel]]
    BY DEF CreatePublish
  <1> HIDE DEF r
  <1>4. /\ b \in Blocks \ allocated /\ \A cb \in callbacks : cb.block # b
        /\ pc[t] = "get_cs" /\ pc'[t] = "get_dec" /\ UNCHANGED callbacks
    BY <1>1 DEF FreshBlocks, CreatePublish, InCreate, At
  <1>5. \A l \in Levels : /\ ~level'[b][l].message_ready
                         /\ level'[b][l].message = ZERO
    BY <1>1, <1>3, <1>4 DEF NoLevel
  <1> QED
    BY <1>1, <1>2, <1>3, <1>4, <1>5

\* The callbacks.
LEMMA CallbackEffect ==
  ASSUME TypeInv, NEW cb \in callbacks, Callback(cb)
  PROVE  /\ cb.block \in Blocks /\ cb.level \in Levels
         /\ callbacks' = callbacks \ {cb} /\ cb.readers = {}
         /\ UNCHANGED <<threadVars, allocated>>
         /\ \/ /\ cb.fn = "free_after_send" /\ UNCHANGED svc
               /\ OnlyLevel(cb.block, cb.level, ZERO, FALSE)
            \/ /\ cb.fn = "reset_awake_condition" /\ UNCHANGED level
               /\ OnlyRequest(cb.block, FALSE)
  <1>1. cb.block \in Blocks /\ cb.level \in Levels
    BY DEF TypeInv, TypeOK, KernelTypeOK, Callbacks
  <1>2. CASE free_after_send(cb)
    <2>1. level' = [level EXCEPT ![cb.block][cb.level].message_ready = FALSE,
                                 ![cb.block][cb.level].message = ZERO]
      BY <1>2 DEF free_after_send
    <2> QED
      BY <1>1, <1>2, <2>1, Withdrawn DEF free_after_send
  <1>3. CASE reset_awake_condition(cb)
    BY <1>1, <1>3, OnlyRequestStep DEF reset_awake_condition
  <1> QED
    BY <1>2, <1>3 DEF Callback
-----------------------------------------------------------------------------
\* ExchangeWindow needs nothing but the types: whoever sets a flag clears it
\* or leaves that to a callback.

ReadersOK == \A cb \in callbacks : cb.readers \subseteq Readers

WindowInv == /\ TypeInv /\ ExchangeWindow /\ ReadersOK
             /\ signalled \subseteq Interruptible

\* A pending callback stays, though it may wait for fewer readers.
CallbacksKept ==
  \A cb \in callbacks : \E c2 \in callbacks' :
    c2.fn = cb.fn /\ c2.block = cb.block /\ c2.level = cb.level

LEMMA UnlockKeeps ==
  ASSUME TypeInv, NEW t \in Threads, ReadUnlock(t)
  PROVE  /\ CallbacksKept
         /\ \A c2 \in callbacks' : \E cb \in callbacks :
              /\ c2.fn = cb.fn /\ c2.block = cb.block /\ c2.level = cb.level
              /\ c2.readers = cb.readers \ {t}
  <1>1. \A cb \in callbacks :
          LET c2 == [cb EXCEPT !.readers = @ \ {t}]
          IN  /\ c2.fn = cb.fn /\ c2.block = cb.block /\ c2.level = cb.level
              /\ c2.readers = cb.readers \ {t}
    BY DEF TypeInv, TypeOK, KernelTypeOK, Callbacks
  <1>2. callbacks' = {[cb EXCEPT !.readers = @ \ {t}] : cb \in callbacks}
    BY DEF ReadUnlock
  <1>3. \A cb \in callbacks : [cb EXCEPT !.readers = @ \ {t}] \in callbacks'
    BY <1>2
  <1> QED
    BY <1>1, <1>2, <1>3 DEF CallbacksKept

\* Flags that are set, stay set or are cleared while t moves.
LEMMA WindowKept ==
  ASSUME TypeInv, ExchangeWindow, NEW t \in Threads, OthersSame(t),
         CallbacksKept,
         \A b \in Blocks, l \in Levels :
           /\ level'[b][l].message_ready =>
                level[b][l].message_ready \/ Posts(t, b, l)'
           /\ Posts(t, b, l) => \/ Posts(t, b, l)'
                               \/ ~level'[b][l].message_ready
                               \/ \E cb \in callbacks' : PostPending(cb, b, l),
         \A b \in Blocks :
           /\ svc'[b].awake_request => svc[b].awake_request \/ Asks(t, b)'
           /\ Asks(t, b) => \/ Asks(t, b)'
                           \/ ~svc'[b].awake_request
                           \/ \E cb \in callbacks' : AskPending(cb, b)
  PROVE  ExchangeWindow'
  <1>1. \A u \in Threads \ {t} : pc'[u] = pc[u] /\ ts'[u] = ts[u]
                                /\ local'[u] = local[u]
    BY DEF OthersSame
  <1>2. ASSUME NEW b \in Blocks, NEW l \in Levels, level'[b][l].message_ready
        PROVE  \/ \E u \in Threads : Posts(u, b, l)'
               \/ \E cb \in callbacks' : PostPending(cb, b, l)
    <2>1. CASE level[b][l].message_ready
      <3>1. \/ \E u \in Threads : Posts(u, b, l)
            \/ \E cb \in callbacks : PostPending(cb, b, l)
        BY <2>1 DEF ExchangeWindow, Posts, PostPending
      <3>2. CASE \E cb \in callbacks : PostPending(cb, b, l)
        BY <3>2 DEF CallbacksKept, PostPending
      <3>3. CASE \E u \in Threads \ {t} : Posts(u, b, l)
        BY <1>1, <3>3 DEF Posts
      <3>4. CASE Posts(t, b, l)
        BY <1>2, <3>4
      <3> QED
        BY <3>1, <3>2, <3>3, <3>4
    <2>2. CASE Posts(t, b, l)'
      BY <2>2
    <2> QED
      BY <1>2, <2>1, <2>2
  <1>3. ASSUME NEW b \in Blocks, svc'[b].awake_request
        PROVE  \/ \E u \in Threads : Asks(u, b)'
               \/ \E cb \in callbacks' : AskPending(cb, b)
    <2>1. CASE svc[b].awake_request
      <3>1. \/ \E u \in Threads : Asks(u, b)
            \/ \E cb \in callbacks : AskPending(cb, b)
        BY <2>1 DEF ExchangeWindow, Asks, AskPending
      <3>2. CASE \E cb \in callbacks : AskPending(cb, b)
        BY <3>2 DEF CallbacksKept, AskPending
      <3>3. CASE \E u \in Threads \ {t} : Asks(u, b)
        BY <1>1, <3>3 DEF Asks
      <3>4. CASE Asks(t, b)
        BY <1>3, <3>4
      <3> QED
        BY <3>1, <3>2, <3>3, <3>4
    <2>2. CASE Asks(t, b)'
      BY <2>2
    <2> QED
      BY <1>3, <2>1, <2>2
  <1> QED
    BY <1>2, <1>3 DEF ExchangeWindow, Posts, Asks, PostPending, AskPending

\* One thread moves.
LEMMA WindowThread ==
  ASSUME TypeInv, ExchangeWindow, NEW t \in Threads, OthersSame(t),
         Call(t) \/ Step(t) \/ MutexLock(t) \/ Signal(t)
  PROVE  ExchangeWindow'
  <1>0. CallbacksKept \/ callbacks' # callbacks
    BY DEF CallbacksKept
  <1>1. CASE ~Turns(t)
    <2>1. /\ SameStage(t) /\ CallbacksKept
          /\ \A b \in Blocks, l \in Levels : Posts(t, b, l) => Posts(t, b, l)'
          /\ \A b \in Blocks : Asks(t, b) => Asks(t, b)'
      BY <1>0, <1>1, SameStageStep DEF SameStage, Posts, Asks
    <2>2. CASE CreatePublish(t)
      <3>1. \A b \in Blocks :
              /\ svc'[b].awake_request => svc[b].awake_request
              /\ \A l \in Levels : level'[b][l].message_ready
                                     => level[b][l].message_ready
        BY <2>2, CreateEffect
      <3> QED
        BY <2>1, <3>1, WindowKept
    <2>3. CASE ~CreatePublish(t)
      <3>1. \A b \in Blocks : SameBlock(b)
        BY <1>1, <2>3, SameBlockStep DEF Turns, Writes
      <3> QED
        BY <2>1, <3>1, WindowKept DEF SameBlock
    <2> QED
      BY <2>2, <2>3
  <1>2. CASE SendCopy(t) \/ SendSize(t) \/ SendReady(t) \/ SendDiscard(t)
    <2> DEFINE b == ts[t]
               l == local[t].level
    <2>1. /\ b \in Blocks /\ l \in Levels /\ CallbacksKept /\ svc' = svc
          /\ \A c \in Blocks : ~Asks(t, c)
      BY <1>0, <1>2, SenderEffect DEF Asks, Asked
    <2> SUFFICES \A c \in Blocks, k \in Levels :
           /\ level'[c][k].message_ready =>
                level[c][k].message_ready \/ Posts(t, c, k)'
           /\ Posts(t, c, k) => \/ Posts(t, c, k)'
                               \/ ~level'[c][k].message_ready
      BY <2>1, WindowKept
    <2>2. CASE pc[t] \in {"send_copy", "send_size"}
      <3>1. /\ pc[t] \notin Posted
            /\ \A c \in Blocks, k \in Levels :
                 level'[c][k].message_ready = level[c][k].message_ready
        BY <1>2, <2>2, SenderEffect DEF OnlyLevel, Posted
      <3> QED
        BY <3>1 DEF Posts
    <2>3. CASE pc[t] = "send_ready"
      <3>1. /\ pc[t] \notin Posted /\ pc'[t] \in Posted
            /\ ts' = ts /\ local' = local
            /\ \A c \in Blocks, k \in Levels : c # b \/ k # l =>
                 level'[c][k].message_ready = level[c][k].message_ready
        BY <1>2, <2>3, SenderEffect DEF OnlyLevel, Posted
      <3> QED
        BY <3>1 DEF Posts
    <2>4. CASE pc[t] = "send_discard"
      <3>1. /\ ~level'[b][l].message_ready
            /\ \A c \in Blocks, k \in Levels : c # b \/ k # l =>
                 level'[c][k].message_ready = level[c][k].message_ready
        BY <1>2, <2>4, SenderEffect DEF OnlyLevel
      <3> QED
        BY <3>1 DEF Posts
    <2> QED
      BY <1>2, <2>2, <2>3, <2>4, SenderEffect
  <1>3. CASE SendRcu(t) \/ AwakeRcu(t)
    <2>1. /\ UNCHANGED <<svc, level>> /\ CallbacksKept
          /\ \/ /\ pc[t] = "send_rcu"
                /\ \E cb \in callbacks' : PostPending(cb, ts[t], local[t].level)
             \/ /\ pc[t] = "aw_rcu"
                /\ \E cb \in callbacks' : AskPending(cb, ts[t])
      BY <1>3, QueueEffect DEF CallbacksKept, PostPending, AskPending
    <2> QED
      BY <2>1, WindowKept DEF Posts, Asks, Posted, Asked
  <1>4. CASE AwakeSet(t) \/ AwakeReset(t)
    <2>1. /\ UNCHANGED level /\ CallbacksKept /\ ts[t] \in Blocks
          /\ \A b \in Blocks, l \in Levels : ~Posts(t, b, l)
          /\ \A c \in Blocks : c # ts[t] =>
               svc'[c].awake_request = svc[c].awake_request
          /\ \/ /\ pc[t] = "aw_set" /\ pc'[t] = "aw_wake" /\ ts' = ts
             \/ /\ pc[t] = "aw_reset" /\ ~svc'[ts[t]].awake_request
      BY <1>0, <1>4, RequestEffect DEF OnlyRequest, Posts, Posted
    <2> QED
      BY <2>1, WindowKept DEF Asks, Asked
  <1>5. CASE ReadingStep(t)
    <2>1. CallbacksKept
      BY <1>0, <1>5, ReceiverEffect, UnlockKeeps
    <2>2. /\ \A b \in Blocks, l \in Levels : ~Posts(t, b, l)
          /\ \A b \in Blocks : ~Asks(t, b)
      BY <1>5, ReceiverEffect DEF Posts, Asks
    <2>3. \A b \in Blocks : SameBlock(b)
      BY <1>5, ReadingKeeps
    <2> QED
      BY <2>1, <2>2, <2>3, WindowKept DEF SameBlock
  <1> QED
    BY <1>1, <1>2, <1>3, <1>4, <1>5 DEF Turns
\* A signal reaches only threads that may receive one, and one at a time.
LEMMA SignalStep ==
  ASSUME NEW t \in Threads, Call(t) \/ Step(t) \/ MutexLock(t) \/ Signal(t),
         signalled \subseteq Interruptible
  PROVE  /\ signalled' \subseteq Interruptible
         /\ \A u \in Threads \ {t} : u \in signalled' <=> u \in signalled
  <1> USE DEF Goto, Return, Oops
  <1>1. CASE Call(t) \/ MutexLock(t) \/ Signal(t) \/ LockOutOfBounds(t)
    BY <1>1 DEF Call, TagGet, TagGetInvalid, TagSend, TagReceive, TagCtl,
       Enter, Refuse, MutexLock, Signal, LockOutOfBounds
  <1>2. CASE TagGetStep(t)
    BY <1>2 DEF TagGetStep, FindFirstEntryAvailable, FindTest, FindFull,
       FindScanTaken, FindScanFree, FindRet, FindReturns, CreateTaken,
       CreateNoMemory, CreatePublish, CreateDec, DeviceLoad, DeviceFill,
       OpenMissing, OpenFound, OpenLoad, OpenNull, OpenCheck
  <1>3. CASE TagSendStep(t)
    BY <1>3 DEF TagSendStep, SendRefused, SendAccepted, SendCopy, SendSize,
       SendReady, SendTest, SendWake, SendRcu, SendDiscard
  <1>4. CASE TagReceiveStep(t)
    BY <1>4 DEF TagReceiveStep, ReceiveRefused, ReceiveAccepted, ReceiveEnter,
       ReceiveAwake, ReceiveSleep, ReceiveLock, ReceiveNothing,
       ReceiveMessage, ReceiveCopy, ReceiveRest, ReceiveUnlock, ReceiveDec,
       ReceiveDecLevel
  <1>5. CASE TagCtlStep(t)
    BY <1>5 DEF TagCtlStep, CtlAddress, CtlRefused, RemoveBusy, RemoveTest,
       RemoveMark, RemoveUnlink, RemoveInc, RemoveFree, AwakeCount, AwakeSet,
       AwakeWake, AwakeRcu, AwakeReset
  <1> QED
    BY <1>1, <1>2, <1>3, <1>4, <1>5 DEF Step

\* A grace period waits only for threads that are still reading.
LEMMA ReadersThread ==
  ASSUME TypeInv, ReadersOK, NEW t \in Threads, OthersSame(t),
         Call(t) \/ Step(t) \/ MutexLock(t) \/ Signal(t)
  PROVE  ReadersOK'
  <1>1. \A u \in Threads \ {t} : u \in Readers' <=> u \in Readers
    BY DEF OthersSame, Readers
  <1>2. CASE /\ callbacks' = callbacks
             /\ pc[t] \in ReadSection => pc'[t] \in ReadSection
    <2>1. Readers \subseteq Readers'
      BY <1>1, <1>2 DEF Readers
    <2> QED
      BY <1>2, <2>1 DEF ReadersOK
  <1>3. CASE ~Turns(t)
    BY <1>2, <1>3, SameStageStep DEF SameStage
  <1>4. CASE SendCopy(t) \/ SendSize(t) \/ SendReady(t) \/ SendDiscard(t)
    BY <1>2, <1>4, SenderEffect DEF ReadSection
  <1>5. CASE AwakeSet(t) \/ AwakeReset(t)
    BY <1>2, <1>5, RequestEffect DEF ReadSection
  <1>6. CASE SendRcu(t) \/ AwakeRcu(t)
    <2>1. /\ pc[t] \notin ReadSection
          /\ \E cb : callbacks' = callbacks \cup {cb} /\ cb.readers = Readers
      BY <1>6, QueueEffect DEF ReadSection
    <2>2. Readers \subseteq Readers'
      BY <1>1, <2>1 DEF Readers
    <2> QED
      BY <2>1, <2>2 DEF ReadersOK
  <1>7. CASE ReadingStep(t) /\ ~ReceiveUnlock(t)
    BY <1>2, <1>7, ReceiverEffect DEF ReadSection
  <1>8. CASE ReceiveUnlock(t)
    <2>1. \A c2 \in callbacks' : \E cb \in callbacks :
            c2.readers = cb.readers \ {t}
      BY <1>8, UnlockKeeps DEF ReceiveUnlock
    <2> QED
      BY <1>1, <2>1 DEF ReadersOK, Readers
  <1> QED
    BY <1>3, <1>4, <1>5, <1>6, <1>7, <1>8 DEF Turns, ReadingStep

LEMMA WindowInit == Init => WindowInv
  <1> SUFFICES ASSUME Init PROVE ExchangeWindow /\ ReadersOK
                                 /\ signalled \subseteq Interruptible
    BY TypeInit DEF WindowInv
  <1> QED
    BY DEF Init, ExchangeWindow, ReadersOK, NoService, NoLevel

LEMMA WindowStep == WindowInv /\ [Next]_vars => WindowInv'
  <1> SUFFICES ASSUME WindowInv, [Next]_vars PROVE WindowInv'
    OBVIOUS
  <1>0. TypeInv /\ TypeInv'
    BY TypeStep DEF WindowInv
  <1>1. ASSUME NEW t \in Threads,
               Call(t) \/ Step(t) \/ MutexLock(t) \/ Signal(t)
        PROVE  WindowInv'
    <2>1. OthersSame(t)
      BY <1>0, <1>1, OthersStep
    <2> QED
      BY <1>0, <1>1, <2>1, WindowThread, ReadersThread, SignalStep
         DEF WindowInv
  <1>2. CASE RunCallback
    <2>1. PICK cb \in callbacks : Callback(cb)
      BY <1>2 DEF RunCallback
    <2>2. /\ callbacks' = callbacks \ {cb} /\ UNCHANGED threadVars
          /\ \/ /\ cb.fn = "free_after_send" /\ UNCHANGED svc
                /\ OnlyLevel(cb.block, cb.level, ZERO, FALSE)
             \/ /\ cb.fn = "reset_awake_condition" /\ UNCHANGED level
                /\ OnlyRequest(cb.block, FALSE)
      BY <1>0, <2>1, CallbackEffect
    <2>3. Readers' = Readers /\ signalled' = signalled
      BY <2>2 DEF threadVars, Readers
    <2>4. ReadersOK'
      BY <2>2, <2>3 DEF WindowInv, ReadersOK
    <2>5. ASSUME NEW b \in Blocks, NEW l \in Levels,
                 level'[b][l].message_ready
          PROVE  \/ \E u \in Threads : /\ pc'[u] \in Posted
                                       /\ ts'[u] = b /\ local'[u].level = l
                 \/ \E c \in callbacks' : /\ c.fn = "free_after_send"
                                          /\ c.block = b /\ c.level = l
      <3>1. level[b][l].message_ready
            /\ (cb.fn = "free_after_send" => b # cb.block \/ l # cb.level)
        BY <2>2, <2>5 DEF OnlyLevel
      <3> QED
        BY <2>2, <3>1 DEF WindowInv, ExchangeWindow, threadVars
    <2>6. ASSUME NEW b \in Blocks, svc'[b].awake_request
          PROVE  \/ \E u \in Threads : pc'[u] \in Asked /\ ts'[u] = b
                 \/ \E c \in callbacks' : /\ c.fn = "reset_awake_condition"
                                          /\ c.block = b
      <3>1. svc[b].awake_request
            /\ (cb.fn = "reset_awake_condition" => b # cb.block)
        BY <2>2, <2>6 DEF OnlyRequest
      <3> QED
        BY <2>2, <3>1 DEF WindowInv, ExchangeWindow, threadVars
    <2>7. ExchangeWindow'
      BY <2>5, <2>6 DEF ExchangeWindow
    <2> QED
      BY <1>0, <2>3, <2>4, <2>7 DEF WindowInv
  <1>3. CASE UNCHANGED vars
    BY <1>0, <1>3 DEF WindowInv, ExchangeWindow, ReadersOK, Readers, vars,
       kernelVars, threadVars, heap
  <1> QED
    BY <1>1, <1>2, <1>3 DEF Next

\* Nothing is left over from a finished exchange: a READY message or a request
\* to awake belongs to a call that is under way, or to its callback.  This
\* holds however kzalloc reuses memory.
THEOREM WindowsClose == Spec => []ExchangeWindow
  <1>1. WindowInv => ExchangeWindow
    BY DEF WindowInv
  <1> QED
    BY <1>1, WindowInit, WindowStep, PTL DEF Spec

-----------------------------------------------------------------------------
\* What a sender has put in place stays there until it, or its callback, takes
\* it back: this rests on the mutex, so on SafeInv.

PostOK(t) ==
  /\ pc[t] \in Posted \cup {"send_ready"} =>
       level[ts[t]][local[t].level].message = local[t].buffer
  /\ pc[t] \in Posted => level[ts[t]][local[t].level].message_ready
  /\ pc[t] \in Asked => svc[ts[t]].awake_request

CallbackOK(cb) ==
  /\ cb.fn = "free_after_send" =>
       /\ level[cb.block][cb.level].message_ready
       /\ level[cb.block][cb.level].message \in Messages
  /\ cb.fn = "reset_awake_condition" => svc[cb.block].awake_request

PostInv == /\ \A t \in Threads : PostOK(t)
           /\ \A cb \in callbacks : CallbackOK(cb)

LEMMA SenderKnows ==
  ASSUME TypeInv, NEW t \in Threads, pc[t] \in Posted \cup {"send_ready"}
  PROVE  /\ ts[t] \in Blocks /\ local[t].level \in Levels
         /\ local[t].buffer \in Messages
  BY DEF Posted, Posting, SendLabels, TypeInv, ControlOK, Knows

LEMMA ExchangesWork ==
  Posted \cup Asked \cup {"send_ready"} \subseteq Working
  BY DEF Posted, Asked, Working, Posting, Awaking

\* A step of t that writes at most the service t works on, or a new block.
LEMMA PostFrame ==
  ASSUME SafeInv, PostInv, NEW t \in Threads, OthersSame(t), PostOK(t)',
         \A b \in Blocks : \/ SameBlock(b)
                           \/ pc[t] \in Working /\ b = ts[t]
                           \/ b \notin allocated,
         \A c \in callbacks' :
           \/ CallbackOK(c)'
           \/ \E cb \in callbacks : /\ c.fn = cb.fn /\ c.block = cb.block
                                    /\ c.level = cb.level
  PROVE  PostInv'
  <1>0. TypeInv
    BY DEF SafeInv, LifeInv
  <1>1. ASSUME NEW u \in Threads \ {t} PROVE PostOK(u)'
    <2>1. pc'[u] = pc[u] /\ ts'[u] = ts[u] /\ local'[u] = local[u]
      BY DEF OthersSame
    <2>2. CASE pc[u] \notin Posted \cup Asked \cup {"send_ready"}
      BY <2>1, <2>2 DEF PostOK
    <2>3. CASE pc[u] \in Posted \cup Asked \cup {"send_ready"}
      <3>1. pc[u] \in Working /\ ts[u] \in Blocks /\ ts[u] \in allocated
        BY <2>3, ExchangesWork, WorkerHolds
           DEF SafeInv, ServiceInv, ThreadServiceOK, Live
      <3>2. pc[t] \in Working => ts[u] # ts[t]
        BY <3>1, OneWorker
      <3>3. SameBlock(ts[u])
        BY <3>1, <3>2
      <3>4. pc[u] \in Posted \cup {"send_ready"} => local[u].level \in Levels
        BY <1>0, SenderKnows
      <3> QED
        BY <2>1, <3>3, <3>4 DEF PostInv, PostOK, SameBlock
    <2> QED
      BY <2>2, <2>3
  <1>2. ASSUME NEW c \in callbacks' PROVE CallbackOK(c)'
    <2>1. CASE \E cb \in callbacks : /\ c.fn = cb.fn /\ c.block = cb.block
                                     /\ c.level = cb.level
      <3>1. PICK cb \in callbacks : /\ c.fn = cb.fn /\ c.block = cb.block
                                    /\ c.level = cb.level
        BY <2>1
      <3>2. cb.block \in Blocks /\ cb.level \in Levels
            /\ cb.block \in allocated
        BY <1>0 DEF SafeInv, ServiceInv, Live, TypeInv, TypeOK, KernelTypeOK,
           Callbacks
      <3>3. pc[t] \in Working => cb.block # ts[t]
        BY OneWorker
      <3>4. SameBlock(cb.block)
        BY <3>2, <3>3
      <3> QED
        BY <3>1, <3>2, <3>4 DEF PostInv, CallbackOK, SameBlock
    <2> QED
      BY <2>1
  <1> QED
    BY <1>1, <1>2 DEF PostInv

LEMMA PostThread ==
  ASSUME SafeInv, PostInv, NEW t \in Threads, OthersSame(t),
         Call(t) \/ Step(t) \/ MutexLock(t) \/ Signal(t)
  PROVE  PostInv'
  <1>0. TypeInv /\ PostOK(t)
    BY DEF SafeInv, LifeInv, PostInv
  <1>1. callbacks' = callbacks =>
          \A c \in callbacks' : \E cb \in callbacks :
            c.fn = cb.fn /\ c.block = cb.block /\ c.level = cb.level
    OBVIOUS
  <1>2. pc'[t] \notin Posted \cup Asked \cup {"send_ready"} => PostOK(t)'
    BY DEF PostOK
  <1>3. CASE ~Turns(t)
    <2>1. SameStage(t) /\ callbacks' = callbacks
      BY <1>0, <1>3, SameStageStep
    <2>2. ASSUME \A b \in Blocks : SameBlock(b) \/ b \notin allocated
          PROVE  PostOK(t)'
      <3>1. CASE pc[t] \in Posted \cup Asked \cup {"send_ready"}
        <4>1. ts[t] \in Blocks /\ ts[t] \in allocated
          BY <3>1, ExchangesWork, WorkerHolds
             DEF SafeInv, ServiceInv, ThreadServiceOK, Live
        <4>2. pc[t] \in Posted \cup {"send_ready"} => local[t].level \in Levels
          BY <1>0, SenderKnows
        <4>3. SameBlock(ts[t]) /\ ts'[t] = ts[t] /\ local'[t] = local[t]
          BY <2>1, <2>2, <3>1, <4>1 DEF SameStage
        <4> QED
          BY <1>0, <2>1, <4>2, <4>3 DEF PostOK, SameBlock, SameStage
      <3> QED
        BY <1>2, <2>1, <3>1 DEF SameStage
    <2>3. \A b \in Blocks : SameBlock(b) \/ b \notin allocated
      <3>1. CASE CreatePublish(t)
        BY <1>0, <3>1, CreateEffect DEF SameBlock
      <3>2. CASE ~CreatePublish(t)
        BY <1>0, <1>3, <3>2, SameBlockStep DEF Turns, Writes
      <3> QED
        BY <3>1, <3>2
    <2> QED
      BY <1>1, <2>1, <2>2, <2>3, PostFrame
  <1>4. CASE SendCopy(t) \/ SendSize(t) \/ SendReady(t) \/ SendDiscard(t)
    <2>1. /\ pc[t] \in Working /\ callbacks' = callbacks
          /\ \A b \in Blocks : SameBlock(b) \/ b = ts[t]
      BY <1>0, <1>4, SenderEffect DEF OnlyLevel, SameBlock, Working, Posting
    <2>2. PostOK(t)'
      <3>1. CASE pc[t] = "send_copy"
        BY <1>0, <1>2, <1>4, <3>1, SenderEffect DEF Posted, Asked
      <3>4. CASE pc[t] = "send_size"
        BY <1>0, <1>4, <3>4, SenderEffect DEF OnlyLevel, PostOK, Posted, Asked
      <3>2. CASE pc[t] = "send_ready"
        BY <1>0, <1>4, <3>2, SenderEffect DEF OnlyLevel, PostOK, Posted, Asked
      <3>3. CASE pc[t] = "send_discard"
        BY <1>0, <1>2, <1>4, <3>3, SenderEffect DEF Posted, Asked
      <3> QED
        BY <1>0, <1>4, <3>1, <3>2, <3>3, <3>4, SenderEffect
    <2> QED
      BY <1>1, <2>1, <2>2, PostFrame
  <1>5. CASE SendRcu(t) \/ AwakeRcu(t)
    <2>1. /\ UNCHANGED <<svc, level>> /\ pc'[t] = "idle"
          /\ \A b \in Blocks : SameBlock(b)
      BY <1>0, <1>5, QueueEffect DEF SameBlock
    <2>2. PostOK(t)'
      BY <1>2, <2>1 DEF Posted, Asked
    <2>3. ASSUME NEW c \in callbacks', c \notin callbacks
          PROVE  CallbackOK(c)'
      <3>1. /\ c.block = ts[t]
            /\ \/ /\ pc[t] = "send_rcu" /\ c.fn = "free_after_send"
                  /\ c.level = local[t].level
               \/ pc[t] = "aw_rcu" /\ c.fn = "reset_awake_condition"
        BY <1>0, <1>5, <2>3, QueueEffect
      <3>2. pc[t] = "send_rcu" => local[t].buffer \in Messages
        BY <1>0, SenderKnows DEF Posted
      <3> QED
        BY <1>0, <2>1, <3>1, <3>2 DEF CallbackOK, PostOK, Posted, Asked
    <2> QED
      BY <2>1, <2>2, <2>3, PostFrame
  <1>6. CASE AwakeSet(t) \/ AwakeReset(t)
    <2>1. /\ pc[t] \in Working /\ callbacks' = callbacks
          /\ \A b \in Blocks : SameBlock(b) \/ b = ts[t]
      BY <1>0, <1>6, RequestEffect DEF OnlyRequest, SameBlock, Working, Awaking
    <2>2. PostOK(t)'
      BY <1>0, <1>2, <1>6, RequestEffect DEF OnlyRequest, PostOK, Posted, Asked
    <2> QED
      BY <1>1, <2>1, <2>2, PostFrame
  <1>7. CASE ReadingStep(t)
    <2>1. \A b \in Blocks : SameBlock(b)
      BY <1>0, <1>7, ReadingKeeps
    <2>2. PostOK(t)'
      BY <1>0, <1>2, <1>7, ReceiverEffect
    <2>3. \A c \in callbacks' : \E cb \in callbacks :
            c.fn = cb.fn /\ c.block = cb.block /\ c.level = cb.level
      BY <1>0, <1>1, <1>7, ReceiverEffect, UnlockKeeps
    <2> QED
      BY <2>1, <2>2, <2>3, PostFrame
  <1> QED
    BY <1>3, <1>4, <1>5, <1>6, <1>7 DEF Turns

LEMMA PostCallback ==
  ASSUME SafeInv, PostInv, NEW cb \in callbacks, Callback(cb) PROVE PostInv'
  <1>0. TypeInv
    BY DEF SafeInv, LifeInv
  <1>1. /\ cb.block \in Blocks /\ callbacks' = callbacks \ {cb}
        /\ UNCHANGED threadVars
        /\ \A b \in Blocks : SameBlock(b) \/ b = cb.block
    BY <1>0, CallbackEffect DEF OnlyLevel, OnlyRequest, SameBlock
  <1>2. ASSUME NEW u \in Threads PROVE PostOK(u)'
    <2>1. CASE pc[u] \in Posted \cup Asked \cup {"send_ready"}
      <3>1. pc[u] \in Working /\ ts[u] \in Blocks /\ ts[u] # cb.block
        BY <2>1, ExchangesWork, WorkerHolds, OneWorker
      <3>2. pc[u] \in Posted \cup {"send_ready"} => local[u].level \in Levels
        BY <1>0, SenderKnows
      <3> QED
        BY <1>1, <3>1, <3>2 DEF PostInv, PostOK, SameBlock, threadVars
    <2> QED
      BY <1>1, <2>1 DEF PostOK, threadVars
  <1>3. ASSUME NEW c \in callbacks' PROVE CallbackOK(c)'
    <2>1. c \in callbacks /\ c.block # cb.block
      BY <1>1 DEF SafeInv, LockHandOver, CallbackTag
    <2>2. c.block \in Blocks /\ c.level \in Levels
      BY <1>0, <2>1 DEF TypeInv, TypeOK, KernelTypeOK, Callbacks
    <2> QED
      BY <1>1, <2>1, <2>2 DEF PostInv, CallbackOK, SameBlock
  <1> QED
    BY <1>2, <1>3 DEF PostInv

\* With the locks and the life of the services, all that the exchange needs.
ExchangeInv == SafeInv /\ WindowInv /\ PostInv

LEMMA ExchangeInit == Init => ExchangeInv
  <1>1. Init => PostInv
    BY DEF Init, PostInv, PostOK, Posted, Asked
  <1> QED
    BY <1>1, SafeInit, WindowInit DEF ExchangeInv

LEMMA ExchangeStep ==
  ASSUME ExchangeInv, TagsKept, [Next]_vars PROVE ExchangeInv'
  <1>1. SafeInv' /\ WindowInv'
    BY SafeStep, WindowStep DEF ExchangeInv
  <1>2. TypeInv
    BY DEF ExchangeInv, WindowInv
  <1>3. PostInv'
    <2>1. ASSUME NEW t \in Threads,
                 Call(t) \/ Step(t) \/ MutexLock(t) \/ Signal(t)
          PROVE  PostInv'
      <3>1. OthersSame(t)
        BY <1>2, <2>1, OthersStep
      <3> QED
        BY <2>1, <3>1, PostThread DEF ExchangeInv
    <2>2. CASE RunCallback
      BY <2>2, PostCallback DEF RunCallback, ExchangeInv
    <2>3. CASE UNCHANGED vars
      BY <2>3 DEF ExchangeInv, PostInv, PostOK, CallbackOK, vars, kernelVars,
         threadVars, heap
    <2> QED
      BY <2>1, <2>2, <2>3 DEF Next
  <1> QED
    BY <1>1, <1>3 DEF ExchangeInv

LEMMA ExchangeAlways == Spec /\ [][TagsKept]_vars => []ExchangeInv
  <1>1. ExchangeInv /\ [Next]_vars /\ [TagsKept]_vars => ExchangeInv'
    <2>1. UNCHANGED vars => TagsKept
      BY DEF vars, kernelVars, heap, TagsKept
    <2> QED
      BY <2>1, ExchangeStep
  <1> QED
    BY <1>1, ExchangeInit, PTL DEF Spec

\* While free_after_send is queued, neither a sender nor a callback takes the
\* posted message or its READY flag away.
THEOREM ReadersProtected == Spec /\ [][TagsKept]_vars => []ReaderProtected
  <1>1. ExchangeInv => ReaderProtected
    BY DEF ExchangeInv, PostInv, CallbackOK, ReaderProtected
  <1> QED
    BY <1>1, ExchangeAlways, PTL

\* The sender that copies its message finds the level empty.
LEMMA EmptyLevel ==
  ASSUME ExchangeInv, NEW t \in Threads, pc[t] \in Working \ Posted
  PROVE  \A l \in Levels : ~level[ts[t]][l].message_ready
  <1>1. /\ ts[t] \in Blocks
        /\ \A cb \in callbacks : cb.block # ts[t]
        /\ \A u \in Threads : pc[u] \in Posted => ts[u] # ts[t]
    BY WorkerHolds, OneWorker, ExchangesWork DEF ExchangeInv
  <1> QED
    BY <1>1 DEF ExchangeInv, WindowInv, ExchangeWindow

\* What is behind a READY flag is a message, whole.
LEMMA ReadyMessage ==
  ASSUME ExchangeInv, NEW b \in Blocks, NEW l \in Levels,
         level[b][l].message_ready
  PROVE  level[b][l].message \in Messages
  <1>1. \/ \E t \in Threads : Posts(t, b, l)
        \/ \E cb \in callbacks : PostPending(cb, b, l)
    BY DEF ExchangeInv, WindowInv, ExchangeWindow, Posts, PostPending
  <1>2. ASSUME NEW t \in Threads, Posts(t, b, l)
        PROVE  level[b][l].message \in Messages
    <2>1. TypeInv /\ PostOK(t)
      BY DEF ExchangeInv, WindowInv, PostInv
    <2> QED
      BY <1>2, <2>1, SenderKnows DEF Posts, PostOK
  <1>3. ASSUME NEW cb \in callbacks, PostPending(cb, b, l)
        PROVE  level[b][l].message \in Messages
    BY <1>3 DEF PostPending, ExchangeInv, PostInv, CallbackOK
  <1> QED
    BY <1>1, <1>2, <1>3

\* Nobody overwrites a posted message before its flag is taken back.
THEOREM MessagesStable == Spec /\ [][TagsKept]_vars => MessageStable
  <1> DEFINE Stable == \A b \in Blocks, l \in Levels :
               level[b][l].message_ready /\ level'[b][l].message_ready
                 => level'[b][l].message = level[b][l].message
  <1>1. ExchangeInv /\ [Next]_vars => [Stable]_vars
    <2> SUFFICES ASSUME ExchangeInv, Next PROVE Stable
      OBVIOUS
    <2>0. TypeInv
      BY DEF ExchangeInv, WindowInv
    <2>1. (\A b \in Blocks : SameBlock(b)) => Stable
      BY DEF SameBlock
    <2>2. ASSUME NEW t \in Threads,
                 Call(t) \/ Step(t) \/ MutexLock(t) \/ Signal(t)
          PROVE  Stable
      <3>1. CASE ~Writes(t)
        BY <2>0, <2>1, <2>2, <3>1, SameBlockStep
      <3>2. CASE CreatePublish(t)
        BY <2>0, <3>2, CreateEffect
      <3>3. CASE AwakeSet(t) \/ AwakeReset(t)
        BY <2>0, <3>3, RequestEffect
      <3>4. CASE SendCopy(t) \/ SendSize(t)
        <4>1. /\ pc[t] \in {"send_copy", "send_size"}
              /\ local[t].level \in Levels
              /\ \E m, r : OnlyLevel(ts[t], local[t].level, m, r)
          BY <2>0, <3>4, SenderEffect DEF SendCopy, SendSize, At
        <4>2. ~level[ts[t]][local[t].level].message_ready
          BY <4>1, EmptyLevel DEF Working, Posting, Posted
        <4> QED
          BY <4>1, <4>2 DEF OnlyLevel
      <3>5. CASE SendReady(t)
        <4>1. pc[t] = "send_ready"
          BY <3>5 DEF SendReady, At
        <4>2. OnlyLevel(ts[t], local[t].level,
                        level[ts[t]][local[t].level].message, TRUE)
          BY <2>0, <3>5, <4>1, SenderEffect
        <4> QED
          BY <4>2 DEF OnlyLevel
      <3>6. CASE SendDiscard(t)
        <4>1. pc[t] = "send_discard"
          BY <3>6 DEF SendDiscard, At
        <4>2. OnlyLevel(ts[t], local[t].level, ZERO, FALSE)
          BY <2>0, <3>6, <4>1, SenderEffect
        <4> QED
          BY <4>2 DEF OnlyLevel
      <3> QED
        BY <3>1, <3>2, <3>3, <3>4, <3>5, <3>6 DEF Writes
    <2>3. CASE RunCallback
      <3>1. PICK cb \in callbacks : Callback(cb)
        BY <2>3 DEF RunCallback
      <3> QED
        BY <2>0, <3>1, CallbackEffect DEF OnlyLevel
    <2> QED
      BY <2>2, <2>3 DEF Next
  <1> QED
    BY <1>1, ExchangeAlways, PTL DEF Spec, MessageStable
=============================================================================
