---------------------------- MODULE TagLockProofs ----------------------------
(***************************************************************************)
(* How the mutexes pass between threads and RCU callbacks, and how the     *)
(* services keep the tag they were found under: steps of the invariant     *)
(* that TagLifeProofs puts together.                                       *)
(*                                                                         *)
(* All of it holds as long as kzalloc does not hand out a block under      *)
(* another tag while somebody still refers to it (TagsKept).  kzalloc may  *)
(* do that in the code, and then two threads that hold different mutexes   *)
(* may work on one service.                                                *)
(***************************************************************************)
EXTENDS TagServiceProofs

-----------------------------------------------------------------------------
\* The inductive invariant.  tag_send unlocks the tag it was called with, but
\* the callbacks and tag_ctl unlock the tag they read from the service: both
\* are the same lock only because a service that somebody refers to keeps
\* the tag under which it was found in the table.

\* Threads that found their service at the entry local[t].tag.
FoundByTag(t) == \/ pc[t] \in SendLabels \cup CtlLabels \cup RemoveLabels
                 \/ pc[t] \in Finding /\ local[t].op = "REMOVE_TAG"

TableOK == \A x \in Tags : all_tag_services[x] # NULL =>
             /\ all_tag_services[x] \in allocated
             /\ svc[all_tag_services[x]].tag = x

TagKnown(t) ==
  /\ FoundByTag(t) => svc[ts[t]].tag = local[t].tag
  /\ pc[t] \in CtlLabels \ {"ctl_addr"} => local[t].lock = local[t].tag

UnlinkedOK(t) == Unlinked(t) => \A x \in Tags : all_tag_services[x] # ts[t]

LifeInv == /\ TypeInv
           /\ TableOK
           /\ \A t \in Threads : TagKnown(t) /\ UnlinkedOK(t)

LockInv == LifeInv /\ LockHandOver

\* A block that is allocated or that somebody points to keeps its tag.
Referenced(b) == \/ b \in allocated
                 \/ \E t \in Threads : ts[t] = b
                 \/ \E cb \in callbacks : cb.block = b
TagsKept == \A b \in Blocks : Referenced(b) => svc'[b].tag = svc[b].tag

\* A step of t leaves the program counter, the locals and the result of the
\* others alone.
OthersSame(t) == \A u \in Threads \ {t} :
  pc'[u] = pc[u] /\ ts'[u] = ts[u] /\ local'[u] = local[u] /\ ret'[u] = ret[u]

-----------------------------------------------------------------------------
LEMMA OthersStep ==
  ASSUME TypeInv, NEW t \in Threads,
         Call(t) \/ Step(t) \/ MutexLock(t) \/ Signal(t)
  PROVE  OthersSame(t)
  <1> USE DEF OthersSame, TypeInv, TypeOK, ThreadTypeOK
  <1>1. CASE Call(t)
    BY <1>1 DEF Call, TagGet, TagGetInvalid, TagSend, TagReceive, TagCtl,
       Enter, Refuse
  <1>2. CASE MutexLock(t) \/ Signal(t) \/ LockOutOfBounds(t)
    BY <1>2 DEF MutexLock, Signal, LockOutOfBounds, Oops, Goto
  <1>3. CASE TagGetStep(t)
    <2>1. CASE FindFirstEntryAvailable(t)
      BY <2>1 DEF FindFirstEntryAvailable, FindTest, FindFull, FindScanTaken,
         FindScanFree, FindRet, FindReturns, Goto, Return
    <2>2. CASE ~FindFirstEntryAvailable(t)
      BY <1>3, <2>2 DEF TagGetStep, CreateTaken, CreateNoMemory,
         CreatePublish, CreateDec, DeviceLoad, DeviceFill, OpenMissing,
         OpenFound, OpenLoad, OpenNull, OpenCheck, Oops, Goto, Return
    <2> QED
      BY <2>1, <2>2
  <1>4. CASE TagSendStep(t)
    BY <1>4 DEF TagSendStep, SendRefused, SendAccepted, SendCopy, SendSize,
       SendReady, SendTest, SendWake, SendRcu, SendDiscard, Goto, Return
  <1>5. CASE TagReceiveStep(t)
    BY <1>5 DEF TagReceiveStep, ReceiveRefused, ReceiveAccepted,
       ReceiveEnter, ReceiveAwake, ReceiveSleep, ReceiveLock,
       ReceiveNothing, ReceiveMessage, ReceiveCopy, ReceiveRest, ReceiveUnlock,
       ReceiveDec, ReceiveDecLevel, Goto, Return
  <1>6. CASE TagCtlStep(t)
    BY <1>6 DEF TagCtlStep, CtlAddress, CtlRefused, RemoveBusy, RemoveTest,
       CtlAccepted, RemoveMark, RemoveUnlink, RemoveInc, RemoveFree,
       AwakeCount, AwakeSet, AwakeWake, AwakeRcu, AwakeReset, Goto, Return
  <1> QED
    BY <1>1, <1>2, <1>3, <1>4, <1>5, <1>6 DEF Step

\* The fields of a service that say what it is and to whom it belongs.
SameService(b) == /\ svc'[b].tag = svc[b].tag
                  /\ svc'[b].permission = svc[b].permission
                  /\ svc'[b].owner_euid = svc[b].owner_euid
                  /\ svc'[b].lazy_deleted = svc[b].lazy_deleted

\* Only tag_get and REMOVE_TAG write these fields.
LEMMA SameServiceStep ==
  ASSUME TypeInv, NEW t \in Threads,
         Call(t) \/ Step(t) \/ MutexLock(t) \/ Signal(t),
         ~CreatePublish(t), ~RemoveMark(t)
  PROVE  \A b \in Blocks : SameService(b)
  <1>1. CASE \/ ReceiveEnter(t) \/ ReceiveDec(t)
             \/ AwakeSet(t) \/ AwakeReset(t)
    <2>1. PICK r : /\ svc' = [svc EXCEPT ![ts[t]] = r]
                   /\ \/ \E n : r = [svc[ts[t]] EXCEPT
                                      !.thread_waiting_message_count = n]
                      \/ \E v : r = [svc[ts[t]] EXCEPT !.awake_request = v]
      BY <1>1 DEF ReceiveEnter, ReceiveDec, AwakeSet, AwakeReset
    <2>2. svc \in [Blocks -> Services]
      BY DEF TypeInv, TypeOK, KernelTypeOK
    <2>3. ts[t] \in Blocks => /\ r.tag = svc[ts[t]].tag
                              /\ r.permission = svc[ts[t]].permission
                              /\ r.owner_euid = svc[ts[t]].owner_euid
                              /\ r.lazy_deleted = svc[ts[t]].lazy_deleted
      BY <2>1, <2>2 DEF Services
    <2> QED
      BY <2>1, <2>2, <2>3 DEF SameService
  <1>2. CASE svc' = svc
    BY <1>2 DEF SameService
  <1>3. CASE Call(t) \/ MutexLock(t) \/ Signal(t)
    BY <1>2, <1>3 DEF Call, TagGet, TagGetInvalid, TagSend, TagReceive,
       TagCtl, MutexLock, Signal, kernelVars, heap
  <1>4. CASE TagGetStep(t)
    BY <1>2, <1>4 DEF TagGetStep, FindFirstEntryAvailable, FindTest, FindFull,
       FindScanTaken, FindScanFree, FindRet, CreateTaken, CreateNoMemory,
       CreateDec, DeviceLoad, DeviceFill, OpenMissing, OpenFound, OpenLoad,
       OpenNull, OpenCheck, kernelVars, heap
  <1>5. CASE TagSendStep(t) \/ LockOutOfBounds(t)
    BY <1>2, <1>5 DEF TagSendStep, SendRefused, SendAccepted, SendCopy,
       SendSize, SendReady, SendTest, SendWake, SendRcu, SendDiscard,
       LockOutOfBounds,
       kernelVars, heap
  <1>6. CASE TagReceiveStep(t)
    BY <1>1, <1>2, <1>6 DEF TagReceiveStep, ReceiveRefused, ReceiveAccepted,
       ReceiveAwake, ReceiveSleep, ReceiveLock, ReceiveNothing,
       ReceiveMessage, ReceiveCopy, ReceiveRest, ReceiveUnlock,
       ReceiveDecLevel, kernelVars, heap
  <1>7. CASE TagCtlStep(t)
    BY <1>1, <1>2, <1>7 DEF TagCtlStep, CtlAddress, CtlRefused, RemoveBusy,
       RemoveTest, RemoveUnlink, RemoveInc, RemoveFree, AwakeCount,
       AwakeWake, AwakeRcu, kernelVars, heap
  <1> QED
    BY <1>3, <1>4, <1>5, <1>6, <1>7 DEF Step

LEMMA SameServiceCallback ==
  ASSUME TypeInv, RunCallback PROVE \A b \in Blocks : SameService(b)
  <1>1. svc \in [Blocks -> Services]
    BY DEF TypeInv, TypeOK, KernelTypeOK
  <1>2. PICK cb \in callbacks : \/ svc' = svc
                               \/ svc' = [svc EXCEPT ![cb.block] =
                                   [svc[cb.block] EXCEPT !.awake_request = FALSE]]
    BY DEF RunCallback, Callback, free_after_send, reset_awake_condition
  <1> QED
    BY <1>1, <1>2 DEF SameService, Services

\* Only tag_get writes the tag of a block, and only of a block that nobody
\* refers to.
LEMMA NoReuseStep ==
  ASSUME TypeInv, Recycle = FALSE, Next PROVE TagsKept
  <1>1. ASSUME NEW t \in Threads, CreatePublish(t) PROVE TagsKept
    <2>1. PICK b \in FreshBlocks : \E r : svc' = [svc EXCEPT ![b] = r]
      BY <1>1 DEF CreatePublish
    <2>2. ~Referenced(b)
      BY DEF FreshBlocks, Referenced
    <2> QED
      BY <2>1, <2>2 DEF TagsKept, TypeInv, TypeOK, KernelTypeOK
  <1>2. ASSUME NEW t \in Threads, RemoveMark(t) PROVE TagsKept
    <2>1. svc' = [svc EXCEPT ![ts[t]] =
                    [svc[ts[t]] EXCEPT !.lazy_deleted = TRUE]]
      BY <1>2 DEF RemoveMark
    <2> QED
      BY <2>1 DEF TagsKept, TypeInv, TypeOK, KernelTypeOK, Services
  <1> QED
    BY <1>1, <1>2, SameServiceStep, SameServiceCallback
       DEF TagsKept, SameService, Next

\* kzalloc reuses no block that somebody refers to, or has no other tag to
\* reuse it for.
NoForeignReuse == Recycle = FALSE \/ MAX_TAG_SERVICES = 1

LEMMA TagsKeptStep ==
  ASSUME TypeInv, NoForeignReuse, [Next]_vars PROVE TagsKept
  <1>1. CASE MAX_TAG_SERVICES = 1
    <2>1. \A b \in Blocks : svc[b].tag = 0 /\ svc'[b].tag = 0
      BY <1>1, TypeStep DEF TypeInv, TypeOK, KernelTypeOK, Services, Tags
    <2> QED
      BY <2>1 DEF TagsKept
  <1>2. CASE Recycle = FALSE /\ Next
    BY <1>2, NoReuseStep
  <1>3. CASE UNCHANGED vars
    BY <1>3 DEF vars, kernelVars, heap, TagsKept
  <1> QED
    BY <1>1, <1>2, <1>3 DEF NoForeignReuse

-----------------------------------------------------------------------------
\* The five ways in which a step meets LockHandOver.

\* A pending callback keeps the tag it will unlock.
LEMMA CallbackTagKept ==
  ASSUME TypeInv, TagsKept, NEW cb \in callbacks
  PROVE  /\ cb.block \in Blocks
         /\ svc'[cb.block].tag = CallbackTag(cb)
  BY DEF TypeInv, TypeOK, KernelTypeOK, Callbacks, TagsKept, Referenced,
     CallbackTag

\* Nothing happens to the mutexes, and t keeps what it holds (or is lost).
LEMMA LockKept ==
  ASSUME TypeInv, LockHandOver, TagsKept, NEW t \in Threads, OthersSame(t),
         access_lock' = access_lock,
         callbacks' = callbacks \/ ReadUnlock(t),
         InCS(t)' => InCS(t) /\ Held(t)' = Held(t),
         InCS(t) => InCS(t)' \/ pc'[t] = "oops",
         pc[t] = "oops" => pc'[t] = "oops"
  PROVE  LockHandOver'
  <1> USE DEF At
  <1>1. \A u \in Threads : InCS(u)' => access_lock'[Held(u)'] = u
    <2> SUFFICES ASSUME NEW u \in Threads, InCS(u)'
                 PROVE  access_lock'[Held(u)'] = u
      OBVIOUS
    <2>1. InCS(u) /\ Held(u)' = Held(u)
      BY DEF OthersSame, InCS, Held
    <2> QED
      BY <2>1 DEF LockHandOver
  <1>0. \A cb \in callbacks : [cb EXCEPT !.readers = @ \ {t}].block = cb.block
    BY DEF TypeInv, TypeOK, KernelTypeOK, Callbacks
  <1>2. \A c2 \in callbacks' : \E cb \in callbacks : c2.block = cb.block
    <2>1. CASE callbacks' = callbacks
      BY <2>1
    <2>2. CASE ReadUnlock(t)
      BY <1>0, <2>2 DEF ReadUnlock
    <2> QED
      BY <2>1, <2>2
  <1>3. ASSUME NEW cb \in callbacks
        PROVE  \E c2 \in callbacks' : c2.block = cb.block
    <2>1. CASE callbacks' = callbacks
      BY <2>1
    <2>2. CASE ReadUnlock(t)
      <3>1. [cb EXCEPT !.readers = @ \ {t}] \in callbacks'
        BY <2>2 DEF ReadUnlock
      <3> QED
        BY <1>0, <3>1
    <2> QED
      BY <2>1, <2>2
  <1>4. \A c2 \in callbacks' : access_lock'[CallbackTag(c2)'] = RCU
    BY <1>2, CallbackTagKept DEF LockHandOver, CallbackTag
  <1>5. \A c2, c3 \in callbacks' : CallbackTag(c2)' = CallbackTag(c3)' => c2 = c3
    <2> SUFFICES ASSUME NEW c2 \in callbacks', NEW c3 \in callbacks',
                        CallbackTag(c2)' = CallbackTag(c3)'
                 PROVE  c2 = c3
      OBVIOUS
    <2>1. CASE callbacks' = callbacks
      BY <2>1, CallbackTagKept DEF LockHandOver, CallbackTag
    <2>2. CASE ReadUnlock(t)
      <3>1. PICK d2 \in callbacks : c2 = [d2 EXCEPT !.readers = @ \ {t}]
        BY <2>2 DEF ReadUnlock
      <3>2. PICK d3 \in callbacks : c3 = [d3 EXCEPT !.readers = @ \ {t}]
        BY <2>2 DEF ReadUnlock
      <3>3. c2.block = d2.block /\ c3.block = d3.block
        BY <1>0, <3>1, <3>2
      <3>4. d2 = d3
        BY <3>3, CallbackTagKept DEF LockHandOver, CallbackTag
      <3> QED
        BY <3>1, <3>2, <3>4
    <2> QED
      BY <2>1, <2>2
  <1>6. ASSUME NEW x \in Tags
        PROVE  \/ access_lock'[x] = FREE
               \/ access_lock'[x] = RCU
                  /\ \E cb \in callbacks' : CallbackTag(cb)' = x
               \/ \E u \in Threads :
                    /\ access_lock'[x] = u
                    /\ (InCS(u)' /\ Held(u)' = x) \/ At(u, "oops")'
    <2>1. CASE access_lock[x] = RCU /\ \E cb \in callbacks : CallbackTag(cb) = x
      BY <1>3, <2>1, CallbackTagKept DEF CallbackTag
    <2>2. CASE \E u \in Threads : /\ access_lock[x] = u
                                  /\ (InCS(u) /\ Held(u) = x) \/ At(u, "oops")
      BY <2>2 DEF OthersSame, InCS, Held
    <2> QED
      BY <2>1, <2>2 DEF LockHandOver
  <1> QED
    BY <1>1, <1>4, <1>5, <1>6 DEF LockHandOver

\* t, which is outside any critical section, takes a free mutex.
LEMMA LockTaken ==
  ASSUME TypeInv, LockHandOver, TagsKept, NEW t \in Threads, OthersSame(t),
         NEW x \in Tags, access_lock[x] = FREE,
         access_lock' = [access_lock EXCEPT ![x] = t],
         callbacks' = callbacks,
         ~InCS(t), pc[t] # "oops", Held(t)' = x, InCS(t)'
  PROVE  LockHandOver'
  <1> USE ThreadAssumption DEF At
  <1>0. access_lock \in [Tags -> Threads \cup {FREE, RCU}] /\ FREE # RCU
    BY DEF TypeInv, TypeOK, KernelTypeOK, FREE, RCU
  <1>1. ASSUME NEW u \in Threads, InCS(u)' PROVE access_lock'[Held(u)'] = u
    <2>1. CASE u = t
      BY <1>0, <2>1
    <2>2. CASE u # t
      <3>1. InCS(u) /\ Held(u)' = Held(u)
        BY <1>1, <2>2 DEF OthersSame, InCS, Held
      <3> QED
        BY <1>0, <3>1 DEF LockHandOver
    <2> QED
      BY <2>1, <2>2
  <1>2. \A cb \in callbacks : CallbackTag(cb)' = CallbackTag(cb)
    BY CallbackTagKept DEF CallbackTag
  <1>3. \A cb \in callbacks' : access_lock'[CallbackTag(cb)'] = RCU
    BY <1>0, <1>2 DEF LockHandOver
  <1>4. ASSUME NEW y \in Tags
        PROVE  \/ access_lock'[y] = FREE
               \/ access_lock'[y] = RCU
                  /\ \E cb \in callbacks' : CallbackTag(cb)' = y
               \/ \E u \in Threads :
                    /\ access_lock'[y] = u
                    /\ (InCS(u)' /\ Held(u)' = y) \/ At(u, "oops")'
    <2>1. CASE y = x
      BY <1>0, <2>1
    <2>2. CASE y # x
      <3>1. access_lock'[y] = access_lock[y]
        BY <1>0, <2>2
      <3>2. CASE \E u \in Threads : /\ access_lock[y] = u
                                    /\ \/ InCS(u) /\ Held(u) = y
                                       \/ At(u, "oops")
        BY <3>1, <3>2 DEF OthersSame, InCS, Held
      <3> QED
        BY <1>2, <3>1, <3>2 DEF LockHandOver
    <2> QED
      BY <2>1, <2>2
  <1> QED
    BY <1>1, <1>2, <1>3, <1>4 DEF LockHandOver

\* t gives back the mutex it holds: to nobody, or to a callback it queues.
LEMMA LockGiven ==
  ASSUME TypeInv, LockHandOver, TagsKept, NEW t \in Threads, OthersSame(t),
         InCS(t), NEW x \in Tags, Held(t) = x, ~InCS(t)',
         \/ /\ access_lock' = [access_lock EXCEPT ![x] = FREE]
            /\ callbacks' = callbacks
         \/ /\ access_lock' = [access_lock EXCEPT ![x] = RCU]
            /\ \E c : /\ callbacks' = callbacks \cup {c}
                      /\ svc'[c.block].tag = x
  PROVE  LockHandOver'
  <1> USE ThreadAssumption DEF At
  <1>0. /\ access_lock \in [Tags -> Threads \cup {FREE, RCU}]
        /\ access_lock[x] = t /\ FREE # RCU /\ t # RCU
        /\ pc[t] # "oops"
    BY DEF TypeInv, TypeOK, KernelTypeOK, FREE, RCU, LockHandOver, InCS,
       TagCS, CtlCS
  <1>1. ASSUME NEW u \in Threads, InCS(u)' PROVE access_lock'[Held(u)'] = u
    <2>1. u # t /\ InCS(u) /\ Held(u)' = Held(u)
      BY <1>1 DEF OthersSame, InCS, Held
    <2>2. access_lock[Held(u)] = u
      BY <2>1 DEF LockHandOver
    <2>3. Held(u) # x
      BY <1>0, <2>1, <2>2
    <2>4. access_lock'[Held(u)] = access_lock[Held(u)]
      <3>1. PICK o : access_lock' = [access_lock EXCEPT ![x] = o]
        OBVIOUS
      <3>2. Held(u) \in Tags
        BY <2>1 DEF Held, InCS, TypeInv, TypeOK, ThreadTypeOK, ControlOK,
           Knows, Locals
      <3> QED
        BY <1>0, <2>3, <3>1, <3>2
    <2> QED
      BY <2>1, <2>2, <2>4
  <1>2. \A cb \in callbacks : /\ CallbackTag(cb)' = CallbackTag(cb)
                              /\ access_lock[CallbackTag(cb)] = RCU
                              /\ CallbackTag(cb) # x
    BY <1>0, CallbackTagKept DEF CallbackTag, LockHandOver
  <1>3. ASSUME NEW cb \in callbacks' PROVE access_lock'[CallbackTag(cb)'] = RCU
    <2>1. CASE cb \in callbacks
      <3>1. /\ CallbackTag(cb)' = CallbackTag(cb) /\ CallbackTag(cb) # x
            /\ access_lock[CallbackTag(cb)] = RCU
        BY <1>2, <2>1
      <3>2. CallbackTag(cb) \in Tags
        BY <2>1 DEF CallbackTag, TypeInv, TypeOK, KernelTypeOK, Callbacks,
           Services
      <3>3. PICK o : access_lock' = [access_lock EXCEPT ![x] = o]
        OBVIOUS
      <3> QED
        BY <1>0, <3>1, <3>2, <3>3
    <2>2. CASE cb \notin callbacks
      BY <1>0, <1>3, <2>2 DEF CallbackTag
    <2> QED
      BY <2>1, <2>2
  <1>4. \A cb, c2 \in callbacks' : CallbackTag(cb)' = CallbackTag(c2)' => cb = c2
    BY <1>2 DEF LockHandOver, CallbackTag
  <1>5. ASSUME NEW y \in Tags
        PROVE  \/ access_lock'[y] = FREE
               \/ access_lock'[y] = RCU
                  /\ \E cb \in callbacks' : CallbackTag(cb)' = y
               \/ \E u \in Threads :
                    /\ access_lock'[y] = u
                    /\ (InCS(u)' /\ Held(u)' = y) \/ At(u, "oops")'
    <2>1. CASE y = x
      BY <1>0, <2>1 DEF CallbackTag
    <2>2. CASE y # x
      <3>1. access_lock'[y] = access_lock[y]
        BY <1>0, <2>2
      <3>2. CASE \E u \in Threads : /\ access_lock[y] = u
                                    /\ \/ InCS(u) /\ Held(u) = y
                                       \/ At(u, "oops")
        <4>1. PICK u \in Threads : /\ access_lock[y] = u
                                   /\ \/ InCS(u) /\ Held(u) = y
                                      \/ At(u, "oops")
          BY <3>2
        <4>2. u # t
          BY <1>0, <2>2, <4>1
        <4> QED
          BY <3>1, <4>1, <4>2 DEF OthersSame, InCS, Held
      <3> QED
        BY <1>2, <3>1, <3>2 DEF LockHandOver
    <2> QED
      BY <2>1, <2>2
  <1> QED
    BY <1>1, <1>3, <1>4, <1>5 DEF LockHandOver

\* A callback gives back the mutex it was handed.
LEMMA LockReturned ==
  ASSUME TypeInv, LockHandOver, TagsKept, UNCHANGED threadVars,
         NEW c \in callbacks, callbacks' = callbacks \ {c},
         access_lock' = [access_lock EXCEPT ![CallbackTag(c)] = FREE]
  PROVE  LockHandOver'
  <1> USE ThreadAssumption DEF At, threadVars
  <1>0. /\ access_lock \in [Tags -> Threads \cup {FREE, RCU}]
        /\ access_lock[CallbackTag(c)] = RCU /\ FREE # RCU
    BY DEF TypeInv, TypeOK, KernelTypeOK, FREE, RCU, LockHandOver
  <1>1. ASSUME NEW u \in Threads, InCS(u)' PROVE access_lock'[Held(u)'] = u
    <2>1. InCS(u) /\ Held(u)' = Held(u)
      BY <1>1 DEF InCS, Held
    <2> QED
      BY <1>0, <2>1 DEF LockHandOver
  <1>2. \A cb \in callbacks : CallbackTag(cb)' = CallbackTag(cb)
    BY CallbackTagKept DEF CallbackTag
  <1>3. \A cb \in callbacks' : access_lock'[CallbackTag(cb)'] = RCU
    BY <1>0, <1>2 DEF LockHandOver
  <1>4. ASSUME NEW y \in Tags
        PROVE  \/ access_lock'[y] = FREE
               \/ access_lock'[y] = RCU
                  /\ \E cb \in callbacks' : CallbackTag(cb)' = y
               \/ \E u \in Threads :
                    /\ access_lock'[y] = u
                    /\ (InCS(u)' /\ Held(u)' = y) \/ At(u, "oops")'
    <2>1. CASE y = CallbackTag(c)
      BY <1>0, <2>1
    <2>2. CASE y # CallbackTag(c)
      BY <1>0, <1>2, <2>2 DEF LockHandOver, InCS, Held
    <2> QED
      BY <2>1, <2>2
  <1> QED
    BY <1>1, <1>2, <1>3, <1>4 DEF LockHandOver

-----------------------------------------------------------------------------
\* LifeInv is inductive.

\* A service keeps its tag for whoever points to it.
LEMMA PointedTagKept ==
  ASSUME TypeInv, TagsKept, NEW t \in Threads, ts[t] \in Blocks
  PROVE  svc'[ts[t]].tag = svc[ts[t]].tag
  BY DEF TagsKept, Referenced

\* The threads that do not move.
LEMMA OthersLife ==
  ASSUME LifeInv, TagsKept, NEW t \in Threads, OthersSame(t),
         NEW u \in Threads \ {t},
         Unlinked(u) =>
           \A x \in Tags : \/ all_tag_services'[x] \in {all_tag_services[x], NULL}
                          \/ all_tag_services'[x] # ts[u]
  PROVE  TagKnown(u)' /\ UnlinkedOK(u)'
  <1>1. FoundByTag(u) => ts[u] \in Blocks
    BY DEF FoundByTag, LifeInv, TypeInv, ControlOK, Knows, CtlLabels,
       RemoveLabels
  <1>2. TagKnown(u)'
    BY <1>1, PointedTagKept DEF LifeInv, OthersSame, TagKnown, FoundByTag
  <1>3. Unlinked(u) => ts[u] \in Blocks
    BY DEF Unlinked, Removing, LifeInv, TypeInv, ControlOK, Knows,
       RemoveLabels, Finding
  <1>4. UnlinkedOK(u)'
    BY <1>3, DataAssumption
       DEF LifeInv, OthersSame, UnlinkedOK, Unlinked, Removing
  <1> QED
    BY <1>2, <1>4

\* What the table points to keeps its tag.
LEMMA TableKept ==
  ASSUME LifeInv, TagsKept, UNCHANGED all_tag_services,
         allocated \subseteq allocated'
  PROVE  TableOK'
  BY DEF LifeInv, TableOK, TagsKept, Referenced, TypeInv, TypeOK,
     KernelTypeOK

\* t goes on with the same service and the same tag.
LEMMA StayingLife ==
  ASSUME LifeInv, TagsKept, NEW t \in Threads, UNCHANGED all_tag_services,
         ts'[t] = ts[t], local'[t].tag = local[t].tag,
         FoundByTag(t)' => FoundByTag(t),
         pc'[t] \in CtlLabels \ {"ctl_addr"} =>
           local'[t].lock = local'[t].tag,
         Unlinked(t)' => Unlinked(t)
  PROVE  TagKnown(t)' /\ UnlinkedOK(t)'
  <1>1. FoundByTag(t) => ts[t] \in Blocks
    BY DEF FoundByTag, LifeInv, TypeInv, ControlOK, Knows, CtlLabels,
       RemoveLabels
  <1>2. TagKnown(t)'
    BY <1>1, PointedTagKept DEF LifeInv, TagKnown
  <1>3. UnlinkedOK(t)'
    BY DEF LifeInv, UnlinkedOK
  <1> QED
    BY <1>2, <1>3

\* t goes where nothing is asked of it.
LEMMA LeavingLife ==
  ASSUME NEW t \in Threads,
         pc'[t] \notin SendLabels \cup CtlLabels \cup RemoveLabels \cup Finding
  PROVE  TagKnown(t)' /\ UnlinkedOK(t)'
  BY DEF TagKnown, UnlinkedOK, FoundByTag, Unlinked, Removing, RemoveLabels

\* A system call begins, with a service that the table offers.
LEMMA CallEffect ==
  ASSUME TypeInv, TableOK, NEW t \in Threads, Call(t)
  PROVE  /\ UNCHANGED kernelVars
         /\ pc[t] = "idle"
         /\ \/ pc'[t] = "idle" /\ UNCHANGED <<ts, local>>
            \/ pc'[t] \in {"get_lock", "recv_check"}
            \/ pc'[t] = "find_test" /\ local'[t].op \in GetOps
            \/ /\ pc'[t] \in {"send_lock", "ctl_addr"}
               /\ ts'[t] \in allocated
               /\ svc[ts'[t]].tag = local'[t].tag
  <1> USE DEF At
  <1>0. pc \in [Threads -> Labels] /\ ts \in [Threads -> Blocks \cup {NULL}]
        /\ local \in [Threads -> Locals]
    BY DEF TypeInv, TypeOK, ThreadTypeOK
  <1>1. UNCHANGED kernelVars /\ pc[t] = "idle"
    BY DEF Call, TagGet, TagGetInvalid, TagSend, TagReceive, TagCtl
  <1>2. CASE \E code : Refuse(t, code)
    BY <1>1, <1>2 DEF Refuse
  <1>3. CASE TagGet(t)
    <2>1. PICK l \in {"find_test", "get_lock"}, op \in GetOps :
            \E args : Enter(t, l, args, NULL) /\ args.op = op
      <3>1. PICK op \in Program[t] \cap GetOps, key \in Keys,
                 p \in Permissions :
              \/ Enter(t, "find_test", [NoLocals EXCEPT !.op = op, !.key = key,
                         !.permission = p], NULL)
              \/ Enter(t, "get_lock", [[NoLocals EXCEPT !.op = op, !.key = key,
                         !.permission = p] EXCEPT !.tag = hash_function(key)],
                       NULL)
        BY <1>3 DEF TagGet
      <3>2. /\ [NoLocals EXCEPT !.op = op, !.key = key,
                                !.permission = p].op = op
            /\ [[NoLocals EXCEPT !.op = op, !.key = key, !.permission = p]
                  EXCEPT !.tag = hash_function(key)].op = op
        BY DEF NoLocals
      <3> QED
        BY <3>1, <3>2
    <2>2. pc'[t] = l /\ local'[t].op = op
      BY <1>0, <2>1 DEF Enter
    <2> QED
      BY <1>1, <2>2
  <1>4. CASE TagReceive(t) /\ \A code : ~Refuse(t, code)
    BY <1>0, <1>1, <1>4 DEF TagReceive, Enter
  <1>5. CASE (TagSend(t) \/ TagCtl(t)) /\ \A code : ~Refuse(t, code)
    <2>1. PICK l \in {"send_lock", "ctl_addr"}, x \in -1 .. MAX_TAG_SERVICES :
          \E args : /\ Enter(t, l, args, Entry(x))
                    /\ args.tag = x /\ Entry(x) # NULL
      <3>1. CASE TagSend(t)
        <4>1. PICK x \in -1 .. MAX_TAG_SERVICES, y \in -1 .. MAX_LEVELS,
                   m \in Messages :
                /\ Entry(x) # NULL
                /\ Enter(t, "send_lock",
                         [NoLocals EXCEPT !.op = "send", !.tag = x,
                                          !.level = y, !.buffer = m], Entry(x))
          BY <1>5, <3>1 DEF TagSend
        <4>2. [NoLocals EXCEPT !.op = "send", !.tag = x, !.level = y,
                               !.buffer = m].tag = x
          BY DEF NoLocals
        <4> QED
          BY <4>1, <4>2
      <3>2. CASE TagCtl(t)
        <4>1. PICK op \in Program[t] \cap CtlOps, x \in -1 .. MAX_TAG_SERVICES :
                /\ Entry(x) # NULL
                /\ Enter(t, "ctl_addr",
                         [NoLocals EXCEPT !.op = op, !.tag = x], Entry(x))
          BY <1>5, <3>2 DEF TagCtl
        <4>2. [NoLocals EXCEPT !.op = op, !.tag = x].tag = x
          BY DEF NoLocals
        <4> QED
          BY <4>1, <4>2
      <3> QED
        BY <1>5, <3>1, <3>2
    <2>2. /\ pc'[t] = l /\ ts'[t] = Entry(x) /\ local'[t].tag = x
      BY <1>0, <2>1 DEF Enter
    <2>3. x \in Tags /\ Entry(x) \in allocated /\ svc[Entry(x)].tag = x
      BY <2>1 DEF Entry, TableOK
    <2> QED
      BY <1>1, <2>2, <2>3
  <1> QED
    BY <1>2, <1>3, <1>4, <1>5 DEF Call, TagGetInvalid

LEMMA CallLife ==
  ASSUME LifeInv, TagsKept, NEW t \in Threads, Call(t)
  PROVE  TagKnown(t)' /\ UnlinkedOK(t)'
  <1> USE DEF TagKnown, UnlinkedOK, FoundByTag, Unlinked, Removing,
              SendLabels, CtlLabels, RemoveLabels, Finding, Posting, CtlCS
  <1>1. svc' = svc
    BY CallEffect DEF LifeInv, kernelVars, heap
  <1>2. CASE pc'[t] = "find_test" /\ local'[t].op \in GetOps
    BY <1>2 DEF GetOps
  <1>3. CASE pc'[t] \in {"idle", "get_lock", "recv_check"}
    BY <1>3
  <1>4. CASE /\ pc'[t] \in {"send_lock", "ctl_addr"}
             /\ svc[ts'[t]].tag = local'[t].tag
    BY <1>1, <1>4
  <1> QED
    BY <1>2, <1>3, <1>4, CallEffect DEF LifeInv

LEMMA TableUnchanged ==
  ASSUME NEW t \in Threads, Call(t) \/ Step(t) \/ MutexLock(t) \/ Signal(t),
         ~CreatePublish(t), ~RemoveUnlink(t), ~RemoveFree(t)
  PROVE  UNCHANGED <<all_tag_services, allocated>>
  <1> USE DEF kernelVars, tsm, heap
  <1>1. CASE Call(t) \/ MutexLock(t) \/ Signal(t) \/ LockOutOfBounds(t)
    BY <1>1 DEF Call, TagGet, TagGetInvalid, TagSend, TagReceive, TagCtl,
       MutexLock, Signal, LockOutOfBounds
  <1>2. CASE TagGetStep(t)
    BY <1>2 DEF TagGetStep, FindFirstEntryAvailable, FindTest, FindFull,
       FindScanTaken, FindScanFree, FindRet, CreateTaken, CreateNoMemory,
       CreateDec, DeviceLoad, DeviceFill, OpenMissing, OpenFound, OpenLoad,
       OpenNull, OpenCheck
  <1>3. CASE TagSendStep(t)
    BY <1>3 DEF TagSendStep, SendRefused, SendAccepted, SendCopy, SendSize,
       SendReady, SendTest, SendWake, SendRcu, SendDiscard
  <1>4. CASE TagReceiveStep(t)
    BY <1>4 DEF TagReceiveStep, ReceiveRefused, ReceiveAccepted,
       ReceiveEnter, ReceiveAwake, ReceiveSleep, ReceiveLock, ReceiveNothing,
       ReceiveMessage, ReceiveCopy, ReceiveRest, ReceiveUnlock, ReceiveDec,
       ReceiveDecLevel
  <1>5. CASE TagCtlStep(t)
    BY <1>5 DEF TagCtlStep, CtlAddress, CtlRefused, RemoveBusy, RemoveTest,
       RemoveMark, RemoveInc, AwakeCount, AwakeSet, AwakeWake, AwakeRcu,
       AwakeReset
  <1> QED
    BY <1>1, <1>2, <1>3, <1>4, <1>5 DEF Step

\* A thread that moves while the table and the allocation stay.
LEMMA MoveLife ==
  ASSUME LifeInv, TagsKept, NEW t \in Threads,
         Step(t) \/ MutexLock(t) \/ Signal(t),
         ~CreatePublish(t), ~RemoveUnlink(t), ~RemoveFree(t)
  PROVE  /\ TagKnown(t)' /\ UnlinkedOK(t)'
         /\ UNCHANGED <<all_tag_services, allocated>>
  <1> USE DEF At
  <1>0. pc \in [Threads -> Labels] /\ ts \in [Threads -> Blocks \cup {NULL}]
        /\ local \in [Threads -> Locals] /\ Knows(pc[t], ts[t], local[t])
    BY DEF LifeInv, TypeInv, TypeOK, ThreadTypeOK, ControlOK
  <1>1. ASSUME NEW l, pc'[t] = l,
               l \in {"idle", "oops", "get_cs", "open_load", "open_check",
                      "get_dec", "get_dev", "dev_fill", "recv_check",
                      "recv_enter", "recv_dec_level", "get_lock"} \cup Counted
        PROVE  TagKnown(t)' /\ UnlinkedOK(t)'
    <2>1. l \notin SendLabels \cup CtlLabels \cup RemoveLabels \cup Finding
      BY <1>1 DEF SendLabels, CtlLabels, RemoveLabels, Finding, Posting,
         CtlCS, Counted
    <2> QED
      BY <1>1, <2>1, LeavingLife
  <1> DEFINE Same == /\ UNCHANGED all_tag_services /\ ts'[t] = ts[t]
                     /\ local'[t].tag = local[t].tag
                     /\ local'[t].op = local[t].op
                     /\ local'[t].lock = local[t].lock
  <1>2. ASSUME Same, pc[t] \in SendLabels, pc'[t] \in SendLabels
        PROVE  TagKnown(t)' /\ UnlinkedOK(t)'
    <2>1. ~Unlinked(t)' /\ pc'[t] \notin CtlLabels \ {"ctl_addr"}
          /\ FoundByTag(t)
      BY <1>2 DEF FoundByTag, Unlinked, Removing, SendLabels, Posting,
         CtlLabels, CtlCS, Finding
    <2> QED
      BY <1>2, <2>1, StayingLife
  <1>3. ASSUME Same, pc[t] \in CtlLabels \ {"ctl_addr"},
               pc'[t] \in (CtlLabels \ {"ctl_addr"}) \cup {"rm_null"}
        PROVE  TagKnown(t)' /\ UnlinkedOK(t)'
    <2>1. ~Unlinked(t)' /\ FoundByTag(t)
      BY <1>3 DEF FoundByTag, Unlinked, Removing, CtlLabels, CtlCS, Finding
    <2>2. local[t].lock = local[t].tag
      BY <1>3 DEF LifeInv, TagKnown
    <2> QED
      BY <1>3, <2>1, <2>2, StayingLife
  <1>4. ASSUME Same, pc[t] \in Finding \cup {"rm_inc"},
               pc'[t] \in Finding \cup {"rm_inc", "rm_free"},
               local[t].op = "REMOVE_TAG" \/ pc'[t] \in Finding
        PROVE  TagKnown(t)' /\ UnlinkedOK(t)'
    <2>1. (local[t].op = "REMOVE_TAG") => Unlinked(t) /\ FoundByTag(t)
      BY <1>4 DEF FoundByTag, Unlinked, Removing, Finding, RemoveLabels
    <2>2. (local[t].op # "REMOVE_TAG") => ~Unlinked(t)' /\ ~FoundByTag(t)'
      BY <1>4 DEF FoundByTag, Unlinked, Removing, Finding, RemoveLabels,
         SendLabels, CtlLabels, CtlCS, Posting
    <2>3. pc'[t] \notin CtlLabels
      BY <1>4 DEF Finding, CtlLabels, CtlCS
    <2> QED
      BY <1>4, <2>1, <2>2, <2>3, StayingLife
  <1> HIDE DEF Same
  <1>5. CASE Signal(t)
    <2>1. Same
      BY <1>5 DEF Same, Signal, kernelVars, tsm
    <2>2. allocated' = allocated
      BY <1>5 DEF Signal, kernelVars, heap
    <2> QED
      BY <1>1, <1>5, <2>2 DEF Signal, Counted, kernelVars, tsm
  <1>6. CASE MutexLock(t)
    <2>1. Same /\ allocated' = allocated /\ pc'[t] = AfterLock(t)
      BY <1>0, <1>6 DEF Same, MutexLock, Goto, tsm, heap
    <2>2. CASE pc[t] = "get_lock"
      BY <1>1, <2>1, <2>2 DEF AfterLock, Same
    <2>3. CASE pc[t] = "send_lock"
      BY <1>2, <2>1, <2>3 DEF AfterLock, SendLabels, Same
    <2>4. CASE pc[t] = "ctl_lock"
      BY <1>3, <2>1, <2>4 DEF AfterLock, CtlLabels, CtlCS, Same
    <2> QED
      BY <1>6, <2>2, <2>3, <2>4 DEF MutexLock, WaitsForLock
  <1>7. CASE LockOutOfBounds(t)
    BY <1>0, <1>1, <1>7 DEF LockOutOfBounds, Oops, Goto, kernelVars, tsm, heap
  <1>8. CASE TagSendStep(t)
    <2>1. UNCHANGED <<all_tag_services, allocated>>
      BY TableUnchanged
    <2>2. CASE pc'[t] = "idle"
      BY <1>1, <2>1, <2>2
    <2>3. CASE pc'[t] # "idle"
      <3>1. Same /\ pc[t] \in SendLabels /\ pc'[t] \in SendLabels
        BY <1>0, <1>8, <2>1, <2>3 DEF Same, TagSendStep, SendRefused,
           SendAccepted, SendCopy, SendSize, SendReady, SendTest, SendWake,
           SendRcu, SendDiscard, Goto, Return, SendLabels, Posting
      <3> QED
        BY <1>2, <2>1, <3>1
    <2> QED
      BY <2>2, <2>3
  <1>9. CASE TagReceiveStep(t)
    <2>1. UNCHANGED <<all_tag_services, allocated>>
      BY TableUnchanged
    <2>2. pc'[t] \in {"idle", "recv_enter", "recv_dec_level"} \cup Counted
      BY <1>0, <1>9 DEF TagReceiveStep, ReceiveRefused, ReceiveAccepted,
         ReceiveEnter, ReceiveAwake, ReceiveSleep, ReceiveLock,
         ReceiveNothing, ReceiveMessage, ReceiveCopy, ReceiveRest,
         ReceiveUnlock, ReceiveDec, ReceiveDecLevel, Goto, Return, Counted
    <2> QED
      BY <1>1, <2>1, <2>2
  <1>10. CASE TagCtlStep(t)
    <2>1. UNCHANGED <<all_tag_services, allocated>>
      BY TableUnchanged
    <2>2. CASE CtlAddress(t)
      <3>1. /\ ts'[t] = ts[t] /\ local'[t].tag = local[t].tag
            /\ local'[t].lock = svc[ts[t]].tag
            /\ pc[t] = "ctl_addr" /\ pc'[t] = "ctl_lock"
        BY <1>0, <2>2 DEF CtlAddress, Locals
      <3>2. FoundByTag(t) /\ ~Unlinked(t)' /\ svc[ts[t]].tag = local[t].tag
        BY <3>1 DEF FoundByTag, CtlLabels, Unlinked, Removing, Finding,
           LifeInv, TagKnown
      <3> QED
        BY <2>1, <3>1, <3>2, StayingLife
    <2>3. CASE RemoveInc(t)
      <3>1. Same /\ pc[t] = "rm_inc" /\ pc'[t] = "rm_free"
        BY <1>0, <2>1, <2>3 DEF Same, RemoveInc, Goto
      <3>2. local[t].op = "REMOVE_TAG"
        BY <1>0, <3>1 DEF Knows, RemoveLabels
      <3> QED
        BY <1>4, <2>1, <3>1, <3>2
    <2>4. CASE pc'[t] = "idle"
      BY <1>1, <2>1, <2>4
    <2>5. CASE /\ pc'[t] # "idle" /\ ~CtlAddress(t) /\ ~RemoveInc(t)
               /\ ~AwakeCount(t)
      <3>1. /\ Same /\ pc[t] \in CtlLabels \ {"ctl_addr"}
            /\ pc'[t] \in (CtlLabels \ {"ctl_addr"}) \cup {"rm_null"}
        BY <1>0, <1>10, <2>1, <2>5 DEF Same, TagCtlStep, CtlRefused,
           RemoveBusy, RemoveTest, CtlAccepted, RemoveMark, AwakeSet,
           AwakeWake, AwakeRcu, AwakeReset, Goto, Return, CtlLabels, CtlCS
      <3> QED
        BY <1>3, <2>1, <3>1
    <2>6. CASE AwakeCount(t)
      <3>1. /\ Same /\ pc[t] = "ctl_cs" /\ pc'[t] = "aw_set"
        BY <1>0, <2>1, <2>6 DEF Same, AwakeCount, CtlAccepted, Locals
      <3> QED
        BY <1>3, <2>1, <3>1 DEF CtlLabels, CtlCS
    <2> QED
      BY <2>2, <2>3, <2>4, <2>5, <2>6
  <1>11. CASE TagGetStep(t) /\ FindFirstEntryAvailable(t)
    <2>1. UNCHANGED <<all_tag_services, allocated>> /\ pc[t] \in Finding
      BY <1>11 DEF FindFirstEntryAvailable, FindTest, FindFull, FindScanTaken,
         FindScanFree, FindRet, kernelVars, tsm, heap, Finding
    <2>2. CASE pc'[t] \in {"idle", "get_lock"}
      BY <1>1, <2>1, <2>2
    <2>3. CASE pc'[t] \notin {"idle", "get_lock"}
      <3>1. CASE FindTest(t) \/ FindScanTaken(t) \/ FindScanFree(t)
        <4>1. Same /\ pc'[t] \in Finding
          BY <1>0, <2>1, <3>1 DEF Same, FindTest, FindScanTaken, FindScanFree,
             Goto, Finding, Locals
        <4> QED
          BY <1>4, <2>1, <4>1
      <3>2. CASE FindFull(t) \/ FindRet(t)
        <4>1. \/ Same /\ pc'[t] \in Finding
              \/ Same /\ pc'[t] = "rm_inc" /\ local[t].op = "REMOVE_TAG"
          BY <1>0, <2>1, <2>3, <3>2 DEF Same, FindFull, FindRet, FindReturns,
             Goto, Return, Finding, Locals
        <4> QED
          BY <1>4, <2>1, <4>1
      <3> QED
        BY <1>11, <3>1, <3>2 DEF FindFirstEntryAvailable
    <2> QED
      BY <2>2, <2>3
  <1>12. CASE TagGetStep(t) /\ ~FindFirstEntryAvailable(t)
    <2>1. UNCHANGED <<all_tag_services, allocated>>
      BY TableUnchanged
    <2>2. pc'[t] \in {"idle", "oops", "get_dev", "dev_fill", "open_load",
                      "open_check"}
      BY <1>0, <1>12 DEF TagGetStep, CreateTaken, CreateNoMemory, CreateDec,
         DeviceLoad, DeviceFill, OpenMissing, OpenFound, OpenLoad, OpenNull,
         OpenCheck, Oops, Goto, Return
    <2> QED
      BY <1>1, <2>1, <2>2
  <1> QED
    BY <1>5, <1>6, <1>7, <1>8, <1>9, <1>10, <1>11, <1>12 DEF Step

\* What a step does to the table, for the threads that do not move.
LEMMA TableStep ==
  ASSUME LifeInv, RemovalExclusive, TagsKept,
         NEW t \in Threads, CreatePublish(t) \/ RemoveUnlink(t) \/ RemoveFree(t)
  PROVE  /\ TableOK' /\ TagKnown(t)' /\ UnlinkedOK(t)'
         /\ \A u \in Threads \ {t}, x \in Tags : Unlinked(u) =>
              \/ all_tag_services'[x] \in {all_tag_services[x], NULL}
              \/ all_tag_services'[x] # ts[u]
  <1> USE DEF At
  <1>0. /\ pc \in [Threads -> Labels] /\ ts \in [Threads -> Blocks \cup {NULL}]
        /\ local \in [Threads -> Locals] /\ Knows(pc[t], ts[t], local[t])
        /\ all_tag_services \in [Tags -> Blocks \cup {NULL}]
        /\ svc \in [Blocks -> Services] /\ allocated \subseteq Blocks
    BY DEF LifeInv, TypeInv, TypeOK, KernelTypeOK, ThreadTypeOK, ControlOK
  <1>1. CASE CreatePublish(t)
    <2>1. PICK b \in FreshBlocks :
            /\ allocated' = allocated \cup {b}
            /\ \E r : svc' = [svc EXCEPT ![b] = r] /\ r.tag = local[t].tag
            /\ all_tag_services' = [all_tag_services EXCEPT ![local[t].tag] = b]
      <3> DEFINE r == [NoService EXCEPT !.tag = local[t].tag,
                         !.key = IF local[t].key = IPC_PRIVATE
                                 THEN -1 ELSE local[t].key,
                         !.permission = local[t].permission,
                         !.owner_euid = EUID[t]]
      <3>1. r.tag = local[t].tag
        BY DEF NoService
      <3>2. PICK b \in FreshBlocks :
              /\ allocated' = allocated \cup {b}
              /\ svc' = [svc EXCEPT ![b] = r]
              /\ all_tag_services' =
                   [all_tag_services EXCEPT ![local[t].tag] = b]
        BY <1>1 DEF CreatePublish
      <3> HIDE DEF r
      <3> QED
        BY <3>1, <3>2
    <2>2. /\ b \in Blocks \ allocated
          /\ \A u \in Threads : Unlinked(u) => ts[u] # b
      BY DEF FreshBlocks, RemovalExclusive, Unlinked
    <2>3. svc'[b].tag = local[t].tag /\ local[t].tag \in Tags
      BY <1>0, <1>1, <2>1, <2>2 DEF CreatePublish, InCreate, Knows, TagCS
    <2>4. TableOK'
      BY <1>0, <2>1, <2>2, <2>3 DEF LifeInv, TableOK, TagsKept, Referenced
    <2>5. pc'[t] = "get_dec"
      BY <1>0, <1>1 DEF CreatePublish
    <2>6. TagKnown(t)' /\ UnlinkedOK(t)'
      BY <2>5, LeavingLife DEF SendLabels, CtlLabels, RemoveLabels, Finding,
         Posting, CtlCS
    <2> QED
      BY <1>0, <2>1, <2>2, <2>3, <2>4, <2>6
  <1>2. CASE RemoveUnlink(t)
    <2>1. /\ all_tag_services' = [all_tag_services EXCEPT ![local[t].tag] = NULL]
          /\ UNCHANGED <<allocated, svc>>
          /\ pc[t] = "rm_null" /\ pc'[t] = "find_test"
          /\ ts'[t] = ts[t] /\ local'[t] = local[t]
      BY <1>0, <1>2 DEF RemoveUnlink, Goto, heap
    <2>2. /\ local[t].op = "REMOVE_TAG" /\ local[t].tag \in Tags
          /\ ts[t] \in Blocks
      BY <1>0, <2>1 DEF Knows, RemoveLabels
    <2>3. svc[ts[t]].tag = local[t].tag
      BY <2>1 DEF LifeInv, TagKnown, FoundByTag, RemoveLabels
    <2>4. TableOK'
      BY <1>0, <2>1, <2>2 DEF LifeInv, TableOK
    <2>5. TagKnown(t)'
      BY <2>1, <2>3 DEF TagKnown, CtlLabels, CtlCS
    <2>6. UnlinkedOK(t)'
      BY <1>0, <2>1, <2>2, <2>3, DataAssumption
         DEF UnlinkedOK, LifeInv, TableOK
    <2> QED
      BY <1>0, <2>1, <2>2, <2>4, <2>5, <2>6
  <1>3. CASE RemoveFree(t)
    <2>1. /\ allocated' = allocated \ {ts[t]} /\ pc[t] = "rm_free"
          /\ UNCHANGED <<all_tag_services, svc>> /\ pc'[t] = "idle"
      BY <1>0, <1>3 DEF RemoveFree, Return, tsm
    <2>2. \A x \in Tags : all_tag_services[x] # ts[t]
      BY <2>1 DEF LifeInv, UnlinkedOK, Unlinked, Removing
    <2>3. TableOK'
      BY <2>1, <2>2 DEF LifeInv, TableOK
    <2>4. TagKnown(t)' /\ UnlinkedOK(t)'
      BY <2>1, LeavingLife DEF SendLabels, CtlLabels, RemoveLabels, Finding,
         Posting, CtlCS
    <2> QED
      BY <2>1, <2>3, <2>4
  <1> QED
    BY <1>1, <1>2, <1>3

LEMMA LifeInit == Init => LifeInv
  BY TypeInit DEF Init, LifeInv, TableOK, TagKnown, UnlinkedOK, FoundByTag,
     Unlinked, Removing, SendLabels, Posting, CtlLabels, CtlCS, RemoveLabels,
     Finding

LEMMA LifeStep ==
  ASSUME LifeInv, RemovalExclusive, TagsKept, [Next]_vars PROVE LifeInv'
  <1>0. TypeInv'
    BY TypeStep DEF LifeInv
  <1>1. ASSUME NEW t \in Threads,
               Call(t) \/ Step(t) \/ MutexLock(t) \/ Signal(t)
        PROVE  LifeInv'
    <2>2. OthersSame(t)
      BY <1>1, OthersStep DEF LifeInv
    <2>3. /\ TableOK' /\ TagKnown(t)' /\ UnlinkedOK(t)'
          /\ \A u \in Threads \ {t}, x \in Tags : Unlinked(u) =>
               \/ all_tag_services'[x] \in {all_tag_services[x], NULL}
               \/ all_tag_services'[x] # ts[u]
      <3>1. CASE Call(t)
        <4>1. UNCHANGED <<all_tag_services, allocated>>
          BY <3>1 DEF Call, TagGet, TagGetInvalid, TagSend, TagReceive,
             TagCtl, kernelVars, tsm, heap
        <4> QED
          BY <3>1, <4>1, CallLife, TableKept
      <3>2. CASE CreatePublish(t) \/ RemoveUnlink(t) \/ RemoveFree(t)
        BY <3>2, TableStep
      <3>3. CASE /\ Step(t) \/ MutexLock(t) \/ Signal(t)
                 /\ ~CreatePublish(t) /\ ~RemoveUnlink(t) /\ ~RemoveFree(t)
        BY <3>3, MoveLife, TableKept
      <3> QED
        BY <1>1, <3>1, <3>2, <3>3
    <2>4. \A u \in Threads \ {t} : TagKnown(u)' /\ UnlinkedOK(u)'
      BY <2>2, <2>3, OthersLife
    <2> QED
      BY <1>0, <2>3, <2>4 DEF LifeInv
  <1>2. CASE RunCallback
    <2>2. UNCHANGED <<tsm, allocated, threadVars>>
      BY <1>2 DEF RunCallback, Callback, free_after_send,
         reset_awake_condition
    <2>3. TableOK'
      BY <2>2, TableKept DEF tsm
    <2>4. ASSUME NEW t \in Threads PROVE TagKnown(t)' /\ UnlinkedOK(t)'
      BY <2>2, StayingLife DEF tsm, threadVars, FoundByTag, Unlinked,
         Removing, LifeInv, TagKnown
    <2> QED
      BY <1>0, <2>3, <2>4 DEF LifeInv
  <1>3. CASE UNCHANGED vars
    BY <1>0, <1>3 DEF vars, kernelVars, threadVars, tsm, heap, LifeInv,
       TableOK, TagKnown, UnlinkedOK, FoundByTag, Unlinked, Removing
  <1> QED
    BY <1>1, <1>2, <1>3 DEF Next

-----------------------------------------------------------------------------
\* The steps that end a critical section.
GivesLock(t) ==
  \/ CreateTaken(t) \/ CreateNoMemory(t) \/ CreatePublish(t)
  \/ OpenMissing(t) \/ OpenCheck(t)
  \/ SendRefused(t) \/ SendRcu(t) \/ SendDiscard(t)
  \/ CtlRefused(t) \/ RemoveBusy(t) \/ RemoveMark(t)
  \/ AwakeRcu(t) \/ AwakeReset(t)

\* All other steps, but for mutex_lock, leave the mutexes alone.
LEMMA QuietStep ==
  ASSUME LifeInv, LockHandOver, TagsKept, NEW t \in Threads, OthersSame(t),
         Call(t) \/ Signal(t) \/ Step(t), ~GivesLock(t)
  PROVE  LockHandOver'
  <1> USE DEF At
  <1>0. /\ pc \in [Threads -> Labels] /\ local \in [Threads -> Locals]
        /\ TypeInv
    BY DEF LifeInv, TypeInv, TypeOK, ThreadTypeOK
  <1> DEFINE Kept == /\ access_lock' = access_lock
                     /\ callbacks' = callbacks \/ ReadUnlock(t)
                     /\ InCS(t)' => InCS(t) /\ Held(t)' = Held(t)
                     /\ InCS(t) => InCS(t)' \/ pc'[t] = "oops"
                     /\ pc[t] = "oops" => pc'[t] = "oops"
  <1> SUFFICES Kept
    BY <1>0, LockKept
  <1>1. CASE Call(t)
    <2>1. /\ pc[t] = "idle"
          /\ pc'[t] \in {"idle", "find_test", "get_lock", "send_lock",
                         "recv_check", "ctl_addr"}
          /\ UNCHANGED <<access_lock, callbacks>>
      BY <1>0, <1>1 DEF Call, TagGet, TagGetInvalid, TagSend, TagReceive,
         TagCtl, Enter, Refuse, kernelVars
    <2> QED
      BY <2>1 DEF InCS, TagCS, CtlCS
  <1>2. CASE Signal(t)
    BY <1>2 DEF Signal, InCS, Held, kernelVars
  <1>3. CASE LockOutOfBounds(t)
    BY <1>0, <1>3 DEF LockOutOfBounds, WaitsForLock, Oops, Goto, kernelVars,
       InCS, TagCS, CtlCS
  <1>4. CASE FindFirstEntryAvailable(t)
    <2>1. /\ pc[t] \in Finding
          /\ pc'[t] \in Finding \cup {"idle", "get_lock", "rm_inc"}
          /\ UNCHANGED <<access_lock, callbacks>>
      BY <1>0, <1>4 DEF FindFirstEntryAvailable, FindTest, FindFull,
         FindScanTaken, FindScanFree, FindRet, FindReturns, Goto, Return,
         Finding, kernelVars
    <2> QED
      BY <2>1 DEF InCS, TagCS, CtlCS, Finding
  <1>5. CASE TagGetStep(t) /\ ~FindFirstEntryAvailable(t)
    BY <1>0, <1>5 DEF TagGetStep, GivesLock, CreateDec, DeviceLoad,
       DeviceFill, OpenFound, OpenLoad, OpenNull, InOpen, Oops, Goto, Return,
       kernelVars, InCS, Held, TagCS, CtlCS
  <1>6. CASE TagSendStep(t)
    BY <1>0, <1>6 DEF TagSendStep, GivesLock, SendAccepted, SendCopy, SendSize,
       SendReady, SendTest, SendWake, Goto, kernelVars, InCS, Held, TagCS,
       CtlCS
  <1>7. CASE TagReceiveStep(t)
    <2>1. /\ pc[t] \in Counted \cup {"recv_check", "recv_enter",
                                     "recv_dec_level"}
          /\ pc'[t] \in Counted \cup {"idle", "recv_enter",
                                      "recv_dec_level"}
          /\ access_lock' = access_lock
          /\ callbacks' = callbacks \/ ReadUnlock(t)
      BY <1>0, <1>7 DEF TagReceiveStep, ReceiveRefused, ReceiveAccepted,
         ReceiveEnter, ReceiveAwake, ReceiveSleep, ReceiveLock,
         ReceiveNothing, ReceiveMessage, ReceiveCopy, ReceiveRest,
         ReceiveUnlock, ReceiveDec, ReceiveDecLevel, Goto, Return, Counted,
         kernelVars
    <2> QED
      BY <2>1 DEF InCS, TagCS, CtlCS, Counted
  <1>8. CASE TagCtlStep(t)
    <2>1. CASE \/ CtlAddress(t) \/ RemoveUnlink(t) \/ RemoveInc(t)
               \/ RemoveFree(t)
      BY <1>0, <2>1 DEF CtlAddress, RemoveUnlink, RemoveInc, RemoveFree,
         Goto, Return, kernelVars, InCS, TagCS, CtlCS
    <2>2. CASE RemoveTest(t) \/ AwakeSet(t) \/ AwakeWake(t)
      BY <1>0, <2>2 DEF RemoveTest, CtlAccepted, AwakeSet, AwakeWake,
         Goto, kernelVars, InCS, Held, TagCS, CtlCS
    <2>3. CASE AwakeCount(t)
      BY <1>0, <2>3 DEF AwakeCount, CtlAccepted, kernelVars, InCS, Held,
         TagCS, CtlCS, Locals
    <2> QED
      BY <1>8, <2>1, <2>2, <2>3 DEF TagCtlStep, GivesLock
  <1> QED
    BY <1>1, <1>2, <1>3, <1>4, <1>5, <1>6, <1>7, <1>8 DEF Step

\* The end of a critical section gives back the mutex of the section.
LEMMA GivingStep ==
  ASSUME LifeInv, LockHandOver, TagsKept, NEW t \in Threads, OthersSame(t),
         GivesLock(t)
  PROVE  LockHandOver'
  <1> USE DEF At
  <1>0. /\ pc \in [Threads -> Labels] /\ local \in [Threads -> Locals]
        /\ TypeInv /\ svc \in [Blocks -> Services]
    BY DEF LifeInv, TypeInv, TypeOK, KernelTypeOK, ThreadTypeOK
  <1>1. /\ InCS(t) /\ Held(t) \in Tags
        /\ pc[t] \in CtlCS => Held(t) = local[t].tag
        /\ pc[t] \in SendLabels \cup CtlCS =>
             ts[t] \in Blocks /\ svc[ts[t]].tag = local[t].tag
    <2>1. InCS(t)
      BY DEF GivesLock, CreateTaken, CreateNoMemory, CreatePublish, InCreate,
         OpenMissing, InOpen, OpenCheck, SendRefused, SendRcu, SendDiscard,
         CtlRefused, RemoveBusy, CtlAccepted, RemoveMark, AwakeRcu,
         AwakeReset, InCS, TagCS, CtlCS
    <2>2. Held(t) \in Tags
      BY <1>0, <2>1 DEF InCS, Held, TypeInv, ControlOK, Knows, Locals
    <2>3. pc[t] \in CtlCS => local[t].lock = local[t].tag
      BY DEF LifeInv, TagKnown, CtlLabels, CtlCS
    <2>4. pc[t] \in SendLabels \cup CtlCS =>
            ts[t] \in Blocks /\ svc[ts[t]].tag = local[t].tag
      BY <1>0 DEF LifeInv, TagKnown, FoundByTag, CtlLabels, TypeInv,
         ControlOK, Knows
    <2> QED
      BY <2>1, <2>2, <2>3, <2>4 DEF Held
  <1>2. CASE \/ CreateTaken(t) \/ CreateNoMemory(t) \/ CreatePublish(t)
             \/ OpenMissing(t) \/ OpenCheck(t)
    <2>1. /\ Held(t) = local[t].tag
          /\ access_lock' = [access_lock EXCEPT ![Held(t)] = FREE]
          /\ callbacks' = callbacks /\ pc'[t] \in {"idle", "get_dec"}
      BY <1>0, <1>2 DEF CreateTaken, CreateNoMemory, CreatePublish, InCreate,
         OpenMissing, InOpen, OpenCheck, Unlock, Return, Held, CtlCS
    <2> QED
      BY <1>0, <1>1, <2>1, LockGiven DEF InCS, TagCS, CtlCS
  <1>3. CASE SendRefused(t) \/ SendDiscard(t)
    <2>1. /\ Held(t) = local[t].tag
          /\ access_lock' = [access_lock EXCEPT ![Held(t)] = FREE]
          /\ callbacks' = callbacks /\ pc'[t] = "idle"
      BY <1>0, <1>3 DEF SendRefused, SendDiscard, Unlock, Return, Held, CtlCS
    <2> QED
      BY <1>0, <1>1, <2>1, LockGiven DEF InCS, TagCS, CtlCS
  <1>4. CASE CtlRefused(t) \/ RemoveBusy(t) \/ RemoveMark(t) \/ AwakeReset(t)
    <2>1. /\ pc[t] \in CtlCS
          /\ access_lock' = [access_lock EXCEPT ![svc[ts[t]].tag] = FREE]
          /\ callbacks' = callbacks /\ pc'[t] \in {"idle", "rm_null"}
      BY <1>0, <1>4 DEF CtlRefused, RemoveBusy, CtlAccepted, RemoveMark,
         AwakeReset, Unlock, Return, Goto, CtlCS
    <2> QED
      BY <1>0, <1>1, <2>1, LockGiven DEF InCS, TagCS, CtlCS
  <1>5. CASE SendRcu(t) \/ AwakeRcu(t)
    <2>1. /\ pc[t] \in {"send_rcu", "aw_rcu"} /\ pc'[t] = "idle"
          /\ access_lock' = [access_lock EXCEPT ![Held(t)] = RCU]
          /\ UNCHANGED svc
          /\ \E c : callbacks' = callbacks \cup {c} /\ c.block = ts[t]
      <3>1. ASSUME NEW f, NEW l, CallRcu(f, ts[t], l)
            PROVE  \E c : callbacks' = callbacks \cup {c} /\ c.block = ts[t]
        <4> DEFINE c == [fn |-> f, block |-> ts[t], level |-> l,
                         readers |-> Readers]
        <4>1. c.block = ts[t] /\ callbacks' = callbacks \cup {c}
          BY <3>1 DEF CallRcu
        <4> QED
          BY <4>1
      <3>2. CASE SendRcu(t)
        BY <1>0, <3>1, <3>2 DEF SendRcu, Return, Held, CtlCS, heap
      <3>3. CASE AwakeRcu(t)
        BY <1>0, <3>1, <3>3 DEF AwakeRcu, Return, Held, CtlCS, heap
      <3> QED
        BY <1>5, <3>2, <3>3
    <2>2. svc[ts[t]].tag = Held(t)
      BY <1>1, <2>1 DEF SendLabels, Posting, CtlCS, Held
    <2> QED
      BY <1>0, <1>1, <2>1, <2>2, LockGiven DEF InCS, TagCS, CtlCS
  <1> QED
    BY <1>2, <1>3, <1>4, <1>5 DEF GivesLock

LEMMA LockStep ==
  ASSUME LockInv, TagsKept, [Next]_vars PROVE LockHandOver'
  <1>0. LifeInv /\ LockHandOver /\ TypeInv
    BY DEF LockInv, LifeInv
  <1>1. ASSUME NEW t \in Threads,
               Call(t) \/ Step(t) \/ MutexLock(t) \/ Signal(t)
        PROVE  LockHandOver'
    <2>1. OthersSame(t)
      BY <1>0, <1>1, OthersStep
    <2>2. CASE MutexLock(t)
      <3>1. /\ LockIndex(t) \in Tags /\ access_lock[LockIndex(t)] = FREE
            /\ access_lock' = [access_lock EXCEPT ![LockIndex(t)] = t]
            /\ callbacks' = callbacks /\ WaitsForLock(t)
            /\ pc'[t] = AfterLock(t) /\ local' = local
        BY <1>0, <2>2 DEF MutexLock, Goto, TypeInv, TypeOK, ThreadTypeOK
      <3>2. /\ ~InCS(t) /\ pc[t] # "oops" /\ InCS(t)'
            /\ Held(t)' = LockIndex(t)
        BY <3>1 DEF WaitsForLock, At, InCS, TagCS, CtlCS, AfterLock, Held,
           LockIndex
      <3> QED
        BY <1>0, <2>1, <3>1, <3>2, LockTaken
    <2> QED
      BY <1>0, <1>1, <2>1, <2>2, QuietStep, GivingStep
  <1>2. CASE RunCallback
    <2>2. PICK cb \in callbacks : Callback(cb)
      BY <1>2 DEF RunCallback
    <2>3. /\ UNCHANGED threadVars /\ callbacks' = callbacks \ {cb}
          /\ access_lock' = [access_lock EXCEPT ![CallbackTag(cb)] = FREE]
      BY <2>2 DEF Callback, free_after_send, reset_awake_condition, Unlock,
         CallbackTag
    <2> QED
      BY <1>0, <2>3, LockReturned
  <1>3. CASE UNCHANGED vars
    BY <1>0, <1>3 DEF vars, kernelVars, threadVars, heap, LockHandOver, InCS,
       Held, CallbackTag, At
  <1> QED
    BY <1>1, <1>2, <1>3 DEF Next

LEMMA LockInit == Init => LockHandOver
  BY DEF Init, LockHandOver, InCS, TagCS, CtlCS
-----------------------------------------------------------------------------
\* Which mutex tag_get takes.  This needs no hypothesis about kzalloc.

\* What a thread in tag_get knows of the entry it is after: without a key it
\* searches for one; then it has a tag of the table, the -1 of a full table, or
\* the hash of a negative key.
EntryKnown(t) ==
  /\ pc[t] \in Finding /\ local[t].op # "REMOVE_TAG" =>
       local[t].op \in GetOps /\ local[t].key = IPC_PRIVATE
  /\ pc[t] = "get_lock" =>
       \/ local[t].tag \in Tags
       \/ local[t].key < 0
       \/ /\ local[t].op = "OPEN_TAG" /\ local[t].key = IPC_PRIVATE
          /\ local[t].tag = -1

EntryInv == TypeInv /\ \A t \in Threads : EntryKnown(t)

LEMMA HashInTable ==
  ASSUME NEW key \in Int, key >= 0 PROVE hash_function(key) \in Tags
  BY SizeAssumption DEF hash_function, Tags

LEMMA FindReturnsEntry ==
  ASSUME EntryInv, NEW t \in Threads, pc[t] \in Finding,
         NEW x \in Tags \cup {-1}, FindReturns(t, x)
  PROVE  EntryKnown(t)'
  <1>0. pc \in [Threads -> Labels] /\ local \in [Threads -> Locals]
    BY DEF EntryInv, TypeInv, TypeOK, ThreadTypeOK
  <1>1. CASE local[t].op = "REMOVE_TAG" \/ (local[t].op = "CREATE_TAG" /\ x = -1)
    <2>1. pc'[t] \in {"rm_inc", "idle"}
      BY <1>0, <1>1 DEF FindReturns, Goto, Return
    <2> QED
      BY <2>1 DEF EntryKnown, Finding
  <1>2. CASE /\ local[t].op # "REMOVE_TAG"
             /\ ~(local[t].op = "CREATE_TAG" /\ x = -1)
    <2>1. /\ pc'[t] = "get_lock" /\ local'[t].tag = x
          /\ local'[t].op = local[t].op /\ local'[t].key = local[t].key
      BY <1>0, <1>2 DEF FindReturns, Locals
    <2>2. local[t].op \in GetOps /\ local[t].key = IPC_PRIVATE
      BY <1>2 DEF EntryInv, EntryKnown
    <2> QED
      BY <1>2, <2>1, <2>2 DEF EntryKnown, GetOps, Finding
  <1> QED
    BY <1>1, <1>2

LEMMA EntryStep == EntryInv /\ [Next]_vars => EntryInv'
  <1> SUFFICES ASSUME EntryInv, [Next]_vars PROVE EntryInv'
    OBVIOUS
  <1> USE DEF At
  <1>0. /\ TypeInv /\ TypeInv' /\ pc \in [Threads -> Labels]
        /\ local \in [Threads -> Locals]
    BY TypeStep DEF EntryInv, TypeInv, TypeOK, ThreadTypeOK
  <1>1. ASSUME NEW t \in Threads,
               Call(t) \/ Step(t) \/ MutexLock(t) \/ Signal(t)
        PROVE  EntryInv'
    <2>1. \A u \in Threads \ {t} : EntryKnown(u)'
      BY <1>0, <1>1, OthersStep DEF OthersSame, EntryInv, EntryKnown
    <2> SUFFICES EntryKnown(t)'
      BY <1>0, <2>1 DEF EntryInv
    <2>2. CASE pc'[t] \notin Finding \cup {"get_lock"}
      BY <2>2 DEF EntryKnown
    <2>3. CASE pc'[t] = pc[t] /\ local'[t] = local[t]
      BY <2>3 DEF EntryInv, EntryKnown
    <2>4. CASE TagGet(t)
      <3>1. PICK op \in GetOps, key \in Keys :
              \E args :
                /\ args.op = op /\ args.key = key
                /\ \/ key = IPC_PRIVATE /\ Enter(t, "find_test", args, NULL)
                   \/ /\ args.tag = hash_function(key)
                      /\ Enter(t, "get_lock", args, NULL)
        <4>1. PICK op \in Program[t] \cap GetOps, key \in Keys,
                   p \in Permissions :
                \/ /\ key = IPC_PRIVATE
                   /\ Enter(t, "find_test", [NoLocals EXCEPT !.op = op,
                              !.key = key, !.permission = p], NULL)
                \/ Enter(t, "get_lock", [[NoLocals EXCEPT !.op = op,
                              !.key = key, !.permission = p]
                              EXCEPT !.tag = hash_function(key)], NULL)
          BY <2>4 DEF TagGet
        <4> DEFINE a == [NoLocals EXCEPT !.op = op, !.key = key,
                                         !.permission = p]
        <4>2. a.op = op /\ a.key = key
          BY DEF NoLocals
        <4>3. LET b == [a EXCEPT !.tag = hash_function(key)]
              IN  b.op = op /\ b.key = key /\ b.tag = hash_function(key)
          BY DEF NoLocals
        <4> HIDE DEF a
        <4> QED
          BY <4>1, <4>2, <4>3 DEF a
      <3>2. /\ local'[t].op = op /\ local'[t].key = key
            /\ \/ key = IPC_PRIVATE /\ pc'[t] = "find_test"
               \/ pc'[t] = "get_lock" /\ local'[t].tag = hash_function(key)
        BY <1>0, <3>1 DEF Enter
      <3> QED
        BY <3>2, HashInTable, DataAssumption DEF EntryKnown, Finding
    <2>5. CASE FindFirstEntryAvailable(t)
      <3>1. pc[t] \in Finding /\ first_free_entry \in Tags
        BY <1>0, <2>5 DEF FindFirstEntryAvailable, FindTest, FindFull,
           FindScanTaken, FindScanFree, FindRet, Finding, TypeInv, TypeOK,
           KernelTypeOK
      <3>2. CASE \E x \in Tags \cup {-1} : FindReturns(t, x)
        BY <3>1, <3>2, FindReturnsEntry
      <3>3. CASE ~\E x \in Tags \cup {-1} : FindReturns(t, x)
        <4>1. /\ pc'[t] \in Finding
              /\ local'[t].op = local[t].op /\ local'[t].key = local[t].key
          BY <1>0, <2>5, <3>1, <3>3 DEF FindFirstEntryAvailable, FindTest,
             FindFull, FindScanTaken, FindScanFree, FindRet, Goto, Finding,
             Locals
        <4> QED
          BY <3>1, <4>1 DEF EntryInv, EntryKnown, Finding
      <3> QED
        BY <3>2, <3>3
    <2>6. CASE RemoveUnlink(t)
      <3>1. pc[t] = "rm_null" /\ local'[t] = local[t] /\ pc'[t] = "find_test"
        BY <1>0, <2>6 DEF RemoveUnlink, Goto
      <3>2. local[t].op = "REMOVE_TAG"
        BY <1>0, <3>1 DEF TypeInv, ControlOK, Knows, RemoveLabels
      <3> QED
        BY <3>1, <3>2 DEF EntryKnown
    <2>7. CASE Call(t) /\ ~TagGet(t)
      BY <1>0, <2>2, <2>3, <2>7 DEF Call, TagGetInvalid, TagSend, TagReceive,
         TagCtl, Enter, Refuse, Finding
    <2>8. CASE Signal(t)
      BY <2>3, <2>8 DEF Signal
    <2>9. CASE MutexLock(t) \/ LockOutOfBounds(t)
      BY <1>0, <2>2, <2>9 DEF MutexLock, LockOutOfBounds, WaitsForLock,
         AfterLock, Oops, Goto, Finding
    <2>10. CASE TagGetStep(t) /\ ~FindFirstEntryAvailable(t)
      BY <1>0, <2>2, <2>10 DEF TagGetStep, CreateTaken, CreateNoMemory,
         CreatePublish, CreateDec, DeviceLoad, DeviceFill, OpenMissing,
         OpenFound, OpenLoad, OpenNull, OpenCheck, Oops, Goto, Return, Finding
    <2>11. CASE TagSendStep(t) \/ TagReceiveStep(t)
      BY <1>0, <2>2, <2>3, <2>11 DEF TagSendStep, SendRefused, SendAccepted,
         SendCopy, SendSize, SendReady, SendTest, SendWake, SendRcu,
         SendDiscard, TagReceiveStep, ReceiveRefused, ReceiveAccepted,
         ReceiveEnter, ReceiveAwake, ReceiveSleep, ReceiveLock,
         ReceiveNothing, ReceiveMessage, ReceiveCopy, ReceiveRest,
         ReceiveUnlock, ReceiveDec, ReceiveDecLevel, Goto, Return, Finding
    <2>12. CASE TagCtlStep(t) /\ ~RemoveUnlink(t)
      BY <1>0, <2>2, <2>12 DEF TagCtlStep, CtlAddress, CtlRefused, RemoveBusy,
         RemoveTest, CtlAccepted, RemoveMark, RemoveInc, RemoveFree,
         AwakeCount, AwakeSet, AwakeWake, AwakeRcu, AwakeReset, Goto, Return,
         Finding
    <2> QED
      BY <1>1, <2>4, <2>5, <2>6, <2>7, <2>8, <2>9, <2>10, <2>11, <2>12
         DEF Step
  <1>2. CASE UNCHANGED threadVars
    BY <1>0, <1>2 DEF EntryInv, EntryKnown, threadVars
  <1> QED
    BY <1>1, <1>2 DEF Next, RunCallback, Callback, free_after_send,
       reset_awake_condition, vars

\* A mutex that tag_get, tag_send or tag_ctl takes belongs to the array, but
\* for negative keys and for OPEN_TAG with IPC_PRIVATE on a full table.
THEOREM LocksOfTheArray == Spec => []LockInBounds
  <1>1. Init => EntryInv
    BY TypeInit DEF Init, EntryInv, EntryKnown, Finding
  <1>2. EntryInv => LockInBounds
    BY DEF EntryInv, EntryKnown, LockInBounds, WaitsForLock, LockIndex, At,
       TypeInv, TypeOK, ThreadTypeOK, ControlOK, Knows, SendLabels, Locals
  <1> QED
    BY <1>1, <1>2, EntryStep, PTL DEF Spec
=============================================================================
