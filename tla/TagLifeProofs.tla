---------------------------- MODULE TagLifeProofs ----------------------------
(***************************************************************************)
(* Who works on a service owns its mutex, and finds it in the table, not   *)
(* deleted, not freed, and open to him, until he is done.  With the proofs *)
(* of TagLockProofs this makes the inductive invariant of the system       *)
(* calls: the locks, the table and the life of the services cannot be      *)
(* separated, since tag_receive and tag_ctl read the service before they   *)
(* have any lock, and tag_send and AWAKE_ALL leave theirs to a callback.   *)
(* On it rest the theorems about the two counters, at the end.             *)
(***************************************************************************)
EXTENDS TagLockProofs, FiniteSetTheorems

-----------------------------------------------------------------------------
\* Statements behind the checks under the lock.
Working == Posting \cup Awaking \cup {"rm_mark"}

ThreadServiceOK(t) ==
  /\ pc[t] \in Working => Live(ts[t]) /\ ~Denied(t)
  /\ pc[t] = "rm_null" => all_tag_services[svc[ts[t]].tag] = ts[t]
  /\ FoundByTag(t) => ts[t] \in allocated \/ svc[ts[t]].lazy_deleted

ServiceInv == /\ RemovalExclusive
              /\ TableIntegrity
              /\ \A t \in Threads : ThreadServiceOK(t)
              /\ \A cb \in callbacks : Live(cb.block)

SafeInv == LifeInv /\ LockHandOver /\ ServiceInv

LEMMA SafeInit == Init => SafeInv
  BY LifeInit, LockInit
     DEF Init, SafeInv, ServiceInv, RemovalExclusive, TableIntegrity,
         ThreadServiceOK, Working, Posting, Awaking, FoundByTag, Removing,
         Unlinked, SendLabels, CtlLabels, CtlCS, RemoveLabels, Finding

-----------------------------------------------------------------------------
\* A thread at work holds the mutex of its service.
LEMMA WorkerHolds ==
  ASSUME SafeInv, NEW t \in Threads, pc[t] \in Working
  PROVE  ts[t] \in Blocks /\ access_lock[svc[ts[t]].tag] = t
  <1>1. /\ InCS(t) /\ FoundByTag(t) /\ ts[t] \in Blocks
        /\ pc[t] \in CtlCS => pc[t] \in CtlLabels \ {"ctl_addr"}
    BY DEF SafeInv, LifeInv, TypeInv, ControlOK, Knows, Working, Posting,
       Awaking, InCS, TagCS, CtlCS, FoundByTag, SendLabels, CtlLabels
  <1>2. Held(t) = svc[ts[t]].tag
    BY <1>1 DEF SafeInv, LifeInv, TagKnown, Held
  <1> QED
    BY <1>1, <1>2 DEF SafeInv, LockHandOver

\* So nobody works on the service of another, nor on one that a callback has
\* still to give back.
LEMMA OneWorker ==
  ASSUME SafeInv, NEW t \in Threads, pc[t] \in Working
  PROVE  /\ \A u \in Threads \ {t} : pc[u] \in Working => ts[u] # ts[t]
         /\ \A cb \in callbacks : cb.block # ts[t]
  BY WorkerHolds, ThreadAssumption
     DEF SafeInv, LockHandOver, CallbackTag, FREE, RCU

\* What passes the checks under the lock is in the table.
LEMMA CheckedIsLive ==
  ASSUME SafeInv, NEW t \in Threads, FoundByTag(t), ~svc[ts[t]].lazy_deleted
  PROVE  Live(ts[t])
  BY DEF SafeInv, ServiceInv, ThreadServiceOK, TableIntegrity,
     RemovalExclusive, Unlinked, Live

-----------------------------------------------------------------------------
\* Most steps leave the table and the life of the services alone.

\* A step of t that neither begins nor ends a removal.
Moves(t) ==
  /\ FoundByTag(t)' => \/ FoundByTag(t) /\ ts'[t] = ts[t]
                       \/ ts'[t] \in allocated
  /\ Removing(t)' <=> Removing(t)
  /\ Unlinked(t)' <=> Unlinked(t)
  /\ Removing(t) => ts'[t] = ts[t]
  /\ pc'[t] \in Working =>
       ts'[t] = ts[t] /\ (pc[t] \in Working \/ (Live(ts[t]) /\ ~Denied(t)))

\* A callback is queued for the service its thread works on.
CallbacksFrom(t) == \A c \in callbacks' :
  \/ \E cb \in callbacks : cb.block = c.block
  \/ pc[t] \in Working /\ c.block = ts[t]

LEMMA CallbackSources ==
  ASSUME TypeInv, NEW t \in Threads,
         Call(t) \/ Step(t) \/ MutexLock(t) \/ Signal(t)
  PROVE  CallbacksFrom(t)
  <1> USE DEF At
  <1>1. CASE callbacks' = callbacks
    BY <1>1 DEF CallbacksFrom
  <1>2. CASE ReadUnlock(t)
    <2>1. \A cb \in callbacks : [cb EXCEPT !.readers = @ \ {t}].block = cb.block
      BY DEF TypeInv, TypeOK, KernelTypeOK, Callbacks
    <2> QED
      BY <1>2, <2>1 DEF ReadUnlock, CallbacksFrom
  <1>3. CASE pc[t] \in Working /\ \E f, l : CallRcu(f, ts[t], l)
    BY <1>3 DEF CallRcu, CallbacksFrom
  <1>4. CASE SendRcu(t) \/ AwakeRcu(t)
    BY <1>3, <1>4 DEF SendRcu, AwakeRcu, Working, Posting, Awaking
  <1>5. CASE Call(t) \/ MutexLock(t) \/ Signal(t) \/ LockOutOfBounds(t)
    BY <1>1, <1>5 DEF Call, TagGet, TagGetInvalid, TagSend, TagReceive,
       TagCtl, MutexLock, Signal, LockOutOfBounds, kernelVars
  <1>6. CASE TagGetStep(t)
    BY <1>1, <1>6 DEF TagGetStep, FindFirstEntryAvailable, FindTest, FindFull,
       FindScanTaken, FindScanFree, FindRet, CreateTaken, CreateNoMemory,
       CreatePublish, CreateDec, DeviceLoad, DeviceFill, OpenMissing,
       OpenFound, OpenLoad, OpenNull, OpenCheck, kernelVars
  <1>7. CASE TagSendStep(t)
    BY <1>1, <1>4, <1>7 DEF TagSendStep, SendRefused, SendAccepted, SendCopy,
       SendSize, SendReady, SendTest, SendWake, SendDiscard, kernelVars
  <1>8. CASE TagReceiveStep(t)
    BY <1>1, <1>2, <1>8 DEF TagReceiveStep, ReceiveRefused, ReceiveAccepted,
       ReceiveEnter, ReceiveAwake, ReceiveSleep, ReceiveLock,
       ReceiveNothing, ReceiveMessage, ReceiveCopy, ReceiveRest, ReceiveUnlock,
       ReceiveDec, ReceiveDecLevel, kernelVars
  <1>9. CASE TagCtlStep(t)
    BY <1>1, <1>4, <1>9 DEF TagCtlStep, CtlAddress, CtlRefused, RemoveBusy,
       RemoveTest, RemoveMark, RemoveUnlink, RemoveInc, RemoveFree,
       AwakeCount, AwakeSet, AwakeWake, AwakeReset, kernelVars
  <1> QED
    BY <1>5, <1>6, <1>7, <1>8, <1>9 DEF Step

\* What such a step leaves true.
LEMMA QuietFrame ==
  ASSUME SafeInv, LifeInv', UNCHANGED <<all_tag_services, allocated>>,
         \A b \in Blocks : SameService(b),
         \A u \in Threads : Moves(u), \A c \in callbacks' : Live(c.block)
  PROVE  ServiceInv'
  <1>1. \A u \in Threads : /\ Removing(u)' <=> Removing(u)
                           /\ Unlinked(u)' <=> Unlinked(u)
                           /\ Removing(u) => ts'[u] = ts[u]
    BY DEF Moves
  <1>2. \A u \in Threads : Removing(u) => ts[u] \in Blocks
    BY DEF Removing, SafeInv, LifeInv, TypeInv, ControlOK, Knows, RemoveLabels
  <1>3. \A b \in Blocks : Live(b)' <=> Live(b)
    BY DEF Live, SameService
  <1>4. RemovalExclusive'
    <2>1. \A u \in Threads, x \in Tags : Unlinked(u)' =>
            all_tag_services'[x] # ts'[u]
      BY DEF LifeInv, UnlinkedOK
    <2>2. /\ \A u, v \in Threads : Removing(u)' /\ Removing(v)' /\ u # v
               => ts'[u] # ts'[v]
          /\ \A u \in Threads : Removing(u)' => /\ ts'[u] \in allocated'
                                                /\ svc'[ts'[u]].lazy_deleted
      BY <1>1, <1>2 DEF SafeInv, ServiceInv, RemovalExclusive, SameService
    <2> QED
      BY <2>1, <2>2 DEF RemovalExclusive
  <1>5. TableIntegrity'
    <2>1. allocated \subseteq Blocks
      BY DEF SafeInv, LifeInv, TypeInv, TypeOK, KernelTypeOK
    <2>2. ASSUME NEW b \in allocated'
          PROVE  \/ all_tag_services'[svc'[b].tag] = b
                 \/ \E u \in Threads : Unlinked(u)' /\ ts'[u] = b
      <3>1. \/ all_tag_services[svc[b].tag] = b
            \/ \E u \in Threads : Unlinked(u) /\ ts[u] = b
        BY DEF SafeInv, ServiceInv, TableIntegrity
      <3> QED
        BY <1>1, <2>1, <3>1 DEF SameService, Unlinked
    <2> QED
      BY <2>2 DEF TableIntegrity, LifeInv, TableOK
  <1>6. ASSUME NEW u \in Threads PROVE ThreadServiceOK(u)'
    <2>1. FoundByTag(u)' => ts'[u] \in Blocks
      BY DEF FoundByTag, LifeInv, TypeInv, ControlOK, Knows, CtlLabels,
         RemoveLabels
    <2>2. FoundByTag(u)' => \/ FoundByTag(u) /\ ts'[u] = ts[u]
                            \/ ts'[u] \in allocated
      BY DEF Moves
    <2>3. FoundByTag(u)' => ts'[u] \in allocated' \/ svc'[ts'[u]].lazy_deleted
      BY <2>1, <2>2 DEF SafeInv, ServiceInv, ThreadServiceOK, SameService
    <2>4. pc'[u] = "rm_null" =>
            all_tag_services'[svc'[ts'[u]].tag] = ts'[u]
      <3>1. pc'[u] = "rm_null" => Removing(u)' /\ ~Unlinked(u)'
        BY DEF Removing, Unlinked
      <3>2. Removing(u) /\ ~Unlinked(u) => pc[u] = "rm_null"
        BY DEF Unlinked
      <3> QED
        BY <1>1, <1>2, <3>1, <3>2
           DEF SafeInv, ServiceInv, ThreadServiceOK, SameService
    <2>5. pc'[u] \in Working =>
            /\ ts'[u] = ts[u]
            /\ pc[u] \in Working \/ (Live(ts[u]) /\ ~Denied(u))
      BY DEF Moves
    <2>6. pc'[u] \in Working => Live(ts[u]) /\ ~Denied(u)
      BY <2>5 DEF SafeInv, ServiceInv, ThreadServiceOK
    <2>7. pc'[u] \in Working => ts[u] \in Blocks
      BY <2>5, <2>6 DEF Live, SafeInv, LifeInv, TypeInv, TypeOK, KernelTypeOK
    <2>8. pc'[u] \in Working => Live(ts[u])' /\ ~Denied(u)'
      BY <1>3, <2>5, <2>6, <2>7 DEF Denied, SameService
    <2> QED
      BY <2>3, <2>4, <2>8 DEF ThreadServiceOK
  <1>7. ASSUME NEW c \in callbacks' PROVE Live(c.block)'
    <2>1. c.block \in Blocks
      BY DEF Live, SafeInv, LifeInv, TypeInv, TypeOK, KernelTypeOK
    <2> QED
      BY <1>3, <2>1
  <1> QED
    BY <1>4, <1>5, <1>6, <1>7 DEF ServiceInv

LEMMA QuietMoves ==
  ASSUME SafeInv, NEW t \in Threads,
         Call(t) \/ Step(t) \/ MutexLock(t) \/ Signal(t),
         ~CreatePublish(t), ~RemoveMark(t), ~RemoveUnlink(t), ~RemoveFree(t)
  PROVE  Moves(t)
  <1> USE DEF At
  <1>0. /\ pc \in [Threads -> Labels] /\ ts \in [Threads -> Blocks \cup {NULL}]
        /\ local \in [Threads -> Locals] /\ Knows(pc[t], ts[t], local[t])
        /\ TypeInv /\ TableOK
    BY DEF SafeInv, LifeInv, TypeInv, TypeOK, ThreadTypeOK, ControlOK
  <1>1. ASSUME pc[t] \notin RemoveLabels,
               pc[t] \notin Finding \/ local[t].op # "REMOVE_TAG",
               NEW l, pc'[t] = l,
               l \in {"idle", "oops", "get_cs", "open_load", "open_check",
                      "get_dec", "get_dev", "dev_fill", "recv_check",
                      "recv_enter", "recv_dec_level", "get_lock"} \cup Counted
        PROVE  Moves(t)
    <2>1. l \notin SendLabels \cup CtlLabels \cup RemoveLabels \cup Finding
      BY <1>1 DEF SendLabels, CtlLabels, RemoveLabels, Finding, Posting,
         CtlCS, Counted
    <2>2. ~FoundByTag(t)' /\ ~Removing(t)' /\ ~Unlinked(t)'
          /\ pc'[t] \notin Working
      BY <1>1, <2>1 DEF FoundByTag, Removing, Unlinked, RemoveLabels, Working,
         SendLabels, CtlLabels, CtlCS, Awaking
    <2>3. ~Removing(t) /\ ~Unlinked(t)
      BY <1>1 DEF Removing, Unlinked, RemoveLabels
    <2> QED
      BY <2>2, <2>3 DEF Moves
  <1>2. ASSUME pc[t] \in SendLabels \cup CtlLabels,
               pc'[t] \in SendLabels \cup CtlLabels \cup {"rm_mark"},
               ts'[t] = ts[t],
               pc'[t] \in Working =>
                 pc[t] \in Working \/ (Live(ts[t]) /\ ~Denied(t))
        PROVE  Moves(t)
    <2>1. FoundByTag(t) /\ ~Removing(t) /\ ~Unlinked(t)
      BY <1>2 DEF FoundByTag, Removing, Unlinked, SendLabels, CtlLabels,
         Finding, CtlCS, Posting
    <2>2. ~Removing(t)' /\ ~Unlinked(t)'
      BY <1>2 DEF Removing, Unlinked, SendLabels, CtlLabels, Finding, CtlCS,
         Posting
    <2> QED
      BY <1>2, <2>1, <2>2 DEF Moves
  <1>3. ASSUME ts'[t] = ts[t], local'[t].op = local[t].op,
               pc[t] \in Finding \cup {"rm_inc"},
               pc'[t] \in Finding \cup {"rm_inc", "rm_free"},
               local[t].op = "REMOVE_TAG" \/ pc[t] \in Finding,
               local[t].op = "REMOVE_TAG" \/ pc'[t] \in Finding
        PROVE  Moves(t)
    <2>1. /\ pc[t] \notin Working \cup SendLabels \cup CtlLabels
          /\ pc'[t] \notin Working \cup SendLabels \cup CtlLabels
      BY <1>3 DEF Working, Posting, Awaking, Finding, SendLabels, CtlLabels,
         CtlCS
    <2>2. local[t].op = "REMOVE_TAG" =>
            /\ Removing(t) /\ Unlinked(t) /\ FoundByTag(t)
            /\ Removing(t)' /\ Unlinked(t)'
      BY <1>3 DEF FoundByTag, Unlinked, Removing, Finding, RemoveLabels
    <2>3. local[t].op # "REMOVE_TAG" =>
            /\ ~Removing(t) /\ ~Unlinked(t)
            /\ ~Removing(t)' /\ ~Unlinked(t)' /\ ~FoundByTag(t)'
      BY <1>3, <2>1 DEF FoundByTag, Unlinked, Removing, Finding, RemoveLabels
    <2> QED
      BY <1>3, <2>1, <2>2, <2>3 DEF Moves
  <1>4. CASE Call(t)
    <2>1. pc[t] = "idle"
      BY <1>0, <1>4, CallEffect
    <2>2. CASE pc'[t] \in {"idle", "get_lock", "recv_check"}
      BY <1>1, <2>1, <2>2 DEF RemoveLabels, Finding
    <2>3. CASE pc'[t] = "find_test" /\ local'[t].op \in GetOps
      BY <2>1, <2>3 DEF Moves, FoundByTag, Removing, Unlinked, Working,
         Posting, Awaking, SendLabels, CtlLabels, CtlCS, RemoveLabels,
         Finding, GetOps
    <2>4. CASE pc'[t] \in {"send_lock", "ctl_addr"} /\ ts'[t] \in allocated
      BY <2>1, <2>4 DEF Moves, Removing, Unlinked, Working,
         Posting, Awaking, Finding
    <2> QED
      BY <1>0, <1>4, <2>2, <2>3, <2>4, CallEffect
  <1>5. CASE Signal(t)
    BY <1>1, <1>5 DEF Signal, RemoveLabels, Finding, Counted
  <1>6. CASE MutexLock(t)
    <2>1. ts'[t] = ts[t] /\ pc'[t] = AfterLock(t)
      BY <1>0, <1>6 DEF MutexLock, Goto
    <2>2. CASE pc[t] = "get_lock"
      BY <1>1, <2>1, <2>2 DEF AfterLock, RemoveLabels, Finding
    <2>3. CASE pc[t] \in {"send_lock", "ctl_lock"}
      BY <1>2, <2>1, <2>3 DEF AfterLock, SendLabels, CtlLabels, CtlCS,
         Working, Posting, Awaking
    <2> QED
      BY <1>6, <2>2, <2>3 DEF MutexLock, WaitsForLock
  <1>7. CASE LockOutOfBounds(t)
    BY <1>0, <1>1, <1>7 DEF LockOutOfBounds, WaitsForLock, Oops, Goto,
       RemoveLabels, Finding
  <1>8. CASE TagSendStep(t)
    <2>1. CASE pc'[t] = "idle"
      BY <1>1, <1>8, <2>1 DEF TagSendStep, SendRefused, SendAccepted,
         SendCopy, SendSize, SendReady, SendTest, SendWake, SendRcu,
         SendDiscard, RemoveLabels, Finding
    <2>2. CASE SendAccepted(t)
      <3>1. /\ pc[t] = "send_cs" /\ pc'[t] = "send_copy" /\ ts'[t] = ts[t]
            /\ ~svc[ts[t]].lazy_deleted /\ ~Denied(t)
        BY <1>0, <2>2 DEF SendAccepted, Goto
      <3>2. Live(ts[t])
        BY <3>1, CheckedIsLive DEF FoundByTag, SendLabels
      <3> QED
        BY <1>2, <3>1, <3>2 DEF SendLabels, Posting
    <2>3. CASE pc'[t] # "idle" /\ ~SendAccepted(t)
      <3>1. /\ pc[t] \in Posting /\ pc'[t] \in Posting /\ ts'[t] = ts[t]
        BY <1>0, <1>8, <2>3 DEF TagSendStep, SendRefused, SendCopy, SendSize,
           SendReady, SendTest, SendWake, SendRcu, SendDiscard, Goto, Return,
           Posting
      <3> QED
        BY <1>2, <3>1 DEF SendLabels, Working
    <2> QED
      BY <2>1, <2>2, <2>3
  <1>9. CASE TagReceiveStep(t)
    <2>1. /\ pc[t] \in {"recv_check", "recv_enter", "recv_dec_level"}
                        \cup Counted
          /\ pc'[t] \in {"idle", "recv_enter", "recv_dec_level"} \cup Counted
      BY <1>0, <1>9 DEF TagReceiveStep, ReceiveRefused, ReceiveAccepted,
         ReceiveEnter, ReceiveAwake, ReceiveSleep, ReceiveLock,
         ReceiveNothing, ReceiveMessage, ReceiveCopy, ReceiveRest,
         ReceiveUnlock, ReceiveDec, ReceiveDecLevel, Goto, Return, Counted
    <2>2. pc[t] \notin RemoveLabels /\ pc[t] \notin Finding
      BY <2>1 DEF Counted, RemoveLabels, Finding
    <2> QED
      BY <1>1, <2>1, <2>2
  <1>10. CASE TagCtlStep(t)
    <2>1. CASE RemoveInc(t)
      <3>1. /\ pc[t] = "rm_inc" /\ pc'[t] = "rm_free" /\ ts'[t] = ts[t]
            /\ local'[t] = local[t]
        BY <1>0, <2>1 DEF RemoveInc, Goto
      <3>2. local[t].op = "REMOVE_TAG"
        BY <1>0, <3>1 DEF Knows, RemoveLabels
      <3> QED
        BY <1>3, <3>1, <3>2
    <2>2. CASE CtlRefused(t) \/ RemoveBusy(t) \/ AwakeRcu(t) \/ AwakeReset(t)
      BY <1>0, <1>1, <2>2 DEF CtlRefused, RemoveBusy, CtlAccepted, AwakeRcu,
         AwakeReset, Return, RemoveLabels, Finding
    <2>3. CASE CtlAddress(t)
      BY <1>0, <1>2, <2>3 DEF CtlAddress, CtlLabels, CtlCS, Working, Posting,
         Awaking
    <2>4. CASE RemoveTest(t) \/ AwakeCount(t)
      <3>1. /\ pc[t] = "ctl_cs" /\ ts'[t] = ts[t]
            /\ pc'[t] \in {"rm_mark", "aw_set"}
            /\ ~svc[ts[t]].lazy_deleted /\ ~Denied(t)
        BY <1>0, <2>4 DEF RemoveTest, AwakeCount, CtlAccepted, Goto
      <3>2. Live(ts[t])
        BY <3>1, CheckedIsLive DEF FoundByTag, CtlLabels, CtlCS
      <3> QED
        BY <1>2, <3>1, <3>2 DEF CtlLabels, CtlCS
    <2>5. CASE AwakeSet(t) \/ AwakeWake(t)
      <3>1. pc[t] \in Awaking /\ pc'[t] \in Awaking /\ ts'[t] = ts[t]
        BY <1>0, <2>5 DEF AwakeSet, AwakeWake, Goto, Awaking
      <3> QED
        BY <1>2, <3>1 DEF CtlLabels, CtlCS, Awaking, Working
    <2> QED
      BY <1>10, <2>1, <2>2, <2>3, <2>4, <2>5 DEF TagCtlStep
  <1>11. CASE TagGetStep(t) /\ FindFirstEntryAvailable(t)
    <2>1. pc[t] \in Finding
      BY <1>11 DEF FindFirstEntryAvailable, FindTest, FindFull, FindScanTaken,
         FindScanFree, FindRet, Finding
    <2>2. CASE FindTest(t) \/ FindScanTaken(t) \/ FindScanFree(t)
      <3>1. /\ pc'[t] \in Finding /\ ts'[t] = ts[t]
            /\ local'[t].op = local[t].op
        BY <1>0, <2>1, <2>2 DEF FindTest, FindScanTaken, FindScanFree,
           Goto, Finding, Locals
      <3> QED
        BY <1>3, <2>1, <3>1
    <2>3. CASE FindFull(t) \/ FindRet(t)
      <3>1. \/ /\ ts'[t] = ts[t] /\ local'[t].op = local[t].op
               /\ \/ pc'[t] \in Finding
                  \/ pc'[t] = "rm_inc" /\ local[t].op = "REMOVE_TAG"
            \/ pc'[t] \in {"idle", "get_lock"} /\ local[t].op # "REMOVE_TAG"
        BY <1>0, <2>1, <2>3 DEF FindFull, FindRet, FindReturns, Goto, Return,
           Finding, Locals
      <3> QED
        BY <1>1, <1>3, <2>1, <3>1 DEF Finding, RemoveLabels
    <2> QED
      BY <1>11, <2>2, <2>3 DEF FindFirstEntryAvailable
  <1>12. CASE TagGetStep(t) /\ ~FindFirstEntryAvailable(t)
    <2>1. /\ pc[t] \in {"get_cs", "get_dec", "get_dev", "dev_fill",
                        "open_load", "open_check"}
          /\ pc'[t] \in {"idle", "oops", "get_dev", "dev_fill", "open_load",
                         "open_check"}
      BY <1>0, <1>12 DEF TagGetStep, InCreate, InOpen, CreateTaken,
         CreateNoMemory, CreateDec, DeviceLoad, DeviceFill, OpenMissing,
         OpenFound, OpenLoad, OpenNull, OpenCheck, Oops, Goto, Return
    <2> QED
      BY <1>1, <2>1 DEF RemoveLabels, Finding
  <1> QED
    BY <1>4, <1>5, <1>6, <1>7, <1>8, <1>9, <1>10, <1>11, <1>12 DEF Step
-----------------------------------------------------------------------------
\* The steps that begin or end the life of a service.

\* What a step of t has to leave of Live, for the others.
OthersLive(t) ==
  /\ \A u \in Threads \ {t} : pc[u] \in Working => Live(ts[u])' /\ ~Denied(u)'
  /\ \A cb \in callbacks : Live(cb.block)'

LEMMA CreateService ==
  ASSUME SafeInv, LifeInv', NEW t \in Threads, OthersSame(t),
         CreatePublish(t)
  PROVE  ServiceInv'
  <1> USE DEF At
  <1>0. /\ pc \in [Threads -> Labels] /\ ts \in [Threads -> Blocks \cup {NULL}]
        /\ local \in [Threads -> Locals]
        /\ all_tag_services \in [Tags -> Blocks \cup {NULL}]
        /\ svc \in [Blocks -> Services] /\ allocated \subseteq Blocks
    BY DEF SafeInv, LifeInv, TypeInv, TypeOK, KernelTypeOK, ThreadTypeOK
  <1>1. PICK b \in FreshBlocks :
          /\ allocated' = allocated \cup {b}
          /\ \E r : svc' = [svc EXCEPT ![b] = r] /\ r.tag = local[t].tag
          /\ all_tag_services' = [all_tag_services EXCEPT ![local[t].tag] = b]
    <2> DEFINE r == [NoService EXCEPT !.tag = local[t].tag,
                       !.key = IF local[t].key = IPC_PRIVATE
                               THEN -1 ELSE local[t].key,
                       !.permission = local[t].permission,
                       !.owner_euid = EUID[t]]
    <2>1. r.tag = local[t].tag
      BY DEF NoService
    <2>2. PICK b \in FreshBlocks :
            /\ allocated' = allocated \cup {b}
            /\ svc' = [svc EXCEPT ![b] = r]
            /\ all_tag_services' =
                 [all_tag_services EXCEPT ![local[t].tag] = b]
      BY DEF CreatePublish
    <2> HIDE DEF r
    <2> QED
      BY <2>1, <2>2
  <1>2. /\ b \in Blocks \ allocated /\ callbacks' = callbacks
        /\ local[t].tag \in Tags /\ all_tag_services[local[t].tag] = NULL
        /\ pc'[t] = "get_dec" /\ pc[t] = "get_cs"
    BY <1>0 DEF FreshBlocks, CreatePublish, InCreate, is_entry_available,
       SafeInv, LifeInv, TypeInv, ControlOK, Knows, TagCS
  <1>3. svc'[b].tag = local[t].tag /\ all_tag_services'[local[t].tag] = b
    BY <1>0, <1>1, <1>2
  <1>4. \A c \in allocated : c \in Blocks /\ c # b /\ svc'[c] = svc[c]
    BY <1>0, <1>1, <1>2
  <1>5. \A c \in allocated : all_tag_services[svc[c].tag] = c =>
                             all_tag_services'[svc'[c].tag] = c
    BY <1>0, <1>1, <1>2, <1>4, DataAssumption DEF Services
  <1>6. ~Removing(t) /\ ~Removing(t)' /\ ~Unlinked(t) /\ ~FoundByTag(t)'
        /\ pc'[t] \notin Working \cup {"rm_null"}
    BY <1>2 DEF Removing, Unlinked, FoundByTag, Finding, SendLabels,
       CtlLabels, CtlCS, RemoveLabels, Posting, Awaking, Working
  <1>7. \A u \in Threads : /\ Removing(u)' <=> Removing(u)
                           /\ Unlinked(u)' <=> Unlinked(u)
                           /\ Removing(u) => ts'[u] = ts[u]
    BY <1>6 DEF OthersSame, Removing, Unlinked
  <1>8. RemovalExclusive'
    <2>1. \A u \in Threads, x \in Tags : Unlinked(u)' =>
            all_tag_services'[x] # ts'[u]
      BY DEF LifeInv, UnlinkedOK
    <2> QED
      BY <1>1, <1>4, <1>7, <2>1 DEF SafeInv, ServiceInv, RemovalExclusive
  <1>9. TableIntegrity'
    <2>1. ASSUME NEW c \in allocated'
          PROVE  \/ all_tag_services'[svc'[c].tag] = c
                 \/ \E u \in Threads : Unlinked(u)' /\ ts'[u] = c
      <3>1. CASE c = b
        BY <1>3, <3>1
      <3>2. CASE c \in allocated
        <4>1. \/ all_tag_services[svc[c].tag] = c
              \/ \E u \in Threads : Unlinked(u) /\ ts[u] = c
          BY <3>2 DEF SafeInv, ServiceInv, TableIntegrity
        <4> QED
          BY <1>5, <1>7, <3>2, <4>1 DEF Unlinked
      <3> QED
        BY <1>1, <3>1, <3>2
    <2> QED
      BY <2>1 DEF TableIntegrity, LifeInv, TableOK
  <1>10. OthersLive(t)
    <2>1. \A c \in Blocks : Live(c) => Live(c)' /\ svc'[c] = svc[c]
      BY <1>1, <1>4, <1>5 DEF Live
    <2>2. \A u \in Threads \ {t} : pc[u] \in Working =>
            Live(ts[u])' /\ ~Denied(u)'
      <3> SUFFICES ASSUME NEW u \in Threads \ {t}, pc[u] \in Working
                   PROVE  Live(ts[u])' /\ ~Denied(u)'
        OBVIOUS
      <3>1. Live(ts[u]) /\ ~Denied(u) /\ ts[u] \in Blocks /\ ts'[u] = ts[u]
        BY WorkerHolds DEF SafeInv, ServiceInv, ThreadServiceOK, OthersSame
      <3> QED
        BY <2>1, <3>1 DEF Denied
    <2>3. \A cb \in callbacks : Live(cb.block)'
      BY <2>1 DEF SafeInv, ServiceInv, LifeInv, TypeInv, TypeOK, KernelTypeOK,
         Callbacks
    <2> QED
      BY <2>2, <2>3 DEF OthersLive
  <1>11. ASSUME NEW u \in Threads PROVE ThreadServiceOK(u)'
    <2>1. CASE u = t
      BY <1>6, <2>1 DEF ThreadServiceOK
    <2>2. CASE u # t
      <3>1. pc'[u] = pc[u] /\ ts'[u] = ts[u] /\ (FoundByTag(u)' <=> FoundByTag(u))
        BY <2>2 DEF OthersSame, FoundByTag
      <3>2. FoundByTag(u) => ts[u] \in Blocks
        BY DEF FoundByTag, SafeInv, LifeInv, TypeInv, ControlOK, Knows,
           CtlLabels, RemoveLabels
      <3>3. FoundByTag(u) => ts[u] \in allocated' \/ svc'[ts[u]].lazy_deleted
        BY <1>0, <1>1, <1>2, <1>4, <3>2
           DEF SafeInv, ServiceInv, ThreadServiceOK
      <3>4. pc[u] = "rm_null" => all_tag_services'[svc'[ts[u]].tag] = ts[u]
        BY <1>5 DEF SafeInv, ServiceInv, ThreadServiceOK, RemovalExclusive,
           Removing
      <3>5. pc[u] \in Working => Live(ts[u])' /\ ~Denied(u)'
        BY <1>10, <2>2 DEF OthersLive
      <3> QED
        BY <3>1, <3>3, <3>4, <3>5 DEF ThreadServiceOK
    <2> QED
      BY <2>1, <2>2
  <1>12. \A cb \in callbacks' : Live(cb.block)'
    BY <1>2, <1>10 DEF OthersLive
  <1> QED
    BY <1>8, <1>9, <1>11, <1>12 DEF ServiceInv
\* The mark comes from the holder of the mutex: nobody else is at work there.
LEMMA MarkService ==
  ASSUME SafeInv, LifeInv', NEW t \in Threads, OthersSame(t), RemoveMark(t)
  PROVE  ServiceInv'
  <1> USE DEF At
  <1>0. /\ pc \in [Threads -> Labels] /\ svc \in [Blocks -> Services]
        /\ allocated \subseteq Blocks
    BY DEF SafeInv, LifeInv, TypeInv, TypeOK, KernelTypeOK, ThreadTypeOK
  <1>1. /\ pc[t] = "rm_mark" /\ pc'[t] = "rm_null" /\ ts'[t] = ts[t]
        /\ svc' = [svc EXCEPT ![ts[t]] =
                     [svc[ts[t]] EXCEPT !.lazy_deleted = TRUE]]
        /\ UNCHANGED <<all_tag_services, allocated, callbacks>>
    BY <1>0 DEF RemoveMark, Goto, tsm
  <1>2. pc[t] \in Working /\ Live(ts[t]) /\ ts[t] \in Blocks
    BY <1>1, WorkerHolds
       DEF Working, SafeInv, ServiceInv, ThreadServiceOK
  <1>3. \A b \in Blocks : /\ svc'[b].tag = svc[b].tag
                          /\ svc[b].lazy_deleted => svc'[b].lazy_deleted
                          /\ b # ts[t] => svc'[b] = svc[b]
    BY <1>0, <1>1, <1>2 DEF Services
  <1>4. svc'[ts[t]].lazy_deleted
    BY <1>0, <1>1, <1>2 DEF Services
  <1>5. ~Removing(t) /\ ~Unlinked(t) /\ ~Unlinked(t)' /\ FoundByTag(t)
        /\ pc'[t] \notin Working
    BY <1>1 DEF Removing, Unlinked, FoundByTag, Finding, RemoveLabels, Working,
       Posting, Awaking
  <1>6. \A u \in Threads \ {t} :
          /\ Removing(u)' <=> Removing(u)
          /\ Unlinked(u)' <=> Unlinked(u)
          /\ FoundByTag(u)' <=> FoundByTag(u)
          /\ pc'[u] = pc[u] /\ ts'[u] = ts[u]
          /\ Removing(u) => ts[u] # ts[t] /\ ts[u] \in Blocks
    <2>1. \A u \in Threads : Removing(u) => ts[u] # ts[t] /\ ts[u] \in Blocks
      BY <1>0, <1>2 DEF SafeInv, ServiceInv, RemovalExclusive, Live
    <2> QED
      BY <2>1 DEF OthersSame, Removing, Unlinked, FoundByTag
  <1>7. RemovalExclusive'
    <2>1. \A u \in Threads, x \in Tags : Unlinked(u)' =>
            all_tag_services'[x] # ts'[u]
      BY DEF LifeInv, UnlinkedOK
    <2>2. ASSUME NEW u \in Threads, Removing(u)'
          PROVE  ts'[u] \in allocated' /\ svc'[ts'[u]].lazy_deleted
      <3>1. CASE u = t
        BY <1>1, <1>2, <1>4, <3>1 DEF Live
      <3>2. CASE u # t
        BY <1>1, <1>3, <1>6, <2>2, <3>2
           DEF SafeInv, ServiceInv, RemovalExclusive
      <3> QED
        BY <3>1, <3>2
    <2>3. ASSUME NEW u \in Threads, NEW v \in Threads,
                 Removing(u)', Removing(v)', u # v
          PROVE  ts'[u] # ts'[v]
      BY <1>1, <1>6, <2>3 DEF SafeInv, ServiceInv, RemovalExclusive
    <2> QED
      BY <2>1, <2>2, <2>3 DEF RemovalExclusive
  <1>8. TableIntegrity'
    <2>1. ASSUME NEW c \in allocated'
          PROVE  \/ all_tag_services'[svc'[c].tag] = c
                 \/ \E u \in Threads : Unlinked(u)' /\ ts'[u] = c
      <3>1. \/ all_tag_services[svc[c].tag] = c
            \/ \E u \in Threads : Unlinked(u) /\ ts[u] = c
        BY <1>1 DEF SafeInv, ServiceInv, TableIntegrity
      <3> QED
        BY <1>0, <1>1, <1>3, <1>5, <1>6, <3>1
    <2> QED
      BY <2>1 DEF TableIntegrity, LifeInv, TableOK
  <1>9. ASSUME NEW u \in Threads PROVE ThreadServiceOK(u)'
    <2>1. CASE u = t
      BY <1>1, <1>2, <1>3, <1>4, <1>5, <2>1 DEF ThreadServiceOK, Live
    <2>2. CASE u # t
      <3>1. FoundByTag(u) => ts[u] \in Blocks
        BY DEF FoundByTag, SafeInv, LifeInv, TypeInv, ControlOK, Knows,
           CtlLabels, RemoveLabels
      <3>2. FoundByTag(u) => ts[u] \in allocated' \/ svc'[ts[u]].lazy_deleted
        BY <1>1, <1>3, <3>1 DEF SafeInv, ServiceInv, ThreadServiceOK
      <3>3. pc[u] = "rm_null" => all_tag_services'[svc'[ts[u]].tag] = ts[u]
        BY <1>1, <1>3, <1>6, <2>2 DEF SafeInv, ServiceInv, ThreadServiceOK, Removing
      <3>4. pc[u] \in Working => Live(ts[u])' /\ ~Denied(u)'
        <4> SUFFICES ASSUME pc[u] \in Working
                     PROVE  Live(ts[u])' /\ ~Denied(u)'
          OBVIOUS
        <4>1. ts[u] # ts[t] /\ ts[u] \in Blocks /\ Live(ts[u]) /\ ~Denied(u)
          BY <1>2, <2>2, OneWorker, WorkerHolds
             DEF SafeInv, ServiceInv, ThreadServiceOK
        <4>2. svc'[ts[u]] = svc[ts[u]] /\ ts'[u] = ts[u]
          BY <1>3, <1>6, <2>2, <4>1
        <4> QED
          BY <1>1, <4>1, <4>2 DEF Live, Denied
      <3> QED
        BY <1>6, <2>2, <3>2, <3>3, <3>4 DEF ThreadServiceOK
    <2> QED
      BY <2>1, <2>2
  <1>10. ASSUME NEW cb \in callbacks' PROVE Live(cb.block)'
    <2>1. cb \in callbacks /\ cb.block # ts[t] /\ cb.block \in Blocks
      BY <1>1, <1>2, OneWorker DEF SafeInv, LifeInv, TypeInv, TypeOK,
         KernelTypeOK, Callbacks
    <2> QED
      BY <1>1, <1>3, <2>1 DEF SafeInv, ServiceInv, Live
  <1> QED
    BY <1>7, <1>8, <1>9, <1>10 DEF ServiceInv

\* The entry that is emptied is that of the service, which is marked: no
\* other thread at work sees its own service leave the table.
LEMMA UnlinkService ==
  ASSUME SafeInv, LifeInv', NEW t \in Threads, OthersSame(t), RemoveUnlink(t)
  PROVE  ServiceInv'
  <1> USE DEF At
  <1>0. /\ pc \in [Threads -> Labels] /\ svc \in [Blocks -> Services]
        /\ allocated \subseteq Blocks
        /\ all_tag_services \in [Tags -> Blocks \cup {NULL}]
    BY DEF SafeInv, LifeInv, TypeInv, TypeOK, KernelTypeOK, ThreadTypeOK
  <1>1. /\ pc[t] = "rm_null" /\ pc'[t] = "find_test" /\ ts'[t] = ts[t]
        /\ all_tag_services' = [all_tag_services EXCEPT ![local[t].tag] = NULL]
        /\ local'[t] = local[t] /\ UNCHANGED <<allocated, svc, callbacks>>
    BY <1>0 DEF RemoveUnlink, Goto, heap
  <1>2. /\ Removing(t) /\ ~Unlinked(t) /\ FoundByTag(t) /\ Removing(t)'
        /\ Unlinked(t)' /\ local[t].tag \in Tags
        /\ pc'[t] \notin Working \cup {"rm_null"}
    BY <1>1 DEF Removing, Unlinked, FoundByTag, Finding, RemoveLabels, Working,
       Posting, Awaking, SafeInv, LifeInv, TypeInv, ControlOK, Knows
  <1>3. /\ all_tag_services[local[t].tag] = ts[t]
        /\ svc[ts[t]].lazy_deleted /\ ts[t] \in allocated
    BY <1>1, <1>2 DEF SafeInv, LifeInv, TagKnown, ServiceInv,
       ThreadServiceOK, RemovalExclusive
  <1>4. \A c \in Blocks : c # ts[t] /\ all_tag_services[svc[c].tag] = c
                           => all_tag_services'[svc'[c].tag] = c
    BY <1>0, <1>1, <1>3 DEF Services
  <1>5. \A u \in Threads : /\ Removing(u)' <=> Removing(u)
                           /\ Unlinked(u) => Unlinked(u)'
                           /\ ts'[u] = ts[u]
                           /\ u # t => pc'[u] = pc[u]
                           /\ FoundByTag(u)' => FoundByTag(u)
    BY <1>1, <1>2 DEF OthersSame, Removing, Unlinked, FoundByTag
  <1>6. RemovalExclusive'
    <2>1. \A u \in Threads, x \in Tags : Unlinked(u)' =>
            all_tag_services'[x] # ts'[u]
      BY DEF LifeInv, UnlinkedOK
    <2> QED
      BY <1>1, <1>5, <2>1 DEF SafeInv, ServiceInv, RemovalExclusive
  <1>7. TableIntegrity'
    <2>1. ASSUME NEW c \in allocated'
          PROVE  \/ all_tag_services'[svc'[c].tag] = c
                 \/ \E u \in Threads : Unlinked(u)' /\ ts'[u] = c
      <3>1. CASE c = ts[t]
        BY <1>1, <1>2, <3>1
      <3>2. CASE c # ts[t]
        <4>1. \/ all_tag_services[svc[c].tag] = c
              \/ \E u \in Threads : Unlinked(u) /\ ts[u] = c
          BY <1>1 DEF SafeInv, ServiceInv, TableIntegrity
        <4> QED
          BY <1>0, <1>1, <1>4, <1>5, <3>2, <4>1
      <3> QED
        BY <3>1, <3>2
    <2> QED
      BY <2>1 DEF TableIntegrity, LifeInv, TableOK
  <1>8. \A b \in Blocks : Live(b) => Live(b)'
    BY <1>1, <1>3, <1>4 DEF Live
  <1>9. ASSUME NEW u \in Threads PROVE ThreadServiceOK(u)'
    <2>1. FoundByTag(u)' => ts'[u] \in allocated' \/ svc'[ts'[u]].lazy_deleted
      BY <1>1, <1>5 DEF SafeInv, ServiceInv, ThreadServiceOK
    <2>2. CASE u = t
      BY <1>2, <2>1, <2>2 DEF ThreadServiceOK
    <2>3. CASE u # t
      <3>1. pc[u] = "rm_null" => all_tag_services'[svc'[ts[u]].tag] = ts[u]
        BY <1>0, <1>2, <1>4, <2>3 DEF SafeInv, ServiceInv, ThreadServiceOK,
           RemovalExclusive, Removing
      <3>2. pc[u] \in Working => Live(ts[u])' /\ ~Denied(u)'
        BY <1>1, <1>5, <1>8, WorkerHolds
           DEF SafeInv, ServiceInv, ThreadServiceOK, Denied
      <3> QED
        BY <1>5, <2>1, <2>3, <3>1, <3>2 DEF ThreadServiceOK
    <2> QED
      BY <2>2, <2>3
  <1>10. \A cb \in callbacks' : Live(cb.block)'
    BY <1>0, <1>1, <1>8 DEF SafeInv, ServiceInv, Live
  <1> QED
    BY <1>6, <1>7, <1>9, <1>10 DEF ServiceInv

\* The service that is freed is marked and out of the table.
LEMMA FreeService ==
  ASSUME SafeInv, LifeInv', NEW t \in Threads, OthersSame(t), RemoveFree(t)
  PROVE  ServiceInv'
  <1> USE DEF At
  <1>0. /\ pc \in [Threads -> Labels] /\ svc \in [Blocks -> Services]
        /\ allocated \subseteq Blocks
    BY DEF SafeInv, LifeInv, TypeInv, TypeOK, KernelTypeOK, ThreadTypeOK
  <1>1. /\ pc[t] = "rm_free" /\ pc'[t] = "idle"
        /\ allocated' = allocated \ {ts[t]}
        /\ UNCHANGED <<all_tag_services, svc, callbacks>>
    BY <1>0 DEF RemoveFree, Return, tsm
  <1>2. /\ Removing(t) /\ Unlinked(t) /\ ~Removing(t)'
        /\ ~Unlinked(t)' /\ ~FoundByTag(t)'
        /\ pc'[t] \notin Working \cup {"rm_null"}
    BY <1>1 DEF Removing, Unlinked, FoundByTag, Finding, RemoveLabels, Working,
       Posting, Awaking, SendLabels, CtlLabels, CtlCS
  <1>3. /\ svc[ts[t]].lazy_deleted /\ ts[t] \in Blocks
        /\ \A x \in Tags : all_tag_services[x] # ts[t]
    BY <1>0, <1>2 DEF SafeInv, ServiceInv, RemovalExclusive
  <1>4. \A u \in Threads \ {t} :
          /\ Removing(u)' <=> Removing(u)
          /\ Unlinked(u)' <=> Unlinked(u)
          /\ FoundByTag(u)' <=> FoundByTag(u)
          /\ pc'[u] = pc[u] /\ ts'[u] = ts[u]
    BY DEF OthersSame, Removing, Unlinked, FoundByTag
  <1>5. RemovalExclusive'
    <2>1. \A u \in Threads, x \in Tags : Unlinked(u)' =>
            all_tag_services'[x] # ts'[u]
      BY DEF LifeInv, UnlinkedOK
    <2>2. ASSUME NEW u \in Threads, Removing(u)'
          PROVE  ts'[u] \in allocated' /\ svc'[ts'[u]].lazy_deleted
      <3>1. u # t /\ Removing(u) /\ ts'[u] = ts[u]
        BY <1>2, <1>4, <2>2
      <3> QED
        BY <1>1, <1>2, <3>1 DEF SafeInv, ServiceInv, RemovalExclusive
    <2>3. ASSUME NEW u \in Threads, NEW v \in Threads,
                 Removing(u)', Removing(v)', u # v
          PROVE  ts'[u] # ts'[v]
      BY <1>2, <1>4, <2>3 DEF SafeInv, ServiceInv, RemovalExclusive
    <2> QED
      BY <2>1, <2>2, <2>3 DEF RemovalExclusive
  <1>6. TableIntegrity'
    <2>1. ASSUME NEW c \in allocated'
          PROVE  \/ all_tag_services'[svc'[c].tag] = c
                 \/ \E u \in Threads : Unlinked(u)' /\ ts'[u] = c
      <3>1. \/ all_tag_services[svc[c].tag] = c
            \/ \E u \in Threads : Unlinked(u) /\ ts[u] = c
        BY <1>1 DEF SafeInv, ServiceInv, TableIntegrity
      <3> QED
        BY <1>1, <1>4, <3>1
    <2> QED
      BY <2>1 DEF TableIntegrity, LifeInv, TableOK
  <1>7. \A b : Live(b) => Live(b)'
    BY <1>1, <1>3 DEF Live
  <1>8. ASSUME NEW u \in Threads PROVE ThreadServiceOK(u)'
    <2>1. CASE u = t
      BY <1>2, <2>1 DEF ThreadServiceOK
    <2>2. CASE u # t
      <3>1. FoundByTag(u) => ts[u] \in allocated' \/ svc'[ts[u]].lazy_deleted
        BY <1>1, <1>3 DEF SafeInv, ServiceInv, ThreadServiceOK
      <3>2. pc[u] = "rm_null" => all_tag_services'[svc'[ts[u]].tag] = ts[u]
        BY <1>1 DEF SafeInv, ServiceInv, ThreadServiceOK
      <3>3. pc[u] \in Working => Live(ts[u])' /\ ~Denied(u)'
        BY <1>1, <1>4, <1>7, <2>2
           DEF SafeInv, ServiceInv, ThreadServiceOK, Denied
      <3> QED
        BY <1>4, <2>2, <3>1, <3>2, <3>3 DEF ThreadServiceOK
    <2> QED
      BY <2>1, <2>2
  <1>9. \A cb \in callbacks' : Live(cb.block)'
    BY <1>1, <1>7 DEF SafeInv, ServiceInv
  <1> QED
    BY <1>5, <1>6, <1>8, <1>9 DEF ServiceInv
-----------------------------------------------------------------------------
\* A thread that does not move.
LEMMA StandingMoves ==
  ASSUME NEW u \in Threads, pc'[u] = pc[u], ts'[u] = ts[u],
         local'[u] = local[u]
  PROVE  Moves(u)
  BY DEF Moves, FoundByTag, Removing, Unlinked

LEMMA ServiceStep ==
  ASSUME SafeInv, LifeInv', [Next]_vars PROVE ServiceInv'
  <1>0. TypeInv
    BY DEF SafeInv, LifeInv
  <1>1. ASSUME NEW t \in Threads,
               Call(t) \/ Step(t) \/ MutexLock(t) \/ Signal(t)
        PROVE  ServiceInv'
    <2>1. OthersSame(t)
      BY <1>0, <1>1, OthersStep
    <2>2. CASE CreatePublish(t) \/ RemoveMark(t)
      BY <2>1, <2>2, CreateService, MarkService
    <2>3. CASE RemoveUnlink(t) \/ RemoveFree(t)
      BY <2>1, <2>3, UnlinkService, FreeService
    <2>4. CASE /\ ~CreatePublish(t) /\ ~RemoveMark(t)
               /\ ~RemoveUnlink(t) /\ ~RemoveFree(t)
      <3>1. UNCHANGED <<all_tag_services, allocated>>
        BY <1>1, <2>4, TableUnchanged
      <3>2. \A b \in Blocks : SameService(b)
        BY <1>0, <1>1, <2>4, SameServiceStep
      <3>3. Moves(t)
        BY <1>1, <2>4, QuietMoves
      <3>4. \A u \in Threads : Moves(u)
        BY <2>1, <3>3, StandingMoves DEF OthersSame
      <3>5. \A c \in callbacks' : Live(c.block)
        BY <1>0, <1>1, CallbackSources
           DEF CallbacksFrom, SafeInv, ServiceInv, ThreadServiceOK
      <3> QED
        BY <3>1, <3>2, <3>4, <3>5, QuietFrame
    <2> QED
      BY <2>2, <2>3, <2>4
  <1>2. CASE RunCallback \/ UNCHANGED vars
    <2>1. /\ UNCHANGED <<tsm, allocated, threadVars>>
          /\ callbacks' \subseteq callbacks
      BY <1>2 DEF RunCallback, Callback, free_after_send,
         reset_awake_condition, vars, kernelVars, heap
    <2>2. \A b \in Blocks : SameService(b)
      BY <1>0, <1>2, SameServiceCallback DEF SameService, vars, kernelVars, heap
    <2>3. \A u \in Threads : Moves(u)
      BY <2>1, StandingMoves DEF threadVars
    <2>4. \A c \in callbacks' : Live(c.block)
      BY <2>1 DEF SafeInv, ServiceInv
    <2> QED
      BY <2>1, <2>2, <2>3, <2>4, QuietFrame DEF tsm
  <1> QED
    BY <1>1, <1>2 DEF Next

\* The inductive step.
LEMMA SafeStep ==
  ASSUME SafeInv, TagsKept, [Next]_vars PROVE SafeInv'
  <1>1. LifeInv'
    BY LifeStep DEF SafeInv, ServiceInv
  <1>2. LockHandOver'
    BY LockStep DEF SafeInv, LockInv
  <1> QED
    BY <1>1, <1>2, ServiceStep DEF SafeInv
-----------------------------------------------------------------------------
\* The theorems hold of every behaviour in which a block keeps its tag while
\* somebody refers to it.  TagsAreKept says when kzalloc guarantees that.

\* When kzalloc never hands out a block that some thread still points to, or
\* there is a single tag, no thread or callback that saved a pointer to a
\* service ever sees the service under another tag.
THEOREM TagsAreKept == ASSUME NoForeignReuse PROVE Spec => [][TagsKept]_vars
  <1>1. TypeInv /\ [Next]_vars => [TagsKept]_vars
    BY TagsKeptStep
  <1> QED
    BY <1>1, TypeInit, TypeStep, PTL DEF Spec

LEMMA SafeAlways == Spec /\ [][TagsKept]_vars => []SafeInv
  <1>1. SafeInv /\ [Next]_vars /\ [TagsKept]_vars => SafeInv'
    <2>1. UNCHANGED vars => TagsKept
      BY DEF vars, kernelVars, heap, TagsKept
    <2> QED
      BY <2>1, SafeStep
  <1> QED
    BY <1>1, SafeInit, PTL DEF Spec

\* The mutex of a tag is locked exactly for the thread in its critical section
\* or for the one callback that tag_send or AWAKE_ALL left it to.
THEOREM LocksHandedOver == Spec /\ [][TagsKept]_vars => []LockHandOver
  <1>1. SafeInv => LockHandOver
    BY DEF SafeInv
  <1> QED
    BY <1>1, SafeAlways, PTL

\* The table offers services at their own tag, and loses none that its
\* deleter has not taken out.
THEOREM TableConsistent == Spec /\ [][TagsKept]_vars => []TableIntegrity
  <1>1. SafeInv => TableIntegrity
    BY DEF SafeInv, ServiceInv
  <1> QED
    BY <1>1, SafeAlways, PTL

\* No service is deleted or freed twice, though REMOVE_TAG releases the mutex
\* before it empties the table and frees the service.
THEOREM OneDeleter == Spec /\ [][TagsKept]_vars => []RemovalExclusive
  <1>1. SafeInv => RemovalExclusive
    BY DEF SafeInv, ServiceInv
  <1> QED
    BY <1>1, SafeAlways, PTL

\* tag_send, AWAKE_ALL and their callbacks never touch a service that is
\* being deleted, though they found it before they had the mutex and the
\* callbacks run when the system call is over.
THEOREM WorkOnLiveServices ==
  Spec /\ [][TagsKept]_vars => []DeferredWorkOnLiveService
  <1>1. SafeInv => DeferredWorkOnLiveService
    BY DEF SafeInv, ServiceInv, ThreadServiceOK, Working,
       DeferredWorkOnLiveService
  <1> QED
    BY <1>1, SafeAlways, PTL

\* Who posts, awakes or deletes has the permission of the service as it is
\* at that moment.
THEOREM PermissionHolds == Spec /\ [][TagsKept]_vars => []PermissionUnderLock
  <1>1. SafeInv => PermissionUnderLock
    BY DEF SafeInv, ServiceInv, ThreadServiceOK, Working, PermissionUnderLock
  <1> QED
    BY <1>1, SafeAlways, PTL

\* So all of it holds whenever kzalloc returns no block that a thread still
\* points to, or the module serves a single tag.
COROLLARY SafeWithoutForeignReuse ==
  ASSUME NoForeignReuse
  PROVE  Spec => [](/\ LockHandOver /\ TableIntegrity /\ RemovalExclusive
                    /\ DeferredWorkOnLiveService /\ PermissionUnderLock)
  <1>1. Spec => [][TagsKept]_vars
    BY TagsAreKept
  <1> QED
    BY <1>1, LocksHandedOver, TableConsistent, OneDeleter, WorkOnLiveServices,
       PermissionHolds, PTL

-----------------------------------------------------------------------------
(***************************************************************************)
(* The two counters of tag_service.c that decide what may happen:          *)
(* thread_waiting_message_count, whether a service may be removed and      *)
(* whether anybody has to be waited for; remaining_entries, whether a      *)
(* search of the table is worth while.  Both are atomics that wrap; the    *)
(* second is changed some steps after the table that it counts.            *)
(*                                                                         *)
(* What is counted is a set of threads, so these theorems assume that      *)
(* there are finitely many.  A receiver keeps no reference that would stop  *)
(* kzalloc from reusing its service, so the first theorem is about the      *)
(* difference of the two numbers and not about the numbers.                 *)
(***************************************************************************)

\* Arithmetic of an atomic counter.

LEMMA Division ==
  ASSUME NEW a \in Int, NEW w \in Nat \ {0}
  PROVE  /\ a \div w \in Int /\ a % w \in 0 .. w - 1
         /\ a = w * (a \div w) + (a % w)
  OBVIOUS

LEMMA Remainder ==
  ASSUME NEW a \in Int, NEW w \in Nat \ {0}, NEW q \in Int,
         NEW r \in 0 .. w - 1, a = w * q + r
  PROVE  a % w = r
  OBVIOUS

LEMMA Incremented ==
  ASSUME NEW a \in Int, NEW w \in Nat \ {0}
  PROVE  ((a % w) + 1) % w = (a + 1) % w
  <1> DEFINE q == a \div w
             r == a % w
  <1>1. q \in Int /\ r \in 0 .. w - 1 /\ a = w * q + r
    BY Division
  <1> HIDE DEF q, r
  <1>2. CASE r + 1 < w
    <2>1. r + 1 \in 0 .. w - 1 /\ a + 1 = w * q + (r + 1) /\ r + 1 = w * 0 + (r + 1)
      BY <1>1, <1>2
    <2>2. (a + 1) % w = r + 1 /\ (r + 1) % w = r + 1
      BY <1>1, <2>1, Remainder
    <2> QED
      BY <2>2 DEF r
  <1>3. CASE r + 1 = w
    <2>1. 0 \in 0 .. w - 1 /\ q + 1 \in Int
      BY <1>1
    <2>2. a + 1 = w * (q + 1) + 0
      <3>1. w * (q + 1) = w * q + w
        BY <1>1
      <3> QED
        BY <1>1, <1>3, <3>1
    <2>3. r + 1 = w * 1 + 0
      BY <1>1, <1>3
    <2>4. (a + 1) % w = 0 /\ (r + 1) % w = 0
      BY <1>1, <2>1, <2>2, <2>3, Remainder
    <2> QED
      BY <2>4 DEF r
  <1> QED
    BY <1>1, <1>2, <1>3

LEMMA Decremented ==
  ASSUME NEW a \in Int, NEW w \in Nat \ {0}
  PROVE  ((a % w) - 1) % w = (a - 1) % w
  <1> DEFINE q == a \div w
             r == a % w
  <1>1. q \in Int /\ r \in 0 .. w - 1 /\ a = w * q + r
    BY Division
  <1> HIDE DEF q, r
  <1>2. CASE r > 0
    <2>1. r - 1 \in 0 .. w - 1 /\ a - 1 = w * q + (r - 1) /\ r - 1 = w * 0 + (r - 1)
      BY <1>1, <1>2
    <2>2. (a - 1) % w = r - 1 /\ (r - 1) % w = r - 1
      BY <1>1, <2>1, Remainder
    <2> QED
      BY <2>2 DEF r
  <1>3. CASE r = 0
    <2>1. w - 1 \in 0 .. w - 1 /\ q - 1 \in Int /\ -1 \in Int
      BY <1>1
    <2>2. a - 1 = w * (q - 1) + (w - 1)
      <3>1. w * (q - 1) = w * q - w
        BY <1>1
      <3> QED
        BY <1>1, <1>3, <3>1
    <2>3. r - 1 = w * (-1) + (w - 1)
      BY <1>1, <1>3
    <2>4. (a - 1) % w = w - 1 /\ (r - 1) % w = w - 1
      BY <1>1, <1>3, <2>1, <2>2, <2>3, Remainder
    <2> QED
      BY <2>4 DEF r
  <1> QED
    BY <1>1, <1>2, <1>3

LEMMA Distributed ==
  ASSUME NEW w \in Int, NEW x \in Int, NEW y \in Int
  PROVE  w * (x + y) = w * x + w * y
  OBVIOUS

LEMMA Shifted ==
  ASSUME NEW a \in Int, NEW b \in Int, NEW w \in Nat \ {0}
  PROVE  ((a % w) - b) % w = (a - b) % w
  <1> DEFINE q == a \div w
             r == a % w
  <1>1. q \in Int /\ r \in 0 .. w - 1 /\ a = w * q + r
    BY Division
  <1> HIDE DEF q, r
  <1> DEFINE d == r - b
             p == d \div w
             s == d % w
  <1>0. d \in Int
    BY <1>1
  <1> HIDE DEF d
  <1>2. p \in Int /\ s \in 0 .. w - 1 /\ d = w * p + s
    BY <1>0, Division
  <1> HIDE DEF p, s
  <1>3. w * (q + p) = w * q + w * p
    BY <1>1, <1>2, Distributed
  <1>4. a - b = w * (q + p) + s /\ q + p \in Int /\ a - b \in Int
    BY <1>1, <1>2, <1>3 DEF d
  <1>5. (a - b) % w = s
    BY <1>2, <1>4, Remainder
  <1> QED
    BY <1>5 DEF r, s, d

\* A counter and what it counts change by the same number.  The provers match
\* facts on the names of these operators; on sums alone they do not.
Gap(c, n)   == (c - n) % WORD
Wrap(c, d)  == (c + d) % WORD
Grow(n, d)  == n + d

LEMMA Together ==
  ASSUME NEW c \in Int, NEW n \in Int, NEW d \in Int
  PROVE  Gap(Wrap(c, d), Grow(n, d)) = Gap(c, n)
  <1>1. c + d \in Int /\ n + d \in Int /\ WORD \in Nat \ {0}
    BY SizeAssumption
  <1>2. (((c + d) % WORD) - (n + d)) % WORD = ((c + d) - (n + d)) % WORD
    BY <1>1, Shifted
  <1>3. (c + d) - (n + d) = c - n
    OBVIOUS
  <1> QED
    BY <1>2, <1>3 DEF Gap, Wrap, Grow

LEMMA NotWrapped ==
  ASSUME NEW w \in Nat \ {0}, NEW r \in 0 .. w - 1 PROVE r % w = r
  <1>1. r = w * 0 + r /\ r \in Int
    OBVIOUS
  <1> QED
    BY <1>1, Remainder

-----------------------------------------------------------------------------
\* The number of threads of which something is true, when it becomes true or
\* false of one of them.

LEMMA Finite ==
  ASSUME IsFiniteSet(Threads), NEW S \in SUBSET Threads
  PROVE  IsFiniteSet(S) /\ Cardinality(S) \in Nat
  <1>1. IsFiniteSet(S)
    BY FS_Subset
  <1> QED
    BY <1>1, FS_CardinalityType

LEMMA OneMore ==
  ASSUME NEW S, IsFiniteSet(S), NEW t, t \notin S
  PROVE  Cardinality(S \cup {t}) = Cardinality(S) + 1
  BY FS_AddElement

LEMMA OneLess ==
  ASSUME NEW S, IsFiniteSet(S), NEW t, t \in S
  PROVE  Cardinality(S \ {t}) = Cardinality(S) - 1
  BY FS_RemoveElement

-----------------------------------------------------------------------------
\* The receivers of a service.
SameCount(b) == svc'[b].thread_waiting_message_count =
                svc[b].thread_waiting_message_count

\* Only two statements of tag_receive change who is counted ...
LEMMA StillCounted ==
  ASSUME TypeInv, NEW t \in Threads,
         Call(t) \/ Step(t) \/ MutexLock(t) \/ Signal(t),
         ~ReceiveEnter(t), ~ReceiveDec(t)
  PROVE  /\ pc'[t] \in Counted <=> pc[t] \in Counted
         /\ pc[t] \in Counted => ts'[t] = ts[t]
  <1> USE DEF At, Counted
  <1>0. pc \in [Threads -> Labels] /\ ts \in [Threads -> Blocks \cup {NULL}]
    BY DEF TypeInv, TypeOK, ThreadTypeOK
  <1>1. CASE Call(t)
    BY <1>0, <1>1 DEF Call, TagGet, TagGetInvalid, TagSend, TagReceive,
       TagCtl, Enter, Refuse
  <1>2. CASE MutexLock(t) \/ Signal(t) \/ LockOutOfBounds(t)
    BY <1>0, <1>2 DEF MutexLock, Signal, LockOutOfBounds, WaitsForLock,
       AfterLock, Oops, Goto
  <1>3. CASE TagGetStep(t)
    <2>1. CASE FindFirstEntryAvailable(t)
      BY <1>0, <2>1 DEF FindFirstEntryAvailable, FindTest, FindFull,
         FindScanTaken, FindScanFree, FindRet, FindReturns, Goto, Return
    <2>2. CASE ~FindFirstEntryAvailable(t)
      BY <1>0, <1>3, <2>2 DEF TagGetStep, InCreate, InOpen, CreateTaken,
         CreateNoMemory, CreatePublish, CreateDec, DeviceLoad, DeviceFill,
         OpenMissing, OpenFound, OpenLoad, OpenNull, OpenCheck, Oops, Goto,
         Return
    <2> QED
      BY <2>1, <2>2
  <1>4. CASE TagSendStep(t)
    BY <1>0, <1>4 DEF TagSendStep, SendRefused, SendAccepted, SendCopy,
       SendSize, SendReady, SendTest, SendWake, SendRcu, SendDiscard, Goto,
       Return
  <1>5. CASE TagReceiveStep(t)
    BY <1>0, <1>5 DEF TagReceiveStep, ReceiveRefused, ReceiveAccepted,
       ReceiveAwake, ReceiveSleep, ReceiveLock, ReceiveNothing,
       ReceiveMessage, ReceiveCopy, ReceiveRest, ReceiveUnlock,
       ReceiveDecLevel, Goto, Return
  <1>6. CASE TagCtlStep(t)
    BY <1>0, <1>6 DEF TagCtlStep, CtlAddress, CtlRefused, RemoveBusy,
       RemoveTest, CtlAccepted, RemoveMark, RemoveUnlink, RemoveInc,
       RemoveFree, AwakeCount, AwakeSet, AwakeWake, AwakeRcu, AwakeReset,
       Goto, Return
  <1> QED
    BY <1>1, <1>2, <1>3, <1>4, <1>5, <1>6 DEF Step

\* ... and only these and tag_get write the counter.
LEMMA SameCountStep ==
  ASSUME TypeInv, NEW t \in Threads,
         Call(t) \/ Step(t) \/ MutexLock(t) \/ Signal(t),
         ~CreatePublish(t), ~ReceiveEnter(t), ~ReceiveDec(t)
  PROVE  \A b \in Blocks : SameCount(b)
  <1>0. svc \in [Blocks -> Services]
    BY DEF TypeInv, TypeOK, KernelTypeOK
  <1>1. CASE svc' = svc
    BY <1>1 DEF SameCount
  <1>2. CASE RemoveMark(t) \/ AwakeSet(t) \/ AwakeReset(t)
    <2>1. PICK r : /\ svc' = [svc EXCEPT ![ts[t]] = r]
                   /\ \/ r = [svc[ts[t]] EXCEPT !.lazy_deleted = TRUE]
                      \/ \E v : r = [svc[ts[t]] EXCEPT !.awake_request = v]
      BY <1>2 DEF RemoveMark, AwakeSet, AwakeReset
    <2>2. ts[t] \in Blocks => r.thread_waiting_message_count =
                              svc[ts[t]].thread_waiting_message_count
      BY <1>0, <2>1 DEF Services
    <2> QED
      BY <1>0, <2>1, <2>2 DEF SameCount
  <1>3. CASE Call(t) \/ MutexLock(t) \/ Signal(t) \/ LockOutOfBounds(t)
    BY <1>1, <1>3 DEF Call, TagGet, TagGetInvalid, TagSend, TagReceive,
       TagCtl, MutexLock, Signal, LockOutOfBounds, kernelVars, heap
  <1>4. CASE TagGetStep(t)
    BY <1>1, <1>4 DEF TagGetStep, FindFirstEntryAvailable, FindTest, FindFull,
       FindScanTaken, FindScanFree, FindRet, CreateTaken, CreateNoMemory,
       CreateDec, DeviceLoad, DeviceFill, OpenMissing, OpenFound, OpenLoad,
       OpenNull, OpenCheck, kernelVars, heap
  <1>5. CASE TagSendStep(t)
    BY <1>1, <1>5 DEF TagSendStep, SendRefused, SendAccepted, SendCopy,
       SendSize, SendReady, SendTest, SendWake, SendRcu, SendDiscard,
       kernelVars, heap
  <1>6. CASE TagReceiveStep(t)
    BY <1>1, <1>6 DEF TagReceiveStep, ReceiveRefused, ReceiveAccepted,
       ReceiveAwake, ReceiveSleep, ReceiveLock, ReceiveNothing,
       ReceiveMessage, ReceiveCopy, ReceiveRest, ReceiveUnlock,
       ReceiveDecLevel, kernelVars, heap
  <1>7. CASE TagCtlStep(t)
    BY <1>1, <1>2, <1>7 DEF TagCtlStep, CtlAddress, CtlRefused, RemoveBusy,
       RemoveTest, RemoveUnlink, RemoveInc, RemoveFree, AwakeCount,
       AwakeWake, AwakeRcu, kernelVars, heap
  <1> QED
    BY <1>3, <1>4, <1>5, <1>6, <1>7 DEF Step

LEMMA SameCountCallback ==
  ASSUME TypeInv, RunCallback PROVE \A b \in Blocks : SameCount(b)
  <1>1. svc \in [Blocks -> Services]
    BY DEF TypeInv, TypeOK, KernelTypeOK
  <1>2. PICK cb \in callbacks : \/ svc' = svc
                               \/ svc' = [svc EXCEPT ![cb.block] =
                                   [svc[cb.block] EXCEPT !.awake_request = FALSE]]
    BY DEF RunCallback, Callback, free_after_send, reset_awake_condition
  <1> QED
    BY <1>1, <1>2 DEF SameCount, Services

MiscountSame == \A b \in Blocks :
                  b \in allocated \/ b \notin allocated' => Miscount(b)' = Miscount(b)

\* A receiver counts itself in, or out, in one step.
LEMMA ReceiverCounts ==
  ASSUME IsFiniteSet(Threads), TypeInv, NEW t \in Threads, OthersSame(t),
         ReceiveEnter(t) \/ ReceiveDec(t)
  PROVE  MiscountSame
  <1> USE DEF At
  <1>0. /\ pc \in [Threads -> Labels] /\ ts \in [Threads -> Blocks \cup {NULL}]
        /\ svc \in [Blocks -> Services] /\ WORD \in Nat \ {0}
    BY SizeAssumption DEF TypeInv, TypeOK, KernelTypeOK, ThreadTypeOK
  <1> SUFFICES ASSUME NEW b \in Blocks PROVE Miscount(b)' = Miscount(b)
    BY DEF MiscountSame
  <1> DEFINE c == svc[b].thread_waiting_message_count
             n == Cardinality(CountedOn(b))
  <1>1. IsFiniteSet(CountedOn(b)) /\ n \in Int /\ c \in Int
    BY <1>0, Finite DEF CountedOn, Services, Counter
  <1>2. ts'[t] = ts[t] /\ ts[t] \in Blocks
    BY <1>0 DEF ReceiveEnter, ReceiveDec, Goto, TypeInv, ControlOK, Knows,
       RecvLabels, Counted
  <1>3. CASE ts[t] # b
    <2>1. svc'[b] = svc[b]
      BY <1>0, <1>3 DEF ReceiveEnter, ReceiveDec
    <2>2. CountedOn(b)' = CountedOn(b)
      BY <1>2, <1>3 DEF CountedOn, OthersSame
    <2> QED
      BY <2>1, <2>2 DEF Miscount
  <1>4. CASE ts[t] = b /\ ReceiveEnter(t)
    <2>1. c' = (c + 1) % WORD
      BY <1>0, <1>2, <1>4 DEF ReceiveEnter, Services
    <2>2. pc[t] \notin Counted /\ pc'[t] \in Counted
      BY <1>0, <1>4 DEF ReceiveEnter, Goto, Counted
    <2>3. t \notin CountedOn(b) /\ CountedOn(b)' = CountedOn(b) \cup {t}
      BY <1>2, <1>4, <2>2 DEF CountedOn, OthersSame
    <2>4. n' = n + 1
      BY <1>1, <2>3, OneMore
    <2>5. c' = Wrap(c, 1) /\ n' = Grow(n, 1)
      BY <1>1, <2>1, <2>4 DEF Wrap, Grow
    <2>6. Gap(c', n') = Gap(c, n)
      BY <1>1, <2>5, Together
    <2> QED
      BY <2>6 DEF Miscount, Gap
  <1>5. CASE ts[t] = b /\ ReceiveDec(t)
    <2>1. c' = (c - 1) % WORD
      BY <1>0, <1>2, <1>5 DEF ReceiveDec, Services
    <2>2. pc[t] \in Counted /\ pc'[t] \notin Counted
      BY <1>0, <1>5 DEF ReceiveDec, Goto, Counted
    <2>3. t \in CountedOn(b) /\ CountedOn(b)' = CountedOn(b) \ {t}
      BY <1>2, <1>5, <2>2 DEF CountedOn, OthersSame
    <2>4. n' = n - 1
      BY <1>1, <2>3, OneLess
    <2>5. c' = Wrap(c, -1) /\ n' = Grow(n, -1)
      BY <1>1, <2>1, <2>4 DEF Wrap, Grow
    <2>6. Gap(c', n') = Gap(c, n)
      BY <1>1, <2>5, Together
    <2> QED
      BY <2>6 DEF Miscount, Gap
  <1> QED
    BY <1>3, <1>4, <1>5

\* tag_get writes the counter of the block it has just been given, and of no other.
LEMMA CreateCounts ==
  ASSUME TypeInv, NEW t \in Threads, OthersSame(t), CreatePublish(t)
  PROVE  MiscountSame
  <1> USE DEF At
  <1>0. /\ pc \in [Threads -> Labels] /\ svc \in [Blocks -> Services]
    BY DEF TypeInv, TypeOK, KernelTypeOK, ThreadTypeOK
  <1>1. PICK c \in FreshBlocks :
          /\ allocated' = allocated \cup {c}
          /\ \E r : svc' = [svc EXCEPT ![c] = r]
    BY DEF CreatePublish
  <1>2. c \in allocated' /\ c \notin allocated
    BY <1>1 DEF FreshBlocks
  <1>3. pc[t] \notin Counted /\ pc'[t] \notin Counted
    BY <1>0 DEF CreatePublish, InCreate, Counted
  <1>4. ASSUME NEW b \in Blocks PROVE CountedOn(b)' = CountedOn(b)
    BY <1>3 DEF CountedOn, OthersSame
  <1>5. ASSUME NEW b \in Blocks \ {c} PROVE svc'[b] = svc[b]
    BY <1>0, <1>1
  <1> QED
    BY <1>2, <1>4, <1>5 DEF MiscountSame, Miscount

LEMMA CountStep ==
  ASSUME IsFiniteSet(Threads), TypeInv, [Next]_vars
  PROVE  MiscountSame
  <1>1. ASSUME \A b \in Blocks : SameCount(b) /\ CountedOn(b)' = CountedOn(b)
        PROVE  MiscountSame
    BY <1>1 DEF MiscountSame, Miscount, SameCount
  <1>2. ASSUME NEW t \in Threads,
               Call(t) \/ Step(t) \/ MutexLock(t) \/ Signal(t)
        PROVE  MiscountSame
    <2>1. OthersSame(t)
      BY <1>2, OthersStep
    <2>2. CASE ReceiveEnter(t) \/ ReceiveDec(t)
      BY <2>1, <2>2, ReceiverCounts
    <2>3. CASE CreatePublish(t)
      BY <2>1, <2>3, CreateCounts
    <2>4. CASE ~ReceiveEnter(t) /\ ~ReceiveDec(t) /\ ~CreatePublish(t)
      <3>1. \A b \in Blocks : SameCount(b)
        BY <1>2, <2>4, SameCountStep
      <3>2. /\ pc'[t] \in Counted <=> pc[t] \in Counted
            /\ pc[t] \in Counted => ts'[t] = ts[t]
        BY <1>2, <2>4, StillCounted
      <3>3. \A b \in Blocks : CountedOn(b)' = CountedOn(b)
        BY <2>1, <3>2 DEF CountedOn, OthersSame
      <3> QED
        BY <1>1, <3>1, <3>3
    <2> QED
      BY <2>2, <2>3, <2>4
  <1>3. CASE RunCallback
    <2>1. UNCHANGED threadVars
      BY <1>3 DEF RunCallback, Callback, free_after_send,
         reset_awake_condition
    <2>2. \A b \in Blocks : CountedOn(b)' = CountedOn(b)
      BY <2>1 DEF threadVars, CountedOn
    <2> QED
      BY <1>1, <1>3, <2>2, SameCountCallback
  <1>4. CASE UNCHANGED vars
    BY <1>1, <1>4 DEF vars, kernelVars, heap, threadVars, SameCount, CountedOn
  <1> QED
    BY <1>2, <1>3, <1>4 DEF Next

\* No step of any call or callback, except the one that hands the block out
\* again, changes by how much thread_waiting_message_count and the number of
\* receivers of a block differ (modulo the word): every path of tag_receive
\* counts itself out exactly once, however memory is reused.
THEOREM ReceiversCounted ==
  ASSUME IsFiniteSet(Threads) PROVE Spec => CountKept
  <1>1. TypeInv /\ [Next]_vars => [MiscountSame]_vars
    BY CountStep
  <1>2. MiscountSame => \A b \in Blocks :
          b \in allocated \/ b \notin allocated' => Miscount(b)' = Miscount(b)
    BY DEF MiscountSame
  <1>3. TypeInv /\ [Next]_vars =>
          [\A b \in Blocks : b \in allocated \/ b \notin allocated'
             => Miscount(b)' = Miscount(b)]_vars
    BY <1>1, <1>2
  <1> QED
    BY <1>3, TypeInvariant, PTL DEF Spec, CountKept

-----------------------------------------------------------------------------
\* The empty entries, and the threads that have filled or emptied one and not
\* yet changed remaining_entries.
Empty      == {x \in Tags : all_tag_services[x] = NULL}
Publishing == {t \in Threads : pc[t] = "get_dec"}
Vacates(t) == Unlinked(t) /\ pc[t] # "rm_free"
Vacating   == {t \in Threads : Vacates(t)}

Accounted ==
  Cardinality(Empty) + Cardinality(Publishing) - Cardinality(Vacating)

LEMMA Sizes ==
  ASSUME IsFiniteSet(Threads)
  PROVE  /\ IsFiniteSet(Empty) /\ Cardinality(Empty) \in Nat
         /\ IsFiniteSet(Publishing) /\ Cardinality(Publishing) \in Nat
         /\ IsFiniteSet(Vacating) /\ Cardinality(Vacating) \in Nat
         /\ Accounted \in Int
  <1>1. IsFiniteSet(Tags)
    BY FS_Interval, SizeAssumption DEF Tags
  <1>2. IsFiniteSet(Empty) /\ Cardinality(Empty) \in Nat
    BY <1>1, FS_Subset, FS_CardinalityType DEF Empty
  <1>3. /\ IsFiniteSet(Publishing) /\ Cardinality(Publishing) \in Nat
        /\ IsFiniteSet(Vacating) /\ Cardinality(Vacating) \in Nat
    BY Finite DEF Publishing, Vacating
  <1> QED
    BY <1>2, <1>3 DEF Accounted

\* The statements around the two changes of the counter.
LEMMA StillAccounted ==
  ASSUME TypeInv, NEW t \in Threads,
         Call(t) \/ Step(t) \/ MutexLock(t) \/ Signal(t),
         ~CreatePublish(t), ~CreateDec(t), ~RemoveInc(t), ~RemoveFree(t)
  PROVE  /\ pc'[t] = "get_dec" <=> pc[t] = "get_dec"
         /\ pc'[t] = "rm_free" <=> pc[t] = "rm_free"
         /\ remaining_entries' = remaining_entries
  <1> USE DEF At, kernelVars, tsm
  <1>0. pc \in [Threads -> Labels]
    BY DEF TypeInv, TypeOK, ThreadTypeOK
  <1>1. CASE Call(t)
    BY <1>0, <1>1 DEF Call, TagGet, TagGetInvalid, TagSend, TagReceive,
       TagCtl, Enter, Refuse
  <1>2. CASE MutexLock(t) \/ Signal(t) \/ LockOutOfBounds(t)
    BY <1>0, <1>2 DEF MutexLock, Signal, LockOutOfBounds, WaitsForLock,
       AfterLock, Oops, Goto
  <1>3. CASE TagGetStep(t)
    <2>1. CASE FindFirstEntryAvailable(t)
      BY <1>0, <2>1 DEF FindFirstEntryAvailable, FindTest, FindFull,
         FindScanTaken, FindScanFree, FindRet, FindReturns, Goto, Return
    <2>2. CASE ~FindFirstEntryAvailable(t)
      BY <1>0, <1>3, <2>2 DEF TagGetStep, InCreate, InOpen, CreateTaken,
         CreateNoMemory, DeviceLoad, DeviceFill, OpenMissing, OpenFound,
         OpenLoad, OpenNull, OpenCheck, Oops, Goto, Return
    <2> QED
      BY <2>1, <2>2
  <1>4. CASE TagSendStep(t)
    BY <1>0, <1>4 DEF TagSendStep, SendRefused, SendAccepted, SendCopy,
       SendSize, SendReady, SendTest, SendWake, SendRcu, SendDiscard, Goto,
       Return
  <1>5. CASE TagReceiveStep(t)
    BY <1>0, <1>5 DEF TagReceiveStep, ReceiveRefused, ReceiveAccepted,
       ReceiveEnter, ReceiveAwake, ReceiveSleep, ReceiveLock,
       ReceiveNothing, ReceiveMessage, ReceiveCopy, ReceiveRest, ReceiveUnlock,
       ReceiveDec, ReceiveDecLevel, Goto, Return
  <1>6. CASE TagCtlStep(t)
    BY <1>0, <1>6 DEF TagCtlStep, CtlAddress, CtlRefused, RemoveBusy,
       RemoveTest, CtlAccepted, RemoveMark, RemoveUnlink, AwakeCount,
       AwakeSet, AwakeWake, AwakeRcu, AwakeReset, Goto, Return
  <1> QED
    BY <1>1, <1>2, <1>3, <1>4, <1>5, <1>6 DEF Step

LEMMA AccountsKept ==
  ASSUME IsFiniteSet(Threads), RemainingExact,
         remaining_entries' = remaining_entries, Accounted' = Accounted
  PROVE  RemainingExact'
  BY DEF RemainingExact, Accounted, Empty, Publishing, Vacating, Vacates

\* A thread that publishes a service fills an entry and owes a decrement.
LEMMA PublishAccounts ==
  ASSUME IsFiniteSet(Threads), SafeInv, NEW t \in Threads, OthersSame(t),
         CreatePublish(t)
  PROVE  remaining_entries' = remaining_entries /\ Accounted' = Accounted
  <1> USE DEF At
  <1>0. /\ pc \in [Threads -> Labels] /\ local[t].tag \in Tags
        /\ all_tag_services \in [Tags -> Blocks \cup {NULL}]
    BY DEF SafeInv, LifeInv, TypeInv, TypeOK, KernelTypeOK, ThreadTypeOK,
       ControlOK, Knows, TagCS, CreatePublish, InCreate
  <1>1. /\ pc[t] = "get_cs" /\ pc'[t] = "get_dec"
        /\ remaining_entries' = remaining_entries
        /\ all_tag_services[local[t].tag] = NULL
    BY <1>0 DEF CreatePublish, InCreate, is_entry_available
  <1>2. PICK b \in Blocks :
          all_tag_services' = [all_tag_services EXCEPT ![local[t].tag] = b]
    BY DEF CreatePublish, FreshBlocks
  <1>3. local[t].tag \in Empty /\ Empty' = Empty \ {local[t].tag}
    BY <1>0, <1>1, <1>2, DataAssumption DEF Empty
  <1>4. t \notin Publishing /\ Publishing' = Publishing \cup {t}
    BY <1>1 DEF Publishing, OthersSame
  <1>5. ~Vacates(t) /\ ~Vacates(t)'
    BY <1>1 DEF Vacates, Unlinked, Removing, Finding
  <1>6. Vacating' = Vacating
    BY <1>5 DEF Vacating, Vacates, Unlinked, Removing, OthersSame
  <1>7. /\ Cardinality(Empty') = Cardinality(Empty) - 1
        /\ Cardinality(Publishing') = Cardinality(Publishing) + 1
    BY <1>3, <1>4, Sizes, OneMore, OneLess
  <1> QED
    BY <1>1, <1>6, <1>7, Sizes DEF Accounted

\* A thread that unlinks its service empties an entry and owes an increment.
LEMMA UnlinkAccounts ==
  ASSUME IsFiniteSet(Threads), SafeInv, NEW t \in Threads, OthersSame(t),
         RemoveUnlink(t)
  PROVE  remaining_entries' = remaining_entries /\ Accounted' = Accounted
  <1> USE DEF At
  <1>0. /\ pc \in [Threads -> Labels] /\ pc[t] = "rm_null"
        /\ Knows(pc[t], ts[t], local[t])
        /\ all_tag_services \in [Tags -> Blocks \cup {NULL}]
    BY DEF SafeInv, LifeInv, TypeInv, TypeOK, KernelTypeOK, ThreadTypeOK,
       ControlOK, RemoveUnlink
  <1>1. /\ pc'[t] = "find_test" /\ ts'[t] = ts[t] /\ local'[t] = local[t]
        /\ remaining_entries' = remaining_entries
        /\ all_tag_services' =
             [all_tag_services EXCEPT ![local[t].tag] = NULL]
    BY <1>0 DEF RemoveUnlink, Goto
  <1>2. /\ local[t].tag \in Tags /\ ts[t] \in Blocks
        /\ local[t].op = "REMOVE_TAG"
    BY <1>0 DEF Knows, RemoveLabels
  <1>3. all_tag_services[local[t].tag] = ts[t]
    BY <1>0 DEF SafeInv, LifeInv, TagKnown, FoundByTag, RemoveLabels,
       ServiceInv, ThreadServiceOK
  <1>4. local[t].tag \notin Empty /\ Empty' = Empty \cup {local[t].tag}
    BY <1>0, <1>1, <1>2, <1>3, DataAssumption DEF Empty
  <1>5. Publishing' = Publishing
    BY <1>0, <1>1 DEF Publishing, OthersSame
  <1>6. ~Vacates(t) /\ Vacates(t)'
    BY <1>0, <1>1, <1>2 DEF Vacates, Unlinked, Removing, Finding
  <1>7. t \notin Vacating /\ Vacating' = Vacating \cup {t}
    BY <1>6 DEF Vacating, Vacates, Unlinked, Removing, OthersSame
  <1>8. /\ Cardinality(Empty') = Cardinality(Empty) + 1
        /\ Cardinality(Vacating') = Cardinality(Vacating) + 1
    BY <1>4, <1>7, Sizes, OneMore
  <1> QED
    BY <1>1, <1>5, <1>8, Sizes DEF Accounted

\* A thread that changes the counter no longer owes it.
LEMMA CounterAccounts ==
  ASSUME IsFiniteSet(Threads), SafeInv, RemainingExact, NEW t \in Threads,
         OthersSame(t), Step(t), CreateDec(t) \/ RemoveInc(t)
  PROVE  RemainingExact'
  <1> USE DEF At
  <1>0. /\ pc \in [Threads -> Labels] /\ Knows(pc[t], ts[t], local[t])
        /\ WORD \in Nat \ {0}
        /\ remaining_entries = Accounted % WORD
    BY SizeAssumption DEF SafeInv, LifeInv, TypeInv, TypeOK, ThreadTypeOK,
       ControlOK, RemainingExact, Accounted, Empty, Publishing, Vacating,
       Vacates
  <1>1. Empty' = Empty
    BY DEF CreateDec, RemoveInc, Empty
  <1>2. SUFFICES remaining_entries' = Accounted' % WORD
    BY DEF RemainingExact, Accounted, Empty, Publishing, Vacating, Vacates
  <1>3. CASE CreateDec(t)
    <2>1. /\ pc[t] = "get_dec" /\ pc'[t] = "get_dev"
          /\ remaining_entries' = (remaining_entries - 1) % WORD
      BY <1>0, <1>3 DEF CreateDec, Goto
    <2>2. t \in Publishing /\ Publishing' = Publishing \ {t}
      BY <2>1 DEF Publishing, OthersSame
    <2>3. ~Vacates(t) /\ ~Vacates(t)'
      BY <2>1 DEF Vacates, Unlinked, Removing, Finding
    <2>4. Vacating' = Vacating
      BY <2>3 DEF Vacating, Vacates, Unlinked, Removing, OthersSame
    <2>5. Cardinality(Publishing') = Cardinality(Publishing) - 1
      BY <2>2, Sizes, OneLess
    <2>6. Accounted' = Accounted - 1
      BY <1>1, <2>4, <2>5, Sizes DEF Accounted
    <2> QED
      BY <1>0, <2>1, <2>6, Sizes, Decremented
  <1>4. CASE RemoveInc(t)
    <2>1. /\ pc[t] = "rm_inc" /\ pc'[t] = "rm_free"
          /\ remaining_entries' = (remaining_entries + 1) % WORD
      BY <1>0, <1>4 DEF RemoveInc, Goto
    <2>2. Publishing' = Publishing
      BY <2>1 DEF Publishing, OthersSame
    <2>3. Vacates(t) /\ ~Vacates(t)'
      BY <2>1 DEF Vacates, Unlinked, Removing
    <2>4. t \in Vacating /\ Vacating' = Vacating \ {t}
      BY <2>3 DEF Vacating, Vacates, Unlinked, Removing, OthersSame
    <2>5. Cardinality(Vacating') = Cardinality(Vacating) - 1
      BY <2>4, Sizes, OneLess
    <2>6. Accounted' = Accounted + 1
      BY <1>1, <2>2, <2>5, Sizes DEF Accounted
    <2> QED
      BY <1>0, <2>1, <2>6, Sizes, Incremented
  <1> QED
    BY <1>3, <1>4

\* No other step fills or empties an entry, or changes the counter.
LEMMA OthersAccount ==
  ASSUME SafeInv, NEW t \in Threads, OthersSame(t),
         Call(t) \/ Step(t) \/ MutexLock(t) \/ Signal(t),
         ~CreatePublish(t), ~CreateDec(t), ~RemoveUnlink(t), ~RemoveInc(t)
  PROVE  remaining_entries' = remaining_entries /\ Accounted' = Accounted
  <1> USE DEF At
  <1>0. TypeInv /\ pc \in [Threads -> Labels]
    BY DEF SafeInv, LifeInv, TypeInv, TypeOK, ThreadTypeOK
  <1>1. ASSUME remaining_entries' = remaining_entries,
               all_tag_services' = all_tag_services,
               pc'[t] = "get_dec" <=> pc[t] = "get_dec",
               Vacates(t)' <=> Vacates(t)
        PROVE  remaining_entries' = remaining_entries /\ Accounted' = Accounted
    <2>1. Empty' = Empty /\ Publishing' = Publishing
      BY <1>1 DEF Empty, Publishing, OthersSame
    <2>2. Vacating' = Vacating
      BY <1>1 DEF Vacating, Vacates, Unlinked, Removing, OthersSame
    <2> QED
      BY <1>1, <2>1, <2>2 DEF Accounted
  <1>2. CASE RemoveFree(t)
    <2>1. /\ pc[t] = "rm_free" /\ pc'[t] = "idle"
          /\ UNCHANGED <<remaining_entries, all_tag_services>>
      BY <1>0, <1>2 DEF RemoveFree, Return, tsm
    <2>2. ~Vacates(t) /\ ~Vacates(t)'
      BY <2>1 DEF Vacates, Unlinked, Removing, Finding
    <2> QED
      BY <1>1, <2>1, <2>2
  <1>3. CASE RemoveMark(t)
    <2>1. /\ pc[t] = "rm_mark" /\ pc'[t] = "rm_null"
          /\ UNCHANGED <<remaining_entries, all_tag_services>>
      BY <1>0, <1>3 DEF RemoveMark, Goto, tsm
    <2>2. ~Vacates(t) /\ ~Vacates(t)'
      BY <2>1 DEF Vacates, Unlinked, Removing, Finding
    <2> QED
      BY <1>1, <2>1, <2>2
  <1>4. CASE ~RemoveFree(t) /\ ~RemoveMark(t)
    <2>1. /\ pc'[t] = "get_dec" <=> pc[t] = "get_dec"
          /\ pc'[t] = "rm_free" <=> pc[t] = "rm_free"
          /\ remaining_entries' = remaining_entries
      BY <1>0, <1>4, StillAccounted
    <2>2. all_tag_services' = all_tag_services
      BY <1>4, TableUnchanged
    <2>3. Unlinked(t)' <=> Unlinked(t)
      BY <1>4, QuietMoves DEF Moves
    <2>4. Vacates(t)' <=> Vacates(t)
      BY <2>1, <2>3 DEF Vacates
    <2> QED
      BY <1>1, <2>1, <2>2, <2>4
  <1> QED
    BY <1>2, <1>3, <1>4

LEMMA RemainingStep ==
  ASSUME IsFiniteSet(Threads), SafeInv, RemainingExact, [Next]_vars
  PROVE  RemainingExact'
  <1>1. ASSUME NEW t \in Threads,
               Call(t) \/ Step(t) \/ MutexLock(t) \/ Signal(t)
        PROVE  RemainingExact'
    <2>1. OthersSame(t)
      BY <1>1, OthersStep DEF SafeInv, LifeInv
    <2>2. CASE CreateDec(t) \/ RemoveInc(t)
      <3>1. Step(t)
        BY <2>2 DEF Step, TagGetStep, TagCtlStep
      <3> QED
        BY <2>1, <2>2, <3>1, CounterAccounts
    <2>3. CASE CreatePublish(t)
      BY <2>1, <2>3, PublishAccounts, AccountsKept
    <2>4. CASE RemoveUnlink(t)
      BY <2>1, <2>4, UnlinkAccounts, AccountsKept
    <2>5. CASE /\ ~CreatePublish(t) /\ ~CreateDec(t)
               /\ ~RemoveUnlink(t) /\ ~RemoveInc(t)
      BY <1>1, <2>1, <2>5, OthersAccount, AccountsKept
    <2> QED
      BY <2>2, <2>3, <2>4, <2>5
  <1>2. CASE RunCallback \/ UNCHANGED vars
    <2>1. UNCHANGED <<tsm, threadVars>>
      BY <1>2 DEF RunCallback, Callback, free_after_send,
         reset_awake_condition, vars, kernelVars
    <2> QED
      BY <2>1 DEF RemainingExact, tsm, threadVars, Unlinked, Removing
  <1> QED
    BY <1>1, <1>2 DEF Next

LEMMA RemainingInit == Init => RemainingExact
  <1> SUFFICES ASSUME Init PROVE remaining_entries = Accounted % WORD
    BY DEF RemainingExact, Accounted, Empty, Publishing, Vacating, Vacates
  <1>1. Empty = Tags /\ Publishing = {} /\ Vacating = {}
    BY DEF Init, Empty, Publishing, Vacating, Vacates, Unlinked, Removing,
       Finding
  <1>2. Cardinality(Tags) = MAX_TAG_SERVICES
    BY FS_Interval, SizeAssumption DEF Tags
  <1>3. Accounted = MAX_TAG_SERVICES
    BY <1>1, <1>2, FS_EmptySet, SizeAssumption DEF Accounted
  <1>4. MAX_TAG_SERVICES % WORD = MAX_TAG_SERVICES
    BY NotWrapped, SizeAssumption
  <1> QED
    BY <1>3, <1>4 DEF Init

\* remaining_entries, which ends a search of the table before it begins, never
\* drifts: however creations and deletions overlap, it differs from the number
\* of empty entries only by the calls between the two changes.
THEOREM EntriesCounted ==
  ASSUME IsFiniteSet(Threads)
  PROVE  Spec /\ [][TagsKept]_vars => []RemainingExact
  <1>1. SafeInv /\ RemainingExact /\ [Next]_vars => RemainingExact'
    BY RemainingStep
  <1> QED
    BY <1>1, RemainingInit, SafeAlways, PTL DEF Spec
=============================================================================
