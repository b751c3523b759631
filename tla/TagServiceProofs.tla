-------------------------- MODULE TagServiceProofs --------------------------
(***************************************************************************)
(* Proofs about TagService, for any number of threads, tags, levels,       *)
(* messages and blocks.                                                    *)
(***************************************************************************)
EXTENDS TagSafety, TLAPS

-----------------------------------------------------------------------------
\* Types.  TypeOK is not inductive: that a thread publishes a service at a
\* tag of the table, or writes to a level that exists, depends on where it
\* is in its system call.

SendLabels == {"send_lock", "send_cs"} \cup Posting
RecvLabels == {"recv_check", "recv_enter", "recv_dec_level"} \cup Counted
CtlLabels  == {"ctl_addr", "ctl_lock"} \cup CtlCS
RemoveLabels == {"rm_mark", "rm_null", "rm_inc", "rm_free"}

\* What a thread at statement l knows of its variable ts and its locals.
Knows(l, b, args) ==
  /\ l \in TagCS \cup {"get_dec", "get_dev", "dev_fill"} => args.tag \in Tags
  /\ l \in SendLabels \cup RecvLabels =>
       args.tag \in Tags /\ args.level \in Levels /\ b \in Blocks
  /\ l \in SendLabels => args.buffer \in Messages
  /\ l \in CtlLabels \cup RemoveLabels => args.tag \in Tags /\ b \in Blocks
  /\ l \in RemoveLabels => args.op = "REMOVE_TAG"
  /\ l \in Finding /\ args.op = "REMOVE_TAG" =>
       args.tag \in Tags /\ b \in Blocks

ControlOK == \A t \in Threads : Knows(pc[t], ts[t], local[t])

TypeInv == TypeOK /\ ControlOK

LEMMA NoLocalsType == NoLocals \in Locals
  BY SizeAssumption DEF NoLocals, Locals, Ops, GetOps, CtlOps, Permissions,
     Tags, Counter

LEMMA NoServiceType == NoService \in Services
  BY SizeAssumption DEF NoService, Services, Permissions, Tags, Counter

LEMMA NoLevelType == NoLevel \in LevelStates
  BY SizeAssumption DEF NoLevel, LevelStates, Counter

LEMMA TypeInit == Init => TypeInv
  <1> SUFFICES ASSUME Init PROVE TypeInv
    OBVIOUS
  <1>1. TypeOK
    BY NoLocalsType, NoServiceType, NoLevelType, SizeAssumption
       DEF Init, TypeOK, KernelTypeOK, ThreadTypeOK, Tags, Counter, Labels,
           Codes
  <1>2. ControlOK
    BY DEF Init, ControlOK, Knows, TagCS, CtlCS, SendLabels, RecvLabels,
           CtlLabels, RemoveLabels, Posting, Counted, Finding
  <1> QED
    BY <1>1, <1>2 DEF TypeInv

\* A step of one thread keeps the invariant if the thread knows what it has
\* to know at its new statement and the kernel's data keep their types.
LEMMA ThreadStep ==
  ASSUME TypeInv, NEW t \in Threads, NEW l \in Labels,
         NEW b \in Blocks \cup {NULL}, NEW args \in Locals,
         pc' = [pc EXCEPT ![t] = l], ts' = [ts EXCEPT ![t] = b],
         local' = [local EXCEPT ![t] = args],
         asleep' \subseteq Threads, signalled' \subseteq Threads,
         ret' \in [Threads -> Codes], KernelTypeOK', Knows(l, b, args)
  PROVE  TypeInv'
  <1>1. ThreadTypeOK'
    BY DEF TypeInv, TypeOK, ThreadTypeOK
  <1>2. ASSUME NEW u \in Threads PROVE Knows(pc'[u], ts'[u], local'[u])
    <2>1. CASE u = t
      BY <2>1 DEF TypeInv, TypeOK, ThreadTypeOK
    <2>2. CASE u # t
      BY <2>2 DEF TypeInv, TypeOK, ThreadTypeOK, ControlOK
    <2> QED
      BY <2>1, <2>2
  <1>3. ControlOK'
    BY <1>2 DEF ControlOK, Knows
  <1> QED
    BY <1>1, <1>3 DEF TypeInv, TypeOK

LEMMA GotoStep ==
  ASSUME TypeInv, NEW t \in Threads, NEW l \in Labels, Goto(t, l),
         KernelTypeOK', Knows(l, ts[t], local[t])
  PROVE  TypeInv'
  <1>1. /\ ts[t] \in Blocks \cup {NULL} /\ ts' = [ts EXCEPT ![t] = ts[t]]
        /\ local[t] \in Locals /\ local' = [local EXCEPT ![t] = local[t]]
        /\ pc' = [pc EXCEPT ![t] = l]
        /\ asleep' \subseteq Threads /\ signalled' \subseteq Threads
        /\ ret' \in [Threads -> Codes]
    BY DEF Goto, TypeInv, TypeOK, ThreadTypeOK
  <1> QED
    BY <1>1, ThreadStep

LEMMA IdleKnows == ASSUME NEW b, NEW args PROVE Knows("idle", b, args)
  BY DEF Knows, TagCS, CtlCS, SendLabels, RecvLabels, CtlLabels,
         RemoveLabels, Posting, Counted, Finding

LEMMA ReturnStep ==
  ASSUME TypeInv, NEW t \in Threads, NEW code \in Codes, Return(t, code),
         KernelTypeOK'
  PROVE  TypeInv'
  <1>1. /\ pc' = [pc EXCEPT ![t] = "idle"]
        /\ ts' = [ts EXCEPT ![t] = NULL]
        /\ local' = [local EXCEPT ![t] = NoLocals]
        /\ asleep' \subseteq Threads /\ signalled' \subseteq Threads
        /\ ret' \in [Threads -> Codes]
    BY DEF Return, TypeInv, TypeOK, ThreadTypeOK
  <1>2. "idle" \in Labels /\ Knows("idle", NULL, NoLocals)
    BY IdleKnows DEF Labels
  <1> QED
    BY <1>1, <1>2, NoLocalsType, ThreadStep

LEMMA EnterStep ==
  ASSUME TypeInv, NEW t \in Threads, NEW l \in Labels, NEW args \in Locals,
         NEW b \in Blocks \cup {NULL}, Enter(t, l, args, b),
         KernelTypeOK', Knows(l, b, args)
  PROVE  TypeInv'
  <1>1. /\ asleep' \subseteq Threads /\ signalled' \subseteq Threads
        /\ ret' \in [Threads -> Codes]
    BY DEF Enter, TypeInv, TypeOK, ThreadTypeOK, Codes
  <1> QED
    BY <1>1, ThreadStep DEF Enter

LEMMA RefuseStep ==
  ASSUME TypeInv, NEW t \in Threads, NEW code \in Codes, Refuse(t, code),
         KernelTypeOK'
  PROVE  TypeInv'
  BY DEF Refuse, TypeInv, TypeOK, ThreadTypeOK, ControlOK, Knows

\* The two ways in which most steps leave the kernel's data.
LEMMA KernelUnchanged ==
  ASSUME TypeInv, UNCHANGED kernelVars PROVE KernelTypeOK'
  BY DEF TypeInv, TypeOK, KernelTypeOK, kernelVars, tsm, heap

LEMMA OnlyLocks ==
  ASSUME TypeInv, NEW x \in Tags, NEW o \in Threads \cup {FREE, RCU},
         access_lock' = [access_lock EXCEPT ![x] = o],
         UNCHANGED <<tsm, heap, callbacks>>
  PROVE  KernelTypeOK'
  BY DEF TypeInv, TypeOK, KernelTypeOK, tsm, heap

-----------------------------------------------------------------------------
LEMMA FindReturnsType ==
  ASSUME TypeInv, NEW t \in Threads, pc[t] \in Finding, NEW x \in Tags \cup {-1},
         FindReturns(t, x), UNCHANGED kernelVars
  PROVE  TypeInv'
  <1>1. KernelTypeOK'
    BY KernelUnchanged
  <1>2. Knows(pc[t], ts[t], local[t])
    BY DEF TypeInv, ControlOK
  <1>3. CASE local[t].op = "REMOVE_TAG"
    <2>1. Knows("rm_inc", ts[t], local[t])
      BY <1>2, <1>3 DEF Knows, Finding, TagCS, CtlCS, SendLabels, RecvLabels,
                        CtlLabels, RemoveLabels, Posting, Counted
    <2> QED
      BY <1>1, <1>3, <2>1, GotoStep DEF FindReturns, Labels
  <1>4. CASE local[t].op = "CREATE_TAG" /\ x = -1
    BY <1>1, <1>4, ReturnStep DEF FindReturns, Codes
  <1>5. CASE /\ local[t].op # "REMOVE_TAG"
             /\ ~(local[t].op = "CREATE_TAG" /\ x = -1)
    <2> DEFINE args == [local[t] EXCEPT !.tag = x]
    <2>1. args \in Locals
      BY DEF TypeInv, TypeOK, ThreadTypeOK, Locals, Tags
    <2>2. Knows("get_lock", ts[t], args)
      BY DEF Knows, Finding, TagCS, CtlCS, SendLabels, RecvLabels,
             CtlLabels, RemoveLabels, Posting, Counted
    <2>3. /\ pc' = [pc EXCEPT ![t] = "get_lock"]
          /\ local' = [local EXCEPT ![t] = args]
          /\ UNCHANGED <<asleep, signalled, ts, ret>>
      BY <1>5 DEF FindReturns
    <2>4. /\ ts[t] \in Blocks \cup {NULL} /\ ts' = [ts EXCEPT ![t] = ts[t]]
          /\ asleep' \subseteq Threads /\ signalled' \subseteq Threads
          /\ ret' \in [Threads -> Codes] /\ "get_lock" \in Labels
      BY <2>3 DEF TypeInv, TypeOK, ThreadTypeOK, Labels
    <2> HIDE DEF args
    <2> QED
      BY <1>1, <2>1, <2>2, <2>3, <2>4, ThreadStep
  <1> QED
    BY <1>3, <1>4, <1>5


LEMMA MutexLockType ==
  ASSUME TypeInv, NEW t \in Threads, MutexLock(t) PROVE TypeInv'
  <1>1. KernelTypeOK'
    BY OnlyLocks DEF MutexLock
  <1>2. Knows(pc[t], ts[t], local[t])
    BY DEF TypeInv, ControlOK
  <1>3. AfterLock(t) \in Labels /\ Knows(AfterLock(t), ts[t], local[t])
    BY <1>2 DEF MutexLock, WaitsForLock, LockIndex, AfterLock, At, Labels,
       Knows, Finding, TagCS, CtlCS, SendLabels, RecvLabels, CtlLabels,
       RemoveLabels, Posting, Counted
  <1> QED
    BY <1>1, <1>3, GotoStep DEF MutexLock

LEMMA FindType ==
  ASSUME TypeInv, NEW t \in Threads, FindFirstEntryAvailable(t) PROVE TypeInv'
  <1> USE DEF At
  <1>0. /\ Knows(pc[t], ts[t], local[t])
        /\ first_free_entry \in Tags /\ local[t].i \in Tags
        /\ 0 \in Tags
    BY SizeAssumption DEF TypeInv, ControlOK, TypeOK, KernelTypeOK,
       ThreadTypeOK, Locals, Tags
  <1>1. CASE FindTest(t)
    <2>1. ASSUME NEW l \in {"find_ret", "find_full"}
          PROVE  l \in Labels /\ Knows(l, ts[t], local[t])
      BY <1>0, <1>1 DEF FindTest, Labels, Knows, Finding, TagCS, CtlCS,
         SendLabels, RecvLabels, CtlLabels, RemoveLabels, Posting, Counted
    <2> QED
      BY <1>1, <2>1, KernelUnchanged, GotoStep DEF FindTest
  <1>2. CASE FindFull(t) \/ FindScanTaken(t)
    <2>1. KernelTypeOK'
      BY <1>2, KernelUnchanged DEF FindFull, FindScanTaken, kernelVars
    <2>2. CASE FindReturns(t, -1) /\ FindFull(t)
      BY <2>2, FindReturnsType DEF FindFull, Finding
    <2>3. CASE ~FindReturns(t, -1) \/ FindScanTaken(t)
      <3>1. PICK l \in {"find_scan", "find_ret"}, j \in Tags :
              /\ pc' = [pc EXCEPT ![t] = l]
              /\ local' = [local EXCEPT ![t] = [local[t] EXCEPT !.i = j]]
              /\ UNCHANGED <<asleep, signalled, ts, ret>>
        <4>1. CASE FindFull(t)
          BY <1>0, <1>2, <2>3, <4>1 DEF FindFull, FindScanTaken
        <4>2. CASE FindScanTaken(t) /\ local[t].i < MAX_TAG_SERVICES - 1
          <5>1. local[t].i + 1 \in Tags
            BY <1>0, <4>2, SizeAssumption DEF Tags
          <5>2. pc' = [pc EXCEPT ![t] = "find_scan"]
            BY <4>2 DEF FindScanTaken, TypeInv, TypeOK, ThreadTypeOK
          <5> QED
            BY <4>2, <5>1, <5>2 DEF FindScanTaken
        <4>3. CASE FindScanTaken(t) /\ ~(local[t].i < MAX_TAG_SERVICES - 1)
          <5>1. local' = [local EXCEPT ![t] = [local[t] EXCEPT !.i = local[t].i]]
            BY <4>3 DEF FindScanTaken, TypeInv, TypeOK, ThreadTypeOK, Locals
          <5> QED
            BY <1>0, <4>3, <5>1 DEF FindScanTaken
        <4> QED
          BY <1>2, <4>1, <4>2, <4>3
      <3> DEFINE args == [local[t] EXCEPT !.i = j]
      <3>2. args \in Locals /\ l \in Labels
        BY DEF TypeInv, TypeOK, ThreadTypeOK, Locals, Labels, Finding
      <3>3. Knows(l, ts[t], args)
        <4>1. pc[t] \in Finding
          BY <1>2 DEF FindFull, FindScanTaken, Finding
        <4>2. args.op = local[t].op /\ args.tag = local[t].tag
          BY DEF TypeInv, TypeOK, ThreadTypeOK, Locals
        <4> HIDE DEF args
        <4> QED
          BY <1>0, <4>1, <4>2 DEF Knows, Finding, TagCS, CtlCS, SendLabels,
             RecvLabels, CtlLabels, RemoveLabels, Posting, Counted
      <3>4. /\ ts[t] \in Blocks \cup {NULL} /\ ts' = [ts EXCEPT ![t] = ts[t]]
            /\ asleep' \subseteq Threads /\ signalled' \subseteq Threads
            /\ ret' \in [Threads -> Codes]
        BY <3>1 DEF TypeInv, TypeOK, ThreadTypeOK
      <3> HIDE DEF args
      <3> QED
        BY <2>1, <3>1, <3>2, <3>3, <3>4, ThreadStep DEF args
    <2> QED
      BY <1>2, <2>2, <2>3
  <1>3. CASE FindScanFree(t)
    <2>1. KernelTypeOK'
      BY <1>0, <1>3 DEF FindScanFree, TypeInv, TypeOK, KernelTypeOK, heap
    <2>2. "find_ret" \in Labels /\ Knows("find_ret", ts[t], local[t])
      BY <1>0, <1>3 DEF FindScanFree, Labels, Knows, Finding, TagCS, CtlCS,
         SendLabels, RecvLabels, CtlLabels, RemoveLabels, Posting, Counted
    <2> QED
      BY <1>3, <2>1, <2>2, GotoStep DEF FindScanFree
  <1>4. CASE FindRet(t)
    BY <1>0, <1>4, FindReturnsType DEF FindRet, Finding
  <1> QED
    BY <1>1, <1>2, <1>3, <1>4 DEF FindFirstEntryAvailable


LEMMA TagGetType ==
  ASSUME TypeInv, NEW t \in Threads,
         TagGet(t) \/ TagGetInvalid(t) \/ TagGetStep(t)
  PROVE  TypeInv'
  <1> USE DEF At
  <1>0. /\ Knows(pc[t], ts[t], local[t])
        /\ KernelTypeOK
    BY DEF TypeInv, ControlOK, TypeOK
  <1>1. ASSUME TagGet(t) PROVE TypeInv'
    <2>1. PICK op \in Program[t] \cap GetOps, key \in Keys, p \in Permissions :
            LET args == [NoLocals EXCEPT !.op = op, !.key = key,
                                         !.permission = p]
            IN  \/ Enter(t, "find_test", args, NULL)
                \/ Enter(t, "get_lock",
                         [args EXCEPT !.tag = hash_function(key)], NULL)
      BY <1>1 DEF TagGet
    <2> DEFINE args == [NoLocals EXCEPT !.op = op, !.key = key,
                                        !.permission = p]
               args2 == [args EXCEPT !.tag = hash_function(key)]
    <2>2. hash_function(key) \in Int
      BY SizeAssumption, DataAssumption DEF hash_function
    <2>3. args \in Locals /\ args2 \in Locals /\ args.op # "REMOVE_TAG"
      BY <2>2, NoLocalsType DEF Locals, Ops, GetOps, NoLocals
    <2>4. "find_test" \in Labels /\ "get_lock" \in Labels
      BY DEF Labels, Finding
    <2>5. Knows("find_test", NULL, args) /\ Knows("get_lock", NULL, args2)
      BY <2>3 DEF Knows, Finding, TagCS, CtlCS, SendLabels, RecvLabels,
         CtlLabels, RemoveLabels, Posting, Counted
    <2>6. KernelTypeOK'
      BY <1>1, KernelUnchanged DEF TagGet
    <2>7. Enter(t, "find_test", args, NULL) \/ Enter(t, "get_lock", args2, NULL)
      BY <2>1
    <2> HIDE DEF args, args2
    <2> QED
      BY <2>3, <2>4, <2>5, <2>6, <2>7, EnterStep
  <1>2. CASE TagGetInvalid(t)
    BY <1>2, KernelUnchanged, RefuseStep DEF TagGetInvalid, Codes
  <1>3. CASE FindFirstEntryAvailable(t)
    BY <1>3, FindType
  <1>4. CASE CreateTaken(t) \/ CreateNoMemory(t) \/ OpenMissing(t)
             \/ OpenCheck(t)
    <2>1. local[t].tag \in Tags
      BY <1>0, <1>4 DEF CreateTaken, CreateNoMemory, OpenMissing, OpenCheck,
         InCreate, InOpen, Knows, TagCS
    <2>2. KernelTypeOK'
      BY <1>4, <2>1, OnlyLocks DEF CreateTaken, CreateNoMemory, OpenMissing,
         OpenCheck, Unlock
    <2> QED
      BY <1>4, <2>2, ReturnStep DEF CreateTaken, CreateNoMemory, OpenMissing,
         OpenCheck, Codes
  <1>5. CASE CreatePublish(t)
    <2>1. local[t].tag \in Tags /\ local[t] \in Locals /\ EUID[t] \in Users
      BY <1>0, <1>5 DEF CreatePublish, InCreate, Knows, TagCS, TypeInv,
         TypeOK, ThreadTypeOK, Users
    <2>2. PICK b \in FreshBlocks :
            /\ allocated' = allocated \cup {b}
            /\ svc' = [svc EXCEPT ![b] =
                 [NoService EXCEPT !.tag = local[t].tag,
                                   !.key = IF local[t].key = IPC_PRIVATE
                                           THEN -1 ELSE local[t].key,
                                   !.permission = local[t].permission,
                                   !.owner_euid = EUID[t]]]
            /\ level' = [level EXCEPT ![b] = [x \in Levels |-> NoLevel]]
            /\ all_tag_services' =
                 [all_tag_services EXCEPT ![local[t].tag] = b]
            /\ ts' = [ts EXCEPT ![t] = b]
      BY <1>5 DEF CreatePublish
    <2>3. b \in Blocks
      BY DEF FreshBlocks
    <2>4. svc' \in [Blocks -> Services]
      BY <1>0, <2>1, <2>2, NoServiceType DEF KernelTypeOK, Services, Locals
    <2>5. KernelTypeOK'
      BY <1>0, <1>5, <2>1, <2>2, <2>3, <2>4, NoLevelType
         DEF CreatePublish, KernelTypeOK, Unlock
    <2>6. "get_dec" \in Labels /\ Knows("get_dec", b, local[t])
      BY <2>1, <2>3 DEF Labels, Knows, Finding, TagCS, CtlCS, SendLabels,
         RecvLabels, CtlLabels, RemoveLabels, Posting, Counted
    <2>7. /\ pc' = [pc EXCEPT ![t] = "get_dec"]
          /\ local' = [local EXCEPT ![t] = local[t]]
          /\ asleep' \subseteq Threads /\ signalled' \subseteq Threads
          /\ ret' \in [Threads -> Codes]
      BY <1>5 DEF CreatePublish, TypeInv, TypeOK, ThreadTypeOK
    <2> QED
      BY <2>1, <2>2, <2>3, <2>5, <2>6, <2>7, ThreadStep
  <1>6. CASE CreateDec(t)
    <2>1. KernelTypeOK'
      BY <1>0, <1>6, SizeAssumption
         DEF CreateDec, KernelTypeOK, heap, Counter
    <2>2. "get_dev" \in Labels /\ Knows("get_dev", ts[t], local[t])
      BY <1>0, <1>6 DEF CreateDec, Labels, Knows, Finding, TagCS, CtlCS,
         SendLabels, RecvLabels, CtlLabels, RemoveLabels, Posting, Counted
    <2> QED
      BY <1>6, <2>1, <2>2, GotoStep DEF CreateDec
  <1>7. CASE DeviceLoad(t) \/ OpenLoad(t)
    <2> DEFINE b == all_tag_services[local[t].tag]
    <2>1. PICK l \in {"dev_fill", "open_check"} :
            /\ pc' = [pc EXCEPT ![t] = l]
            /\ ts' = [ts EXCEPT ![t] = b]
            /\ UNCHANGED <<asleep, signalled, local, ret, kernelVars>>
      BY <1>7 DEF DeviceLoad, OpenLoad
    <2>2. local[t].tag \in Tags /\ b \in Blocks \cup {NULL}
      BY <1>0, <1>7 DEF DeviceLoad, OpenLoad, Knows, TagCS, KernelTypeOK
    <2>3. l \in Labels /\ Knows(l, b, local[t])
      BY <2>2 DEF Labels, Knows, Finding, TagCS, CtlCS,
         SendLabels, RecvLabels, CtlLabels, RemoveLabels, Posting, Counted
    <2>4. /\ local[t] \in Locals /\ local' = [local EXCEPT ![t] = local[t]]
          /\ asleep' \subseteq Threads /\ signalled' \subseteq Threads
          /\ ret' \in [Threads -> Codes]
      BY <2>1 DEF TypeInv, TypeOK, ThreadTypeOK
    <2> HIDE DEF b
    <2> QED
      BY <2>1, <2>2, <2>3, <2>4, KernelUnchanged, ThreadStep
  <1>8. CASE DeviceFill(t) \/ OpenNull(t) \/ OpenFound(t)
    <2>1. "oops" \in Labels /\ Knows("oops", ts[t], local[t])
      BY DEF Labels, Knows, Finding, TagCS, CtlCS,
         SendLabels, RecvLabels, CtlLabels, RemoveLabels, Posting, Counted
    <2>2. "open_load" \in Labels
          /\ (OpenFound(t) => Knows("open_load", ts[t], local[t]))
      BY <1>0 DEF OpenFound, InOpen, Labels, Knows, Finding, TagCS, CtlCS,
         SendLabels, RecvLabels, CtlLabels, RemoveLabels, Posting, Counted
    <2>3. KernelTypeOK'
      BY <1>8, KernelUnchanged DEF DeviceFill, OpenNull, OpenFound
    <2> QED
      BY <1>8, <2>1, <2>2, <2>3, GotoStep, ReturnStep
         DEF DeviceFill, OpenNull, OpenFound, Oops, Codes
  <1> QED
    BY <1>1, <1>2, <1>3, <1>4, <1>5, <1>6, <1>7, <1>8 DEF TagGetStep


\* Writing one field of a level or of a service keeps its type.
LEMMA LevelWrite ==
  ASSUME TypeInv, NEW b \in Blocks, NEW l \in Levels, NEW r \in LevelStates,
         level' = [level EXCEPT ![b] = [level[b] EXCEPT ![l] = r]]
  PROVE  level' \in [Blocks -> [Levels -> LevelStates]]
  BY DEF TypeInv, TypeOK, KernelTypeOK

LEMMA ServiceWrite ==
  ASSUME TypeInv, NEW b \in Blocks, NEW r \in Services,
         svc' = [svc EXCEPT ![b] = r]
  PROVE  svc' \in [Blocks -> Services]
  BY DEF TypeInv, TypeOK, KernelTypeOK

LEMMA SendType ==
  ASSUME TypeInv, NEW t \in Threads, TagSend(t) \/ TagSendStep(t)
  PROVE  TypeInv'
  <1> USE DEF At
  <1>0. /\ Knows(pc[t], ts[t], local[t])
        /\ KernelTypeOK /\ ThreadTypeOK
    BY DEF TypeInv, ControlOK, TypeOK
  <1>1. CASE TagSend(t)
    <2>1. PICK x \in -1 .. MAX_TAG_SERVICES, l \in -1 .. MAX_LEVELS,
               m \in Messages :
            \/ Refuse(t, "EINVAL") \/ Refuse(t, "EBADF")
            \/ /\ x >= 0 /\ x <= MAX_TAG_SERVICES /\ l \in Levels
               /\ Entry(x) # NULL
               /\ Enter(t, "send_lock",
                        [NoLocals EXCEPT !.op = "send", !.tag = x,
                                         !.level = l, !.buffer = m], Entry(x))
      BY <1>1, SizeAssumption DEF TagSend
    <2> DEFINE args == [NoLocals EXCEPT !.op = "send", !.tag = x,
                                        !.level = l, !.buffer = m]
    <2>2. args \in Locals
      <3>1. x \in Int /\ l \in Int
        BY SizeAssumption
      <3> QED
        BY <3>1, NoLocalsType DEF Locals, Ops
    <2>2a. /\ args.tag = x /\ args.level = l /\ args.buffer = m
           /\ args.op = "send"
      BY DEF NoLocals
    <2>3. KernelTypeOK'
      BY <1>1, KernelUnchanged DEF TagSend
    <2>4. CASE Refuse(t, "EINVAL") \/ Refuse(t, "EBADF")
      BY <2>3, <2>4, RefuseStep DEF Codes
    <2>5. CASE /\ x >= 0 /\ x <= MAX_TAG_SERVICES /\ l \in Levels
               /\ Entry(x) # NULL /\ Enter(t, "send_lock", args, Entry(x))
      <3>1. x \in Tags /\ Entry(x) \in Blocks
        BY <1>0, <2>5 DEF Entry, KernelTypeOK
      <3> HIDE DEF args
      <3>2. "send_lock" \in Labels /\ Knows("send_lock", Entry(x), args)
        BY <2>2a, <2>5, <3>1 DEF Labels, Knows, Finding, TagCS, CtlCS,
           SendLabels, RecvLabels, CtlLabels, RemoveLabels, Posting, Counted
      <3> QED
        BY <2>2, <2>3, <2>5, <3>1, <3>2, EnterStep
    <2> HIDE DEF args
    <2> QED
      BY <2>1, <2>4, <2>5 DEF args
  <1>2. CASE TagSendStep(t)
    <2>0. /\ local[t].tag \in Tags /\ local[t].level \in Levels
          /\ ts[t] \in Blocks /\ local[t].buffer \in Messages
          /\ local[t] \in Locals
          /\ level[ts[t]] \in [Levels -> LevelStates]
          /\ svc[ts[t]] \in Services
          /\ level[ts[t]][local[t].level] \in LevelStates
      BY <1>0, <1>2 DEF TagSendStep, SendRefused, SendAccepted, SendCopy,
         SendSize, SendReady, SendTest, SendWake, SendRcu, SendDiscard, Knows,
         SendLabels, Posting, KernelTypeOK, ThreadTypeOK
    <2>1. ASSUME NEW l \in Posting
          PROVE  l \in Labels /\ Knows(l, ts[t], local[t])
      BY <2>0 DEF Labels, Knows, Finding, TagCS, CtlCS, SendLabels,
         RecvLabels, CtlLabels, RemoveLabels, Posting, Counted
    <2>2. CASE SendRefused(t)
      BY <2>0, <2>2, OnlyLocks, ReturnStep DEF SendRefused, Unlock, Codes
    <2>3. CASE SendAccepted(t) \/ SendTest(t)
      BY <2>1, <2>3, KernelUnchanged, GotoStep
         DEF SendAccepted, SendTest, Posting
    <2>4. CASE SendCopy(t) \/ SendSize(t) \/ SendReady(t)
      <3>1. PICK r \in LevelStates :
              level' = [level EXCEPT ![ts[t]] =
                          [level[ts[t]] EXCEPT ![local[t].level] = r]]
        <4>1. CASE SendCopy(t) \/ SendSize(t)
          <5>1. /\ [level[ts[t]][local[t].level] EXCEPT
                      !.message = local[t].buffer] \in LevelStates
                /\ [level[ts[t]][local[t].level] EXCEPT
                      !.message = TORN] \in LevelStates
            BY <2>0 DEF LevelStates
          <5> QED
            BY <4>1, <5>1 DEF SendCopy, SendSize
        <4>2. CASE SendReady(t)
          <5>1. [level[ts[t]][local[t].level] EXCEPT
                   !.message_ready = TRUE] \in LevelStates
            BY <2>0 DEF LevelStates
          <5> QED
            BY <4>2, <5>1 DEF SendReady
        <4> QED
          BY <2>4, <4>1, <4>2
      <3>2. KernelTypeOK'
        BY <1>0, <2>0, <2>4, <3>1, LevelWrite
           DEF SendCopy, SendSize, SendReady, KernelTypeOK, tsm
      <3> QED
        BY <2>1, <2>4, <3>2, GotoStep DEF SendCopy, SendSize, SendReady,
           Posting
    <2>5. CASE SendWake(t)
      <3>1. /\ pc' = [pc EXCEPT ![t] = "send_rcu"]
            /\ ts' = [ts EXCEPT ![t] = ts[t]]
            /\ local' = [local EXCEPT ![t] = local[t]]
            /\ asleep' \subseteq Threads /\ signalled' \subseteq Threads
            /\ ret' \in [Threads -> Codes]
        BY <1>0, <2>5 DEF SendWake, WakeUpAll, ThreadTypeOK
      <3>2. KernelTypeOK'
        BY <2>5, KernelUnchanged DEF SendWake
      <3> QED
        BY <2>0, <2>1, <3>1, <3>2, ThreadStep DEF Posting
    <2>6. CASE SendRcu(t)
      <3>1. KernelTypeOK'
        BY <1>0, <2>0, <2>6
           DEF SendRcu, CallRcu, KernelTypeOK, Callbacks, CallbackFns,
               Readers, tsm, heap
      <3> QED
        BY <2>6, <3>1, ReturnStep DEF SendRcu, SendResult, Codes
    <2>7. CASE SendDiscard(t)
      <3>1. PICK r \in LevelStates :
              level' = [level EXCEPT ![ts[t]] =
                          [level[ts[t]] EXCEPT ![local[t].level] = r]]
        <4> DEFINE r == [level[ts[t]][local[t].level] EXCEPT
                           !.message_ready = FALSE, !.message = ZERO]
        <4>1. r \in LevelStates
          BY <2>0 DEF LevelStates
        <4>2. level' = [level EXCEPT ![ts[t]] =
                          [level[ts[t]] EXCEPT ![local[t].level] = r]]
          BY <1>0, <2>0, <2>7 DEF SendDiscard, KernelTypeOK
        <4> QED
          BY <4>1, <4>2
      <3>2. level' \in [Blocks -> [Levels -> LevelStates]]
        BY <2>0, <3>1, LevelWrite
      <3>3. /\ access_lock' = [access_lock EXCEPT ![local[t].tag] = FREE]
            /\ UNCHANGED <<tsm, allocated, svc, callbacks>>
            /\ Return(t, SendResult(t))
        BY <2>7 DEF SendDiscard, Unlock
      <3>4. KernelTypeOK'
        BY <1>0, <2>0, <3>2, <3>3 DEF KernelTypeOK, tsm
      <3> QED
        BY <3>3, <3>4, ReturnStep DEF SendResult, Codes
    <2> QED
      BY <1>2, <2>2, <2>3, <2>4, <2>5, <2>6, <2>7 DEF TagSendStep
  <1> QED
    BY <1>1, <1>2


LEMMA ReceiveType ==
  ASSUME TypeInv, NEW t \in Threads, TagReceive(t) \/ TagReceiveStep(t)
  PROVE  TypeInv'
  <1> USE DEF At
  <1>0. /\ Knows(pc[t], ts[t], local[t])
        /\ KernelTypeOK /\ ThreadTypeOK
    BY DEF TypeInv, ControlOK, TypeOK
  <1>1. CASE TagReceive(t)
    <2>1. PICK x \in -1 .. MAX_TAG_SERVICES, l \in -1 .. MAX_LEVELS :
            \/ Refuse(t, "EINVAL") \/ Refuse(t, "EBADF")
            \/ /\ x \in Tags /\ l \in Levels /\ Entry(x) # NULL
               /\ Enter(t, "recv_check",
                        [NoLocals EXCEPT !.op = "receive", !.tag = x,
                                         !.level = l], Entry(x))
      BY <1>1 DEF TagReceive
    <2> DEFINE args == [NoLocals EXCEPT !.op = "receive", !.tag = x,
                                        !.level = l]
    <2>2. args \in Locals
      <3>1. x \in Int /\ l \in Int
        BY SizeAssumption
      <3> QED
        BY <3>1, NoLocalsType DEF Locals, Ops
    <2>3. args.tag = x /\ args.level = l /\ args.op = "receive"
      BY DEF NoLocals
    <2>4. KernelTypeOK'
      BY <1>1, KernelUnchanged DEF TagReceive
    <2>5. CASE Refuse(t, "EINVAL") \/ Refuse(t, "EBADF")
      BY <2>4, <2>5, RefuseStep DEF Codes
    <2>6. CASE /\ x \in Tags /\ l \in Levels /\ Entry(x) # NULL
               /\ Enter(t, "recv_check", args, Entry(x))
      <3>1. Entry(x) \in Blocks
        BY <1>0, <2>6 DEF Entry, KernelTypeOK
      <3> HIDE DEF args
      <3>2. "recv_check" \in Labels /\ Knows("recv_check", Entry(x), args)
        BY <2>3, <2>6, <3>1 DEF Labels, Knows, Finding, TagCS, CtlCS,
           SendLabels, RecvLabels, CtlLabels, RemoveLabels, Posting, Counted
      <3> QED
        BY <2>2, <2>4, <2>6, <3>1, <3>2, EnterStep
    <2> HIDE DEF args
    <2> QED
      BY <2>1, <2>5, <2>6 DEF args
  <1>2. CASE TagReceiveStep(t)
    <2>0. /\ local[t].level \in Levels /\ ts[t] \in Blocks
          /\ local[t] \in Locals
          /\ level[ts[t]] \in [Levels -> LevelStates]
          /\ level[ts[t]][local[t].level] \in LevelStates
          /\ svc[ts[t]] \in Services
          /\ pc[t] \in RecvLabels
      BY <1>0, <1>2 DEF TagReceiveStep, ReceiveRefused, ReceiveAccepted,
         ReceiveEnter, ReceiveAwake, ReceiveSleep, ReceiveLock,
         ReceiveNothing, ReceiveMessage, ReceiveCopy, ReceiveRest,
         ReceiveUnlock, ReceiveDec, ReceiveDecLevel, Knows, RecvLabels,
         Counted, KernelTypeOK,
         ThreadTypeOK
    <2>1. ASSUME NEW l \in RecvLabels, NEW args,
                 args = local[t] \/ \E m : args = [local[t] EXCEPT !.buffer = m]
          PROVE  l \in Labels /\ Knows(l, ts[t], args)
      <3>1. args.level = local[t].level /\ args.tag = local[t].tag
        BY <2>0, <2>1 DEF Locals
      <3>2. local[t].tag \in Tags
        BY <1>0, <2>0 DEF Knows
      <3> QED
        BY <2>0, <3>1, <3>2 DEF Labels, Knows, Finding, TagCS, CtlCS,
           SendLabels, RecvLabels, CtlLabels, RemoveLabels, Posting, Counted
    <2>2. CASE ReceiveRefused(t)
      BY <2>2, KernelUnchanged, ReturnStep DEF ReceiveRefused, Codes
    <2>3. CASE \/ ReceiveAccepted(t) \/ ReceiveAwake(t) \/ ReceiveLock(t)
               \/ ReceiveMessage(t)
      BY <2>1, <2>3, KernelUnchanged, GotoStep
         DEF ReceiveAccepted, ReceiveAwake, ReceiveLock, ReceiveMessage,
             RecvLabels, Counted
    <2>4. CASE ReceiveSleep(t)
      <3>1. KernelTypeOK'
        BY <2>4, KernelUnchanged DEF ReceiveSleep, kernelVars
      <3> QED
        BY <1>0, <2>4, <3>1 DEF ReceiveSleep, ThreadTypeOK, TypeInv, TypeOK,
           ControlOK, Knows
    <2>5. CASE ReceiveEnter(t) \/ ReceiveDec(t)
      <3>1. PICK n \in Counter :
              svc' = [svc EXCEPT ![ts[t]] = [svc[ts[t]] EXCEPT
                        !.thread_waiting_message_count = n]]
        <4> DEFINE c == svc[ts[t]].thread_waiting_message_count
        <4>1. (c + 1) % WORD \in Counter /\ (c - 1) % WORD \in Counter
          BY <2>0, SizeAssumption DEF Counter, Services
        <4> QED
          BY <2>5, <4>1 DEF ReceiveEnter, ReceiveDec
      <3>2. [svc[ts[t]] EXCEPT !.thread_waiting_message_count = n] \in Services
        BY <2>0 DEF Services
      <3>3. svc' \in [Blocks -> Services]
        BY <2>0, <3>1, <3>2, ServiceWrite
      <3>4. level' \in [Blocks -> [Levels -> LevelStates]]
        <4>1. CASE ReceiveEnter(t)
          <5>1. (level[ts[t]][local[t].level].thread_waiting + 1) % WORD
                  \in Counter
            BY <2>0, SizeAssumption DEF LevelStates, Counter
          <5>2. [level[ts[t]][local[t].level] EXCEPT !.thread_waiting =
                   (level[ts[t]][local[t].level].thread_waiting + 1) % WORD]
                  \in LevelStates
            BY <2>0, <5>1 DEF LevelStates
          <5> QED
            BY <2>0, <4>1, <5>2, LevelWrite DEF ReceiveEnter
        <4>2. CASE ReceiveDec(t)
          BY <1>0, <4>2 DEF ReceiveDec, KernelTypeOK
        <4> QED
          BY <2>5, <4>1, <4>2
      <3>5. KernelTypeOK'
        BY <1>0, <2>5, <3>3, <3>4
           DEF ReceiveEnter, ReceiveDec, KernelTypeOK, tsm
      <3> QED
        BY <2>1, <2>5, <3>5, GotoStep
           DEF ReceiveEnter, ReceiveDec, RecvLabels, Counted
    <2>6. CASE ReceiveNothing(t) \/ ReceiveCopy(t) \/ ReceiveRest(t)
      <3>2. KernelTypeOK'
        BY <2>6, KernelUnchanged DEF ReceiveNothing, ReceiveCopy, ReceiveRest
      <3>3. PICK args \in Locals :
              /\ local' = [local EXCEPT ![t] = args]
              /\ args = local[t]
                 \/ \E m : args = [local[t] EXCEPT !.buffer = m]
        <4>1. CASE ReceiveNothing(t)
          BY <1>0, <2>0, <4>1 DEF ReceiveNothing, ThreadTypeOK
        <4>2. CASE ReceiveCopy(t) \/ ReceiveRest(t)
          <5>1. \A m \in Messages \cup {ZERO, TORN} :
                  [local[t] EXCEPT !.buffer = m] \in Locals
            BY <2>0 DEF Locals
          <5>2. /\ level[ts[t]][local[t].level].message
                      \in Messages \cup {ZERO, TORN}
                /\ local[t].buffer \in Messages \cup {ZERO, TORN}
            BY <2>0 DEF Locals, LevelStates
          <5>3. PICK m \in Messages \cup {ZERO, TORN} :
                  local' = [local EXCEPT ![t] = [local[t] EXCEPT !.buffer = m]]
            BY <4>2, <5>2 DEF ReceiveCopy, ReceiveRest
          <5> QED
            BY <5>1, <5>3
        <4> QED
          BY <2>6, <4>1, <4>2
      <3>4. PICK l \in {"recv_rest", "recv_unlock"} :
            /\ pc' = [pc EXCEPT ![t] = l]
            /\ ts' = [ts EXCEPT ![t] = ts[t]]
            /\ asleep' \subseteq Threads /\ signalled' \subseteq Threads
            /\ ret' \in [Threads -> Codes]
        BY <1>0, <2>6 DEF ReceiveNothing, ReceiveCopy, ReceiveRest,
           ThreadTypeOK, Codes
      <3>5. l \in Labels /\ Knows(l, ts[t], args)
        BY <2>1, <3>3 DEF RecvLabels, Counted
      <3> QED
        BY <2>0, <3>2, <3>3, <3>4, <3>5, ThreadStep
    <2>7. CASE ReceiveDecLevel(t)
      <3>1. (level[ts[t]][local[t].level].thread_waiting - 1) % WORD \in Counter
        BY <2>0, SizeAssumption DEF LevelStates, Counter
      <3>2. [level[ts[t]][local[t].level] EXCEPT !.thread_waiting =
               (level[ts[t]][local[t].level].thread_waiting - 1) % WORD]
              \in LevelStates
        BY <2>0, <3>1 DEF LevelStates
      <3>3. level' \in [Blocks -> [Levels -> LevelStates]]
        BY <2>0, <2>7, <3>2, LevelWrite DEF ReceiveDecLevel
      <3>4. KernelTypeOK'
        BY <1>0, <2>7, <3>3 DEF ReceiveDecLevel, KernelTypeOK, tsm
      <3> QED
        BY <1>0, <2>7, <3>4, ReturnStep DEF ReceiveDecLevel, ThreadTypeOK
    <2>8. CASE ReceiveUnlock(t)
      <3>1. \A cb \in callbacks : [cb EXCEPT !.readers = @ \ {t}] \in Callbacks
        BY <1>0 DEF KernelTypeOK, Callbacks
      <3>2. KernelTypeOK'
        BY <1>0, <2>8, <3>1
           DEF ReceiveUnlock, ReadUnlock, KernelTypeOK, tsm, heap
      <3> QED
        BY <2>1, <2>8, <3>2, GotoStep DEF ReceiveUnlock, RecvLabels, Counted
    <2> QED
      BY <1>2, <2>2, <2>3, <2>4, <2>5, <2>6, <2>7, <2>8 DEF TagReceiveStep
  <1> QED
    BY <1>1, <1>2


LEMMA CtlType ==
  ASSUME TypeInv, NEW t \in Threads, TagCtl(t) \/ TagCtlStep(t)
  PROVE  TypeInv'
  <1> USE DEF At
  <1>0. /\ Knows(pc[t], ts[t], local[t])
        /\ KernelTypeOK /\ ThreadTypeOK
    BY DEF TypeInv, ControlOK, TypeOK
  <1>1. CASE TagCtl(t)
    <2>1. PICK op \in Program[t] \cap CtlOps, x \in -1 .. MAX_TAG_SERVICES :
            \/ Refuse(t, "EINVAL") \/ Refuse(t, "EBADF")
            \/ /\ 0 <= x /\ x <= MAX_TAG_SERVICES /\ Entry(x) # NULL
               /\ Enter(t, "ctl_addr", [NoLocals EXCEPT !.op = op, !.tag = x],
                        Entry(x))
      BY <1>1 DEF TagCtl
    <2> DEFINE args == [NoLocals EXCEPT !.op = op, !.tag = x]
    <2>2. args \in Locals
      <3>1. x \in Int
        BY SizeAssumption
      <3> QED
        BY <3>1, NoLocalsType DEF Locals, Ops
    <2>3. args.tag = x /\ args.op = op
      BY DEF NoLocals
    <2>4. KernelTypeOK'
      BY <1>1, KernelUnchanged DEF TagCtl
    <2>5. CASE Refuse(t, "EINVAL") \/ Refuse(t, "EBADF")
      BY <2>4, <2>5, RefuseStep DEF Codes
    <2>6. CASE /\ 0 <= x /\ x <= MAX_TAG_SERVICES /\ Entry(x) # NULL
               /\ Enter(t, "ctl_addr", args, Entry(x))
      <3>1. x \in Tags /\ Entry(x) \in Blocks
        BY <1>0, <2>6 DEF Entry, KernelTypeOK
      <3> HIDE DEF args
      <3>2. "ctl_addr" \in Labels /\ Knows("ctl_addr", Entry(x), args)
        BY <2>3, <2>6, <3>1 DEF Labels, Knows, Finding, TagCS, CtlCS,
           SendLabels, RecvLabels, CtlLabels, RemoveLabels, Posting, Counted
      <3> QED
        BY <2>2, <2>4, <2>6, <3>1, <3>2, EnterStep
    <2> HIDE DEF args
    <2> QED
      BY <2>1, <2>5, <2>6 DEF args
  <1>2. CASE TagCtlStep(t) /\ pc[t] \in CtlLabels
    <2>0. /\ local[t].tag \in Tags /\ ts[t] \in Blocks
          /\ local[t] \in Locals /\ local[t].lock \in Tags
          /\ svc[ts[t]] \in Services /\ svc[ts[t]].tag \in Tags
      BY <1>0, <1>2 DEF Knows, KernelTypeOK, ThreadTypeOK, Services, Locals
    <2>1. ASSUME NEW l \in CtlLabels \ {"rm_mark"}, NEW args,
                 args.tag = local[t].tag
          PROVE  l \in Labels /\ Knows(l, ts[t], args)
      BY <2>0, <2>1 DEF Labels, Knows, Finding, TagCS, CtlCS,
         SendLabels, RecvLabels, CtlLabels, RemoveLabels, Posting, Counted
    <2>2. CASE CtlAddress(t) \/ AwakeCount(t)
      <3>1. PICK args \in Locals, l \in {"ctl_lock", "aw_set"} :
              /\ local' = [local EXCEPT ![t] = args]
              /\ args.tag = local[t].tag
              /\ pc' = [pc EXCEPT ![t] = l]
        <4>1. CASE CtlAddress(t)
          <5>1. [local[t] EXCEPT !.lock = svc[ts[t]].tag] \in Locals
            BY <2>0 DEF Locals
          <5>2. [local[t] EXCEPT !.lock = svc[ts[t]].tag].tag = local[t].tag
            BY <2>0 DEF Locals
          <5> QED
            BY <4>1, <5>1, <5>2 DEF CtlAddress
        <4>2. CASE AwakeCount(t)
          <5>1. [local[t] EXCEPT !.awakened =
                   svc[ts[t]].thread_waiting_message_count] \in Locals
            BY <2>0 DEF Locals, Services
          <5>2. [local[t] EXCEPT !.awakened =
                   svc[ts[t]].thread_waiting_message_count].tag = local[t].tag
            BY <2>0 DEF Locals
          <5> QED
            BY <4>2, <5>1, <5>2 DEF AwakeCount
        <4> QED
          BY <2>2, <4>1, <4>2
      <3>2. l \in Labels /\ Knows(l, ts[t], args)
        BY <2>1, <3>1 DEF CtlLabels, CtlCS
      <3>3. /\ ts' = [ts EXCEPT ![t] = ts[t]]
            /\ asleep' \subseteq Threads /\ signalled' \subseteq Threads
            /\ ret' \in [Threads -> Codes]
        BY <1>0, <2>2 DEF CtlAddress, AwakeCount, ThreadTypeOK
      <3>4. KernelTypeOK'
        BY <2>2, KernelUnchanged DEF CtlAddress, AwakeCount, kernelVars
      <3> QED
        BY <2>0, <3>1, <3>2, <3>3, <3>4, ThreadStep
    <2>3. CASE CtlRefused(t) \/ RemoveBusy(t)
      BY <2>0, <2>3, OnlyLocks, ReturnStep
         DEF CtlRefused, RemoveBusy, Unlock, Codes
    <2>4. CASE RemoveTest(t)
      <3>1. "rm_mark" \in Labels /\ Knows("rm_mark", ts[t], local[t])
        BY <2>0, <2>4 DEF RemoveTest, CtlAccepted, Labels, Knows, Finding,
           TagCS, CtlCS, SendLabels, RecvLabels, CtlLabels, RemoveLabels,
           Posting, Counted
      <3> QED
        BY <2>4, <3>1, KernelUnchanged, GotoStep DEF RemoveTest
    <2>5. CASE RemoveMark(t) \/ AwakeSet(t) \/ AwakeReset(t)
      <3>1. PICK r \in Services : svc' = [svc EXCEPT ![ts[t]] = r]
        <4>1. CASE RemoveMark(t)
          <5>1. [svc[ts[t]] EXCEPT !.lazy_deleted = TRUE] \in Services
            BY <2>0 DEF Services
          <5> QED
            BY <4>1, <5>1 DEF RemoveMark
        <4>2. CASE AwakeSet(t) \/ AwakeReset(t)
          <5>1. /\ [svc[ts[t]] EXCEPT !.awake_request = TRUE] \in Services
                /\ [svc[ts[t]] EXCEPT !.awake_request = FALSE] \in Services
            BY <2>0 DEF Services
          <5> QED
            BY <4>2, <5>1 DEF AwakeSet, AwakeReset
        <4> QED
          BY <2>5, <4>1, <4>2
      <3>2. svc' \in [Blocks -> Services]
        BY <2>0, <3>1, ServiceWrite
      <3>3. KernelTypeOK'
        BY <1>0, <2>0, <2>5, <3>2
           DEF RemoveMark, AwakeSet, AwakeReset, Unlock, KernelTypeOK, tsm
      <3>4. RemoveMark(t) =>
              "rm_null" \in Labels /\ Knows("rm_null", ts[t], local[t])
        BY <1>0, <2>0 DEF RemoveMark, Labels, Knows, Finding,
           TagCS, CtlCS, SendLabels, RecvLabels, CtlLabels, RemoveLabels,
           Posting, Counted
      <3> QED
        BY <2>1, <2>5, <3>3, <3>4, GotoStep, ReturnStep
           DEF RemoveMark, AwakeSet, AwakeReset, CtlLabels, CtlCS, Codes
    <2>6. CASE AwakeWake(t)
      <3>1. PICK l \in {"aw_rcu", "aw_reset"} :
              /\ pc' = [pc EXCEPT ![t] = l]
              /\ ts' = [ts EXCEPT ![t] = ts[t]]
              /\ local' = [local EXCEPT ![t] = local[t]]
              /\ asleep' \subseteq Threads /\ signalled' \subseteq Threads
              /\ ret' \in [Threads -> Codes]
        BY <1>0, <2>6 DEF AwakeWake, WakeUpAll, ThreadTypeOK
      <3>2. KernelTypeOK'
        BY <2>6, KernelUnchanged DEF AwakeWake
      <3>3. l \in Labels /\ Knows(l, ts[t], local[t])
        BY <2>1 DEF CtlLabels, CtlCS
      <3> QED
        BY <2>0, <3>1, <3>2, <3>3, ThreadStep
    <2>7. CASE AwakeRcu(t)
      <3>1. 0 \in Levels
        BY SizeAssumption DEF Levels
      <3>2. KernelTypeOK'
        BY <1>0, <2>0, <2>7, <3>1
           DEF AwakeRcu, CallRcu, KernelTypeOK, Callbacks, CallbackFns,
               Readers, tsm, heap
      <3> QED
        BY <2>7, <3>2, ReturnStep DEF AwakeRcu, Codes
    <2>8. CASE RemoveUnlink(t) \/ RemoveInc(t) \/ RemoveFree(t)
      BY <1>2, <2>8 DEF RemoveUnlink, RemoveInc, RemoveFree, CtlLabels, CtlCS
    <2> QED
      BY <1>2, <2>2, <2>3, <2>4, <2>5, <2>6, <2>7, <2>8 DEF TagCtlStep
  <1>3. CASE TagCtlStep(t) /\ pc[t] \notin CtlLabels
    <2>1. RemoveUnlink(t) \/ RemoveInc(t) \/ RemoveFree(t)
      BY <1>3 DEF TagCtlStep, CtlAddress, CtlRefused, RemoveBusy, RemoveTest,
         CtlAccepted, RemoveMark, AwakeCount, AwakeSet, AwakeWake, AwakeRcu,
         AwakeReset, CtlLabels, CtlCS
    <2>2. local[t].tag \in Tags /\ ts[t] \in Blocks
          /\ local[t].op = "REMOVE_TAG"
      BY <1>0, <2>1 DEF RemoveUnlink, RemoveInc, RemoveFree, Knows,
         RemoveLabels
    <2>3. ASSUME NEW l \in {"find_test", "rm_free"}
          PROVE  l \in Labels /\ Knows(l, ts[t], local[t])
      BY <2>2 DEF Labels, Knows, Finding, TagCS, CtlCS,
         SendLabels, RecvLabels, CtlLabels, RemoveLabels, Posting, Counted
    <2>4. KernelTypeOK'
      BY <1>0, <2>1, <2>2, SizeAssumption
         DEF RemoveUnlink, RemoveInc, RemoveFree, KernelTypeOK, Counter,
             tsm, heap
    <2> QED
      BY <2>1, <2>3, <2>4, GotoStep, ReturnStep
         DEF RemoveUnlink, RemoveInc, RemoveFree, Codes
  <1> QED
    BY <1>1, <1>2, <1>3

LEMMA CallbackType ==
  ASSUME TypeInv, NEW cb \in callbacks, Callback(cb) PROVE TypeInv'
  <1>1. /\ cb.block \in Blocks /\ cb.level \in Levels
        /\ KernelTypeOK
        /\ level[cb.block][cb.level] \in LevelStates
        /\ level[cb.block] \in [Levels -> LevelStates]
        /\ svc[cb.block] \in Services /\ svc[cb.block].tag \in Tags
    BY DEF TypeInv, TypeOK, KernelTypeOK, Callbacks, Services
  <1>2. UNCHANGED threadVars
    BY DEF Callback, free_after_send, reset_awake_condition
  <1>3. ASSUME free_after_send(cb) PROVE KernelTypeOK'
    <2> DEFINE r == [level[cb.block][cb.level] EXCEPT
                       !.message_ready = FALSE, !.message = ZERO]
    <2>1. r \in LevelStates
      BY <1>1 DEF LevelStates
    <2>2. level' = [level EXCEPT ![cb.block] =
                      [level[cb.block] EXCEPT ![cb.level] = r]]
      BY <1>1, <1>3 DEF free_after_send, KernelTypeOK
    <2>3. level' \in [Blocks -> [Levels -> LevelStates]]
      BY <1>1, <2>1, <2>2, LevelWrite
    <2>4. /\ access_lock' = [access_lock EXCEPT ![svc[cb.block].tag] = FREE]
          /\ callbacks' \subseteq callbacks
          /\ UNCHANGED <<tsm, allocated, svc>>
      BY <1>3 DEF free_after_send, Unlock
    <2> QED
      BY <1>1, <2>3, <2>4 DEF KernelTypeOK, tsm
  <1>4. ASSUME reset_awake_condition(cb) PROVE KernelTypeOK'
    <2>1. [svc[cb.block] EXCEPT !.awake_request = FALSE] \in Services
      BY <1>1 DEF Services
    <2>2. svc' \in [Blocks -> Services]
      BY <1>1, <1>4, <2>1, ServiceWrite DEF reset_awake_condition
    <2> QED
      BY <1>1, <1>4, <2>2
         DEF reset_awake_condition, Unlock, KernelTypeOK, tsm
  <1>5. KernelTypeOK'
    BY <1>3, <1>4 DEF Callback
  <1> QED
    BY <1>2, <1>5 DEF threadVars, TypeInv, TypeOK, ThreadTypeOK, ControlOK,
       Knows

LEMMA TypeStep == TypeInv /\ [Next]_vars => TypeInv'
  <1> SUFFICES ASSUME TypeInv, [Next]_vars PROVE TypeInv'
    OBVIOUS
  <1>1. ASSUME NEW t \in Threads, Call(t) \/ Step(t) \/ MutexLock(t)
        PROVE  TypeInv'
    <2>1. CASE LockOutOfBounds(t)
      <3>1. "oops" \in Labels /\ Knows("oops", ts[t], local[t])
        BY DEF Labels, Knows, Finding, TagCS, CtlCS,
           SendLabels, RecvLabels, CtlLabels, RemoveLabels, Posting, Counted
      <3> QED
        BY <2>1, <3>1, KernelUnchanged, GotoStep DEF LockOutOfBounds, Oops
    <2> QED
      BY <1>1, <2>1, MutexLockType, TagGetType, SendType, ReceiveType, CtlType
         DEF Call, Step
  <1>2. ASSUME NEW t \in Threads, Signal(t) PROVE TypeInv'
    <2>1. KernelTypeOK'
      BY <1>2, KernelUnchanged DEF Signal, kernelVars
    <2> QED
      BY <1>2, <2>1 DEF Signal, TypeInv, TypeOK, ThreadTypeOK, ControlOK, Knows
  <1>3. CASE RunCallback
    BY <1>3, CallbackType DEF RunCallback
  <1>4. CASE UNCHANGED vars
    BY <1>4, KernelUnchanged DEF vars, threadVars, TypeInv, TypeOK,
       ThreadTypeOK, ControlOK, Knows
  <1> QED
    BY <1>1, <1>2, <1>3, <1>4 DEF Next

LEMMA TypeInvariant == Spec => []TypeInv
  BY TypeInit, TypeStep, PTL DEF Spec

\* Every variable keeps its type, whatever the threads do: counters stay in
\* their machine word, the scan of find_first_entry_available stays in the
\* table, messages are written only to levels that exist, and services are
\* published only at tags of the table.
THEOREM TypeCorrect == Spec => []TypeOK
  BY TypeInvariant, PTL DEF TypeInv
=============================================================================
