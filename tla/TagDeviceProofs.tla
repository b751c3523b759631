--------------------------- MODULE TagDeviceProofs ---------------------------
(***************************************************************************)
(* Proofs about the device of a tag: for any finite number of threads and  *)
(* any number of levels, services and buffers.  Everything rests on        *)
(* device_lock: between ts_create_char_device_file, update_chrdev,         *)
(* ts_destroy_char_device_file and ts_read it has one owner, so the text   *)
(* and the pointer to it change by one hand at a time, while the counters  *)
(* that the text shows change without it.                                  *)
(***************************************************************************)
EXTENDS DeviceSafety, FiniteSetTheorems, TLAPS

-----------------------------------------------------------------------------
\* The inductive invariant.

\* What a thread at statement l knows of its variables.
Knows(l, service_, back_, dev_) ==
  /\ l \in {"rc_count", "rc_wait", "rc_level", "rm_lock", "rm_dev", "rm_null",
            "rm_free"} => service_ \in Services
  /\ l \in {"rc_wait", "rc_level"} => back_ = "rc_wait"
  /\ back_ = "rc_wait" =>
       l \in Updating \cup {"rc_wait", "rc_level", "oops"}
       /\ service_ \in Services
  /\ l = "up_read" => dev_ \in Services

Receivers(l) == {t \in Threads : Level[t] = l /\ "receive" \in Program[t]}

ControlOK == \A t \in Threads :
  /\ Knows(pc[t], ts[t], back[t], dev[t])
  /\ pc[t] \in Updating \cup {"rc_count"} \/ back[t] = "rc_wait"
       => "receive" \in Program[t]

\* device_lock has one owner.
LockOK == \A t \in Threads : pc[t] \in HoldsLock => device_lock = t

\* The receivers that a service, or a level of it, counts.
In(b)    == {t \in Threads : back[t] = "rc_wait" /\ ts[t] = b}
Staying(b) == {t \in In(b) : pc[t] # "rc_level"}
On(b, l) == {t \in In(b) : Level[t] = l}

CountsOK == \A b \in Services :
  /\ count[b] = Cardinality(Staying(b))
  /\ \A l \in Levels : thread_waiting[b][l] = Cardinality(On(b, l))

\* Buffers, and the owner of device_lock.
Replacing(t) == pc[t] \in {"up_free", "up_assign"}

BuffersOK ==
  /\ registered =>
       \/ content \in buffers
       \/ \E t \in Threads : pc[t] \in {"mk_alloc", "up_assign"}
  /\ content \in buffers => registered
  /\ buffers \subseteq {content} \cup {buf[t] : t \in {u \in Threads : Replacing(u)}}
  /\ \A t \in Threads :
       /\ pc[t] \in {"mk_alloc", "mk_fill"} \/ Replacing(t) => registered
       /\ pc[t] \in {"mk_alloc", "up_assign"} => content \notin buffers
       /\ pc[t] \in {"mk_fill", "up_free"} => content \in buffers
       /\ Replacing(t) => buf[t] \in buffers \ {content} /\ content \in Buffers

\* Without zeroed memory strncat may spoil any text.
JunkOK == InitOnAlloc =>
  /\ content \in buffers \cap junk =>
       \E t \in Threads : device_lock = t /\ pc[t] \in {"mk_fill", "oops"}
  /\ \A t \in Threads : Replacing(t) => buf[t] \notin junk

\* The new text that an update has built under the lock.
TextsOK == \A t \in Threads : Replacing(t) =>
  /\ text[buf[t]] = [text[content] EXCEPT !.line[Level[t]] = waiting_n[t]]
  /\ content \in junk => buf[t] \in junk

Sole(l) == Cardinality(Receivers(l)) < 2

\* What the only receiver of a level has read before it had the lock.
ReadOK == \A t \in Threads : Sole(Level[t]) =>
  /\ pc[t] \in Updating \ {"up_load"} /\ back[t] = "rc_wait" /\ ts[t] = entry
       => dev[t] = entry
  /\ pc[t] \in Updating \ {"up_load", "up_read"} =>
       /\ back[t] = "idle" => waiting_n[t] = 0
       /\ back[t] = "rc_wait" /\ ts[t] = entry => waiting_n[t] = 1

\* The device shows a text written for the service of the entry.
Shown == /\ content \in buffers \/ \E t \in Threads : pc[t] = "up_assign"
         /\ content \notin junk
         /\ entry # NULL /\ text[content].service = entry

\* Level l has at most one receiver, which waits on that service, if at all,
\* and is not between a change of its counts and the end of its update.
Steady(l) == /\ Sole(l)
             /\ \A t \in Receivers(l) : /\ pc[t] \notin Updating
                                        /\ back[t] = "rc_wait" => ts[t] = entry

LinesOK == Shown => \A l \in Levels :
  Steady(l) => text[content].line[l] = thread_waiting[entry][l]

DeviceInv == /\ TypeOK /\ ControlOK /\ LockOK /\ CountsOK
             /\ BuffersOK /\ JunkOK

LineInv == DeviceInv /\ TextsOK /\ ReadOK /\ LinesOK
-----------------------------------------------------------------------------
\* A step of t, whatever it does, and what it leaves of the other threads.
Acts(t) == Environment(t) \/ Step(t) \/ TakeLock(t)

OthersSame(t) == \A u \in Threads \ {t} :
  /\ pc'[u] = pc[u] /\ ts'[u] = ts[u] /\ dev'[u] = dev[u]
  /\ buf'[u] = buf[u] /\ waiting_n'[u] = waiting_n[u] /\ back'[u] = back[u]

LEMMA OthersStep ==
  ASSUME TypeOK, NEW t \in Threads, Acts(t)
  PROVE  OthersSame(t)
  <1> USE DEF OthersSame, TypeOK, Goto, Oops, Lock, locals
  <1>1. CASE Environment(t)
    BY <1>1 DEF Environment, TagCreate, TagReceive, TagRemove, TsOpen,
       TsRelease, ReadBegin, ReadKilled, ReceiveLeave
  <1>2. CASE TakeLock(t)
    BY <1>2 DEF TakeLock, CreateLock, UpdateLock, RemoveLock, ReadLock
  <1>3. CASE CreateStep(t)
    BY <1>3 DEF CreateStep, CreateLoad, CreateFail, CreateNode, CreateAlloc,
       CreateFill, CreateNull
  <1>4. CASE UpdateStep(t)
    BY <1>4 DEF UpdateStep, UpdateLoad, UpdateRead, UpdateBuild, UpdateWild,
       UpdateFree, UpdateAssign
  <1>5. CASE RemoveStep(t)
    BY <1>5 DEF RemoveStep, RemoveDevice, RemoveTwice, RemoveUnlink, RemoveFree
  <1>6. CASE ReceiveCount(t) \/ ReceiveLevel(t) \/ ReadNull(t) \/ ReadCopy(t)
             \/ ReadOut(t)
    BY <1>6 DEF ReceiveCount, ReceiveLevel, ReadNull, ReadCopy, ReadOut
  <1> QED
    BY <1>1, <1>2, <1>3, <1>4, <1>5, <1>6 DEF Acts, Step

\* A step takes the lock, gives it back, or leaves it where it is.
LockMove(t) ==
  \/ device_lock = NULL /\ device_lock' = t
  \/ pc[t] \in HoldsLock /\ device_lock' = NULL /\ pc'[t] \notin HoldsLock
  \/ device_lock' = device_lock /\ (pc'[t] \in HoldsLock => pc[t] \in HoldsLock)

LEMMA LockMoves ==
  ASSUME TypeOK, NEW t \in Threads, Acts(t)
  PROVE  LockMove(t)
  <1> USE DEF LockMove, TypeOK, At, Goto, Oops, Lock, driver, HoldsLock
  <1>1. CASE Environment(t)
    BY <1>1 DEF Environment, TagCreate, TagReceive, TagRemove, TsOpen,
       TsRelease, ReadBegin, ReadKilled, ReceiveLeave
  <1>2. CASE TakeLock(t)
    BY <1>2 DEF TakeLock, CreateLock, UpdateLock, RemoveLock, ReadLock
  <1>3. CASE CreateStep(t)
    BY <1>3 DEF CreateStep, CreateLoad, CreateFail, CreateNode, CreateAlloc,
       CreateFill, CreateNull
  <1>4. CASE UpdateStep(t)
    BY <1>4 DEF UpdateStep, UpdateLoad, UpdateRead, UpdateBuild, UpdateWild,
       UpdateFree, UpdateAssign
  <1>5. CASE RemoveStep(t)
    BY <1>5 DEF RemoveStep, RemoveDevice, RemoveTwice, RemoveUnlink, RemoveFree
  <1>6. CASE ReceiveCount(t) \/ ReceiveLevel(t) \/ ReadNull(t) \/ ReadCopy(t)
             \/ ReadOut(t)
    BY <1>6 DEF ReceiveCount, ReceiveLevel, ReadNull, ReadCopy, ReadOut
  <1> QED
    BY <1>1, <1>2, <1>3, <1>4, <1>5, <1>6 DEF Acts, Step

LEMMA LockStep ==
  ASSUME TypeOK, LockOK, NEW t \in Threads, Acts(t)
  PROVE  LockOK'
  BY OthersStep, LockMoves, DeviceAssumption DEF LockMove, OthersSame, LockOK

\* Two threads are never both behind device_lock.
LEMMA Alone ==
  ASSUME LockOK, NEW t \in Threads, pc[t] \in HoldsLock,
         NEW u \in Threads \ {t}
  PROVE  pc[u] \notin HoldsLock
  BY DEF LockOK

-----------------------------------------------------------------------------
\* Control.

LEMMA ControlStep ==
  ASSUME TypeOK, ControlOK, NEW t \in Threads, Acts(t)
  PROVE  ControlOK'
  <1>0. /\ pc \in [Threads -> Updating \cup HoldsLock \cup Creating
                                \cup Removing \cup Other]
        /\ ts \in [Threads -> Services \cup {NULL}]
        /\ dev \in [Threads -> Services \cup {NULL}]
        /\ back \in [Threads -> {"idle", "rc_wait"}]
        /\ entry \in Services \cup {NULL}
        /\ Knows(pc[t], ts[t], back[t], dev[t])
        /\ (pc[t] \in Updating \cup {"rc_count"} \/ back[t] = "rc_wait")
             => "receive" \in Program[t]
    BY DEF TypeOK, ControlOK
  <1>1. SUFFICES /\ Knows(pc'[t], ts'[t], back'[t], dev'[t])
                 /\ (pc'[t] \in Updating \cup {"rc_count"}
                       \/ back'[t] = "rc_wait") => "receive" \in Program[t]
    BY OthersStep DEF ControlOK, OthersSame
  <1> USE <1>0 DEF Knows, At, Goto, Oops, Lock, Updating, locals
  <1>2. CASE Environment(t)
    BY <1>2 DEF Environment, TagCreate, TagReceive, TagRemove, TsOpen,
       TsRelease, ReadBegin, ReadKilled, ReceiveLeave
  <1>3. CASE TakeLock(t)
    BY <1>3 DEF TakeLock, CreateLock, UpdateLock, RemoveLock, ReadLock
  <1>4. CASE CreateStep(t)
    BY <1>4 DEF CreateStep, CreateLoad, CreateFail, CreateNode, CreateAlloc,
       CreateFill, CreateNull
  <1>5. CASE UpdateStep(t)
    BY <1>5 DEF UpdateStep, UpdateLoad, UpdateRead, UpdateBuild, UpdateWild,
       UpdateFree, UpdateAssign
  <1>6. CASE RemoveStep(t)
    BY <1>6 DEF RemoveStep, RemoveDevice, RemoveTwice, RemoveUnlink, RemoveFree
  <1>7. CASE ReceiveCount(t) \/ ReceiveLevel(t) \/ ReadNull(t) \/ ReadCopy(t)
             \/ ReadOut(t)
    BY <1>7 DEF ReceiveCount, ReceiveLevel, ReadNull, ReadCopy, ReadOut
  <1> QED
    BY <1>2, <1>3, <1>4, <1>5, <1>6, <1>7 DEF Acts, Step
-----------------------------------------------------------------------------
\* The counters of a service.

LEMMA FiniteThreads ==
  ASSUME NEW S \in SUBSET Threads
  PROVE  IsFiniteSet(S) /\ Cardinality(S) \in Nat
  <1>1. IsFiniteSet(S)
    BY FS_Subset, DeviceAssumption
  <1> QED
    BY <1>1, FS_CardinalityType

LEMMA OneMore ==
  ASSUME NEW S \in SUBSET Threads, NEW t \in Threads \ S
  PROVE  Cardinality(S \cup {t}) = Cardinality(S) + 1
  BY FiniteThreads, FS_AddElement

LEMMA OneLess ==
  ASSUME NEW S \in SUBSET Threads, NEW t \in S
  PROVE  Cardinality(S \ {t}) = Cardinality(S) - 1
  BY FiniteThreads, FS_RemoveElement

LEMMA NotZero ==
  ASSUME NEW S \in SUBSET Threads, NEW t \in S
  PROVE  Cardinality(S) - 1 \in Nat
  <1>1. Cardinality(S \ {t}) \in Nat
    BY FiniteThreads
  <1> QED
    BY <1>1, OneLess

\* Statements that change neither the counters nor who is counted.
LEMMA CountsFrame ==
  ASSUME CountsOK, NEW t \in Threads, OthersSame(t),
         UNCHANGED <<count, thread_waiting>>, back'[t] = back[t],
         back[t] = "rc_wait" => /\ ts'[t] = ts[t]
                                /\ pc'[t] = "rc_level" <=> pc[t] = "rc_level"
  PROVE  CountsOK'
  <1>1. \A b \in Services : In(b)' = In(b)
    BY DEF In, OthersSame
  <1>2. \A b \in Services : Staying(b)' = Staying(b)
    BY <1>1 DEF Staying, In, OthersSame
  <1>3. \A b \in Services, l \in Levels : On(b, l)' = On(b, l)
    BY <1>1 DEF On
  <1> QED
    BY <1>2, <1>3 DEF CountsOK

\* A new service counts nobody, and nobody points to it.
LEMMA CountsCreate ==
  ASSUME TypeOK, ControlOK, CountsOK, NEW t \in Threads, OthersSame(t),
         TagCreate(t)
  PROVE  CountsOK'
  <1> USE DEF At, Goto, locals
  <1>1. PICK b \in FreshServices :
          /\ count' = [count EXCEPT ![b] = 0]
          /\ thread_waiting' = [thread_waiting EXCEPT ![b] = NoText.line]
    BY DEF TagCreate
  <1>2. b \in Services /\ \A u \in Threads : ts[u] # b
    BY <1>1 DEF FreshServices
  <1>3. pc[t] = "idle" /\ back[t] # "rc_wait" /\ back'[t] = back[t]
    BY DEF TagCreate, ControlOK, Knows, Updating
  <1>4. ASSUME NEW c \in Services
        PROVE  /\ In(c)' = In(c) /\ Staying(c)' = Staying(c)
               /\ \A l \in Levels : On(c, l)' = On(c, l)
    BY <1>3 DEF In, Staying, On, OthersSame
  <1>5. /\ In(b) = {} /\ Staying(b) = {}
        /\ \A l \in Levels : On(b, l) = {}
    BY <1>2 DEF In, Staying, On
  <1>6. /\ count'[b] = 0
        /\ \A l \in Levels : thread_waiting'[b][l] = 0
    BY <1>1, <1>2 DEF TypeOK, NoText
  <1>7. \A c \in Services \ {b} : /\ count'[c] = count[c]
                                 /\ thread_waiting'[c] = thread_waiting[c]
    BY <1>1 DEF TypeOK
  <1>8. ASSUME NEW c \in Services
        PROVE  /\ count'[c] = Cardinality(Staying(c))
               /\ \A l \in Levels : thread_waiting'[c][l] = Cardinality(On(c, l))
    <2>1. CASE c = b
      BY <1>5, <1>6, <2>1, FS_EmptySet
    <2>2. CASE c # b
      BY <1>7, <2>2 DEF CountsOK
    <2> QED
      BY <2>1, <2>2
  <1> QED
    BY <1>4, <1>8 DEF CountsOK

\* tag_receive counts itself in, in both counters ...
LEMMA CountsIn ==
  ASSUME TypeOK, ControlOK, CountsOK, NEW t \in Threads, OthersSame(t),
         NEW b, b = ts[t], ReceiveCount(t)
  PROVE  CountsOK'
  <1> USE DEF At, Goto
  <1>1. /\ pc[t] = "rc_count" /\ pc'[t] = "up_load"
        /\ back[t] # "rc_wait" /\ back'[t] = "rc_wait"
        /\ b \in Services /\ ts'[t] = ts[t] /\ Level[t] \in Levels
    BY DeviceAssumption DEF ReceiveCount, TypeOK, ControlOK, Knows, Updating
  <1>2. /\ t \notin Staying(b) /\ Staying(b)' = Staying(b) \cup {t}
        /\ t \notin On(b, Level[t])
        /\ On(b, Level[t])' = On(b, Level[t]) \cup {t}
    BY <1>1 DEF In, Staying, On, OthersSame
  <1>3. \A c \in Services \ {b} :
          /\ Staying(c)' = Staying(c)
          /\ \A l \in Levels : On(c, l)' = On(c, l)
    BY <1>1 DEF In, Staying, On, OthersSame
  <1>4. \A l \in Levels \ {Level[t]} : On(b, l)' = On(b, l)
    BY <1>1 DEF In, On, OthersSame
  <1>5. /\ count'[b] = count[b] + 1
        /\ \A c \in Services \ {b} : /\ count'[c] = count[c]
                                    /\ thread_waiting'[c] = thread_waiting[c]
        /\ thread_waiting'[b][Level[t]] = thread_waiting[b][Level[t]] + 1
        /\ \A l \in Levels \ {Level[t]} :
             thread_waiting'[b][l] = thread_waiting[b][l]
    BY <1>1 DEF ReceiveCount, TypeOK
  <1>6. /\ Cardinality(Staying(b)') = Cardinality(Staying(b)) + 1
        /\ Cardinality(On(b, Level[t])') = Cardinality(On(b, Level[t])) + 1
    <2>1. /\ Staying(b) \in SUBSET Threads /\ t \in Threads \ Staying(b)
          /\ On(b, Level[t]) \in SUBSET Threads
          /\ t \in Threads \ On(b, Level[t])
      BY <1>2 DEF Staying, On, In
    <2> QED
      BY <1>2, <2>1, OneMore
  <1>7. /\ count'[b] = Cardinality(Staying(b)')
        /\ \A l \in Levels : thread_waiting'[b][l] = Cardinality(On(b, l)')
    BY <1>1, <1>4, <1>5, <1>6 DEF CountsOK
  <1>8. \A c \in Services \ {b} :
          /\ count'[c] = Cardinality(Staying(c)')
          /\ \A l \in Levels : thread_waiting'[c][l] = Cardinality(On(c, l)')
    BY <1>3, <1>5 DEF CountsOK
  <1> QED
    BY <1>7, <1>8 DEF CountsOK

\* ... and out, of the first before it leaves the second.
LEMMA CountsOut ==
  ASSUME TypeOK, ControlOK, CountsOK, NEW t \in Threads, OthersSame(t),
         NEW b, b = ts[t], ReceiveLeave(t) \/ ReceiveLevel(t)
  PROVE  CountsOK'
  <1> USE DEF At, Goto, locals
  <1>1. /\ pc[t] \in {"rc_wait", "rc_level"} /\ back[t] = "rc_wait"
        /\ b \in Services /\ t \in In(b) /\ Level[t] \in Levels
    BY DeviceAssumption DEF ReceiveLeave, ReceiveLevel, ControlOK, Knows, In
  <1>2. CASE ReceiveLeave(t)
    <2>1. /\ pc[t] = "rc_wait" /\ pc'[t] = "rc_level"
          /\ back' = back /\ ts' = ts /\ thread_waiting' = thread_waiting
          /\ count'[b] = count[b] - 1
          /\ \A c \in Services \ {b} : count'[c] = count[c]
      BY <1>1, <1>2 DEF ReceiveLeave, TypeOK
    <2>2. \A c \in Services : In(c)' = In(c) /\ \A l \in Levels : On(c, l)' = On(c, l)
      BY <2>1 DEF In, On
    <2>3. t \in Staying(b) /\ Staying(b)' = Staying(b) \ {t}
      BY <1>1, <2>1, <2>2 DEF Staying, OthersSame, In
    <2>4. \A c \in Services \ {b} : Staying(c)' = Staying(c)
      BY <1>1, <2>1, <2>2 DEF Staying, OthersSame, In
    <2>5. Cardinality(Staying(b)') = Cardinality(Staying(b)) - 1
      <3>1. Staying(b) \in SUBSET Threads
        BY DEF Staying, In
      <3> QED
        BY <2>3, <3>1, OneLess
    <2>6. count'[b] = Cardinality(Staying(b)')
      BY <1>1, <2>1, <2>5 DEF CountsOK
    <2>7. \A c \in Services \ {b} : count'[c] = Cardinality(Staying(c)')
      BY <2>1, <2>4 DEF CountsOK
    <2>8. \A c \in Services, l \in Levels :
            thread_waiting'[c][l] = Cardinality(On(c, l)')
      BY <2>1, <2>2 DEF CountsOK
    <2> QED
      BY <2>6, <2>7, <2>8 DEF CountsOK
  <1>3. CASE ReceiveLevel(t)
    <2>1. /\ pc[t] = "rc_level" /\ pc'[t] = "up_load" /\ back'[t] = "idle"
          /\ count' = count
          /\ thread_waiting'[b][Level[t]] = thread_waiting[b][Level[t]] - 1
          /\ \A l \in Levels \ {Level[t]} :
               thread_waiting'[b][l] = thread_waiting[b][l]
          /\ \A c \in Services \ {b} : thread_waiting'[c] = thread_waiting[c]
      BY <1>1, <1>3 DEF ReceiveLevel, TypeOK
    <2>2. \A c \in Services : Staying(c)' = Staying(c)
      BY <2>1 DEF Staying, In, OthersSame
    <2>3. /\ t \in On(b, Level[t])
          /\ On(b, Level[t])' = On(b, Level[t]) \ {t}
      BY <1>1, <2>1 DEF On, In, OthersSame
    <2>4. /\ \A l \in Levels \ {Level[t]} : On(b, l)' = On(b, l)
          /\ \A c \in Services \ {b}, l \in Levels : On(c, l)' = On(c, l)
      BY <1>1, <2>1 DEF On, In, OthersSame
    <2>5. Cardinality(On(b, Level[t])') = Cardinality(On(b, Level[t])) - 1
      <3>1. On(b, Level[t]) \in SUBSET Threads
        BY DEF On, In
      <3> QED
        BY <2>3, <3>1, OneLess
    <2>6. \A l \in Levels : thread_waiting'[b][l] = Cardinality(On(b, l)')
      BY <1>1, <2>1, <2>4, <2>5 DEF CountsOK
    <2>7. \A c \in Services \ {b}, l \in Levels :
            thread_waiting'[c][l] = Cardinality(On(c, l)')
      BY <2>1, <2>4 DEF CountsOK
    <2>8. \A c \in Services : count'[c] = Cardinality(Staying(c)')
      BY <2>1, <2>2 DEF CountsOK
    <2> QED
      BY <2>6, <2>7, <2>8 DEF CountsOK
  <1> QED
    BY <1>2, <1>3

Counting(t) == TagCreate(t) \/ ReceiveCount(t) \/ ReceiveLeave(t)
               \/ ReceiveLevel(t)

LEMMA CountsStep ==
  ASSUME TypeOK, ControlOK, CountsOK, NEW t \in Threads, Acts(t)
  PROVE  CountsOK'
  <1>1. OthersSame(t)
    BY OthersStep
  <1>2. CASE Counting(t)
    BY <1>1, <1>2, CountsCreate, CountsIn, CountsOut DEF Counting
  <1>3. CASE ~Counting(t)
    <2>0. /\ pc \in [Threads -> Updating \cup HoldsLock \cup Creating
                                  \cup Removing \cup Other]
          /\ ts \in [Threads -> Services \cup {NULL}]
          /\ back \in [Threads -> {"idle", "rc_wait"}]
          /\ Knows(pc[t], ts[t], back[t], dev[t])
      BY DEF TypeOK, ControlOK
    <2> SUFFICES /\ UNCHANGED <<count, thread_waiting>> /\ back'[t] = back[t]
                 /\ back[t] = "rc_wait" =>
                      /\ ts'[t] = ts[t]
                      /\ pc'[t] = "rc_level" <=> pc[t] = "rc_level"
      BY <1>1, CountsFrame
    <2> USE <2>0 DEF At, Goto, Oops, Lock, service, locals, Knows, Updating
    <2>1. CASE Environment(t)
      BY <1>3, <2>1 DEF Counting, Environment, TagReceive, TagRemove, TsOpen,
         TsRelease, ReadBegin, ReadKilled
    <2>2. CASE TakeLock(t)
      BY <2>2 DEF TakeLock, CreateLock, UpdateLock, RemoveLock, ReadLock
    <2>3. CASE CreateStep(t)
      BY <2>3 DEF CreateStep, CreateLoad, CreateFail, CreateNode, CreateAlloc,
         CreateFill, CreateNull
    <2>4. CASE UpdateStep(t)
      BY <2>4 DEF UpdateStep, UpdateLoad, UpdateRead, UpdateBuild, UpdateWild,
         UpdateFree, UpdateAssign
    <2>5. CASE RemoveStep(t)
      BY <2>5 DEF RemoveStep, RemoveDevice, RemoveTwice, RemoveUnlink,
         RemoveFree
    <2>6. CASE ReadNull(t) \/ ReadCopy(t) \/ ReadOut(t)
      BY <2>6 DEF ReadNull, ReadCopy, ReadOut
    <2> QED
      BY <1>3, <2>1, <2>2, <2>3, <2>4, <2>5, <2>6 DEF Acts, Step, Counting
  <1> QED
    BY <1>2, <1>3

-----------------------------------------------------------------------------
\* Types.

LEMMA OneLine ==
  ASSUME NEW x \in Texts, NEW l \in Levels, NEW n \in Nat
  PROVE  /\ [x EXCEPT !.line[l] = n] \in Texts
         /\ [x EXCEPT !.line[l] = n].service = x.service
         /\ [x EXCEPT !.line[l] = n].line[l] = n
         /\ \A k \in Levels \ {l} : [x EXCEPT !.line[l] = n].line[k] = x.line[k]
  <1>1. x.line \in [Levels -> Nat] /\ x.service \in Services \cup {NULL}
    BY DEF Texts
  <1> DEFINE y == [x.line EXCEPT ![l] = n]
  <1>2. /\ y \in [Levels -> Nat] /\ y[l] = n
        /\ \A k \in Levels \ {l} : y[k] = x.line[k]
    BY <1>1
  <1>3. [x EXCEPT !.line[l] = n] = [x EXCEPT !.line = y]
    OBVIOUS
  <1> HIDE DEF y
  <1>4. [x EXCEPT !.line = y] = [service |-> x.service, line |-> y]
    BY DEF Texts
  <1> QED
    BY <1>1, <1>2, <1>3, <1>4 DEF Texts

LEMMA WriteType ==
  ASSUME TypeOK, NEW f \in Buffers, NEW x \in Texts, NEW d,
         Write(f, x, d)
  PROVE  text' \in [Buffers -> Texts] /\ junk' \in SUBSET Buffers
  BY DEF Write, TypeOK

LEMMA TypeStep ==
  ASSUME TypeOK, ControlOK, CountsOK, BuffersOK, NEW t \in Threads, Acts(t)
  PROVE  TypeOK'
  <1>0. Knows(pc[t], ts[t], back[t], dev[t]) /\ Level[t] \in Levels
    BY DeviceAssumption DEF ControlOK
  <1> USE <1>0 DEF TypeOK, At, Goto, Oops, Lock, service, driver, locals
  <1>1. CASE TagCreate(t)
    <2>1. PICK b \in Services :
            /\ entry' = b
            /\ live' = live \cup {b}
            /\ lazy_deleted' = [lazy_deleted EXCEPT ![b] = FALSE]
            /\ count' = [count EXCEPT ![b] = 0]
            /\ thread_waiting' = [thread_waiting EXCEPT ![b] = NoText.line]
      BY <1>1 DEF TagCreate, FreshServices
    <2>2. NoText.line \in [Levels -> Nat]
      BY DEF NoText
    <2>3. pc' \in [Threads -> Updating \cup HoldsLock \cup Creating
                               \cup Removing \cup Other]
      BY <1>1 DEF TagCreate, Creating
    <2> QED
      BY <1>1, <2>1, <2>2, <2>3 DEF TagCreate
  <1>2. CASE Environment(t) /\ ~TagCreate(t) /\ ~ReceiveLeave(t)
    <2>1. CASE TagReceive(t)
      BY <2>1 DEF TagReceive, Other
    <2>2. CASE TagRemove(t)
      BY <2>2 DEF TagRemove, Removing
    <2>3. CASE TsOpen(t) \/ TsRelease(t)
      BY <2>3 DEF TsOpen, TsRelease, Other
    <2>4. CASE ReadBegin(t) \/ ReadKilled(t)
      BY <2>4 DEF ReadBegin, ReadKilled, Other
    <2> QED
      BY <1>2, <2>1, <2>2, <2>3, <2>4 DEF Environment
  <1>3. CASE TakeLock(t)
    BY <1>3 DEF TakeLock, CreateLock, UpdateLock, RemoveLock, ReadLock,
       HoldsLock
  <1>4. CASE CreateFill(t)
    <2>1. content \in Buffers /\ dev[t] \in Services
      BY <1>4 DEF CreateFill, BuffersOK
    <2>2. [service |-> dev[t], line |-> thread_waiting[dev[t]]] \in Texts
      BY <2>1 DEF Texts
    <2>3. text' \in [Buffers -> Texts] /\ junk' \in SUBSET Buffers
      BY <1>4, <2>1, <2>2, WriteType DEF CreateFill
    <2> QED
      BY <1>4, <2>3 DEF CreateFill, Other
  <1>5. CASE CreateStep(t) /\ ~CreateFill(t)
    BY <1>5 DEF CreateStep, CreateLoad, CreateFail, CreateNode, CreateAlloc,
       CreateNull, HoldsLock, Creating, Other
  <1>6. CASE UpdateBuild(t)
    <2>1. PICK f \in Buffers \ buffers :
            /\ buffers' = buffers \cup {f}
            /\ buf' = [buf EXCEPT ![t] = f]
            /\ Write(f, [text[content] EXCEPT !.line[Level[t]] = waiting_n[t]],
                     content \in junk)
      BY <1>6 DEF UpdateBuild
    <2>2. [text[content] EXCEPT !.line[Level[t]] = waiting_n[t]] \in Texts
      <3>1. text[content] \in Texts /\ waiting_n[t] \in Nat
        BY <1>6 DEF UpdateBuild
      <3> QED
        BY <3>1, OneLine
    <2>3. text' \in [Buffers -> Texts] /\ junk' \in SUBSET Buffers
      BY <2>1, <2>2, WriteType
    <2>4. pc' \in [Threads -> Updating \cup HoldsLock \cup Creating
                               \cup Removing \cup Other]
      BY <1>6 DEF UpdateBuild, Updating
    <2> QED
      BY <1>6, <2>1, <2>3, <2>4 DEF UpdateBuild
  <1>7. CASE UpdateRead(t)
    <2>1. dev[t] \in Services
      BY <1>7 DEF UpdateRead, Knows
    <2> QED
      BY <1>7, <2>1 DEF UpdateRead, Updating
  <1>8. CASE UpdateStep(t) /\ ~UpdateBuild(t) /\ ~UpdateRead(t)
    <2>1. CASE UpdateLoad(t)
      BY <2>1 DEF UpdateLoad, Updating, Other
    <2>2. CASE UpdateWild(t) \/ UpdateFree(t)
      BY <2>2 DEF UpdateWild, UpdateFree, Updating, Other
    <2>3. CASE UpdateAssign(t)
      BY <2>3 DEF UpdateAssign, Other
    <2> QED
      BY <1>8, <2>1, <2>2, <2>3 DEF UpdateStep
  <1>9. CASE RemoveStep(t)
    BY <1>9 DEF RemoveStep, RemoveDevice, RemoveTwice, RemoveUnlink,
       RemoveFree, Removing, Other
  <1>10. CASE ReadNull(t) \/ ReadCopy(t) \/ ReadOut(t)
    BY <1>10 DEF ReadNull, ReadCopy, ReadOut, Other
  <1>11. CASE ReceiveCount(t)
    <2>1. ts[t] \in Services
      BY <1>11 DEF ReceiveCount, Knows
    <2> QED
      BY <1>11, <2>1 DEF ReceiveCount, Updating
  <1>12. CASE ReceiveLeave(t)
    <2>1. /\ pc[t] = "rc_wait" /\ ts[t] \in Services /\ back[t] = "rc_wait"
      BY <1>12 DEF ReceiveLeave, Knows
    <2>2. t \in Staying(ts[t]) /\ Staying(ts[t]) \in SUBSET Threads
      BY <2>1 DEF Staying, In
    <2>3. count[ts[t]] - 1 \in Nat
      BY <2>1, <2>2, NotZero DEF CountsOK
    <2> QED
      BY <1>12, <2>1, <2>3 DEF ReceiveLeave, Other
  <1>13. CASE ReceiveLevel(t)
    <2>1. /\ pc[t] = "rc_level" /\ ts[t] \in Services /\ back[t] = "rc_wait"
      BY <1>13 DEF ReceiveLevel, Knows
    <2>2. t \in On(ts[t], Level[t]) /\ On(ts[t], Level[t]) \in SUBSET Threads
      BY <2>1 DEF On, In
    <2>3. thread_waiting[ts[t]][Level[t]] - 1 \in Nat
      BY <2>1, <2>2, NotZero DEF CountsOK
    <2> QED
      BY <1>13, <2>1, <2>3 DEF ReceiveLevel, Updating
  <1> QED
    BY <1>1, <1>2, <1>3, <1>4, <1>5, <1>6, <1>7, <1>8, <1>9, <1>10, <1>11,
       <1>12, <1>13 DEF Acts, Step, Environment

-----------------------------------------------------------------------------
\* The buffers.  Eight statements change them, or what is written in them, or
\* a thread that is about to; all but the loss of a creator work under the lock.

Handling == {"mk_alloc", "mk_fill", "up_free", "up_assign"}

Handles(t) == \/ CreateNode(t) \/ CreateAlloc(t) \/ CreateFill(t)
              \/ CreateNull(t) \/ UpdateBuild(t) \/ UpdateFree(t)
              \/ UpdateAssign(t) \/ RemoveDevice(t)

LEMMA OtherSteps ==
  ASSUME TypeOK, NEW t \in Threads, Acts(t), ~Handles(t)
  PROVE  /\ UNCHANGED <<registered, content, buffers, text, junk>>
         /\ pc[t] \notin Handling \cup {"oops"} /\ pc'[t] \notin Handling
  <1> USE DEF TypeOK, At, Goto, Oops, Lock, driver, Handles, Handling
  <1>1. CASE Environment(t)
    BY <1>1 DEF Environment, TagCreate, TagReceive, TagRemove, TsOpen,
       TsRelease, ReadBegin, ReadKilled, ReceiveLeave
  <1>2. CASE TakeLock(t)
    BY <1>2 DEF TakeLock, CreateLock, UpdateLock, RemoveLock, ReadLock
  <1>3. CASE CreateStep(t)
    BY <1>3 DEF CreateStep, CreateLoad, CreateFail
  <1>4. CASE UpdateStep(t)
    BY <1>4 DEF UpdateStep, UpdateLoad, UpdateRead, UpdateWild
  <1>5. CASE RemoveStep(t)
    BY <1>5 DEF RemoveStep, RemoveTwice, RemoveUnlink, RemoveFree
  <1>6. CASE ReceiveCount(t) \/ ReceiveLevel(t) \/ ReadNull(t) \/ ReadCopy(t)
             \/ ReadOut(t)
    BY <1>6 DEF ReceiveCount, ReceiveLevel, ReadNull, ReadCopy, ReadOut
  <1> QED
    BY <1>1, <1>2, <1>3, <1>4, <1>5, <1>6 DEF Acts, Step

\* A statement under the lock: nobody else handles the buffers.
LEMMA HandlesAlone ==
  ASSUME LockOK, NEW t \in Threads, pc[t] \in HoldsLock,
         NEW u \in Threads \ {t}
  PROVE  pc[u] \notin Handling
  BY Alone DEF Handling, HoldsLock

LEMMA HandlesLocked ==
  ASSUME NEW t \in Threads, Handles(t)
  PROVE  pc[t] \in HoldsLock
  BY DEF Handles, CreateNode, CreateAlloc, CreateFill, CreateNull, UpdateBuild,
     UpdateFree, UpdateAssign, RemoveDevice, At, HoldsLock

LEMMA BuffersStep ==
  ASSUME TypeOK, LockOK, BuffersOK, NEW t \in Threads, Acts(t)
  PROVE  BuffersOK'
  <1> USE DEF At, Goto, Replacing
  <1>0. OthersSame(t)
    BY OthersStep
  <1>1. CASE ~Handles(t)
    <2>1. /\ UNCHANGED <<registered, content, buffers>>
          /\ pc[t] \notin Handling /\ pc'[t] \notin Handling
      BY <1>1, OtherSteps
    <2>2. \A u \in Threads : pc[u] \in Handling \/ pc'[u] \in Handling =>
            pc'[u] = pc[u] /\ buf'[u] = buf[u]
      BY <1>0, <2>1 DEF OthersSame
    <2>3. registered' =>
            \/ content' \in buffers'
            \/ \E u \in Threads : pc'[u] \in {"mk_alloc", "up_assign"}
      BY <2>1, <2>2 DEF BuffersOK, Handling
    <2>4. buffers' \subseteq {content'} \cup
            {buf'[u] : u \in {v \in Threads : pc'[v] \in {"up_free", "up_assign"}}}
      BY <2>1, <2>2 DEF BuffersOK, Handling
    <2>5. \A u \in Threads :
            /\ pc'[u] \in Handling => pc'[u] = pc[u] /\ buf'[u] = buf[u]
            /\ pc'[u] \in {"mk_alloc", "mk_fill"} \/ pc'[u] \in {"up_free", "up_assign"} => pc'[u] \in Handling
      BY <2>2 DEF Handling
    <2> QED
      BY <2>1, <2>3, <2>4, <2>5 DEF BuffersOK, Handling
  <1>2. CASE Handles(t)
    <2>0. /\ pc[t] \in HoldsLock
          /\ \A u \in Threads \ {t} : pc[u] \notin Handling /\ pc'[u] \notin Handling
      BY <1>0, <1>2, HandlesAlone, HandlesLocked DEF OthersSame
    <2> SUFFICES
          /\ registered' => content' \in buffers'
                            \/ pc'[t] \in {"mk_alloc", "up_assign"}
          /\ content' \in buffers' => registered'
          /\ buffers' \subseteq {content'} \cup
               {buf'[u] : u \in {v \in {t} : pc'[v] \in {"up_free", "up_assign"}}}
          /\ pc'[t] \in Handling => registered'
          /\ pc'[t] \in {"mk_alloc", "up_assign"} => content' \notin buffers'
          /\ pc'[t] \in {"mk_fill", "up_free"} => content' \in buffers'
          /\ pc'[t] \in {"up_free", "up_assign"} =>
               buf'[t] \in buffers' \ {content'} /\ content' \in Buffers
      BY <2>0 DEF BuffersOK, Handling
    <2>1. buffers \subseteq {content} \cup
            {buf[u] : u \in {v \in {t} : pc[v] \in {"up_free", "up_assign"}}}
      BY <2>0 DEF BuffersOK, Handling
    <2>2. /\ registered => content \in buffers
                           \/ pc[t] \in {"mk_alloc", "up_assign"}
          /\ content \in buffers => registered
          /\ pc[t] \in Handling => registered
          /\ pc[t] \in {"mk_alloc", "up_assign"} => content \notin buffers
          /\ pc[t] \in {"mk_fill", "up_free"} => content \in buffers
          /\ pc[t] \in {"up_free", "up_assign"} =>
               buf[t] \in buffers \ {content} /\ content \in Buffers
      BY <2>0 DEF BuffersOK, Handling
    <2> USE <2>1, <2>2, DeviceAssumption DEF TypeOK, Handling, Oops, driver,
            locals
    <2>3. CASE CreateNode(t)
      BY <2>3 DEF CreateNode
    <2>4. CASE CreateAlloc(t)
      BY <2>4 DEF CreateAlloc
    <2>5. CASE CreateFill(t) \/ CreateNull(t)
      BY <2>5 DEF CreateFill, CreateNull
    <2>6. CASE UpdateBuild(t)
      BY <2>6 DEF UpdateBuild
    <2>7. CASE UpdateFree(t)
      BY <2>7 DEF UpdateFree
    <2>8. CASE UpdateAssign(t)
      BY <2>8 DEF UpdateAssign
    <2>9. CASE RemoveDevice(t)
      BY <2>9 DEF RemoveDevice
    <2> QED
      BY <1>2, <2>3, <2>4, <2>5, <2>6, <2>7, <2>8, <2>9 DEF Handles
  <1> QED
    BY <1>1, <1>2

\* What is published was written, when kmalloc returns zeroed memory.
LEMMA JunkStep ==
  ASSUME TypeOK, LockOK, BuffersOK, JunkOK, NEW t \in Threads, Acts(t)
  PROVE  JunkOK'
  <1> USE DEF At, Goto, Replacing
  <1>0. OthersSame(t)
    BY OthersStep
  <1>1. CASE ~Handles(t)
    <2>1. /\ UNCHANGED <<content, buffers, junk>>
          /\ pc[t] \notin Handling \cup {"oops"} /\ pc'[t] \notin Handling
      BY <1>1, OtherSteps
    <2>2. \A u \in Threads : pc'[u] \in {"up_free", "up_assign"} =>
            pc[u] \in {"up_free", "up_assign"} /\ buf'[u] = buf[u]
      BY <1>0, <2>1 DEF OthersSame, Handling
    <2>3. ASSUME NEW u \in Threads,
                 device_lock = u /\ pc[u] \in {"mk_fill", "oops"}
          PROVE  device_lock' = u /\ pc'[u] \in {"mk_fill", "oops"}
      <3>1. u # t /\ pc'[u] = pc[u]
        BY <1>0, <2>1, <2>3 DEF OthersSame, Handling
      <3> QED
        BY <2>3, <3>1, LockMoves, DeviceAssumption DEF LockMove, LockOK
    <2> QED
      BY <2>1, <2>2, <2>3 DEF JunkOK
  <1>2. CASE Handles(t)
    <2>0. /\ device_lock = t
          /\ \A u \in Threads \ {t} : pc[u] \notin Handling /\ pc'[u] \notin Handling
      BY <1>0, <1>2, HandlesAlone, HandlesLocked DEF OthersSame, LockOK
    <2> SUFFICES ASSUME InitOnAlloc
                 PROVE  /\ content' \in buffers' \cap junk' =>
                             /\ device_lock' = t
                             /\ pc'[t] \in {"mk_fill", "oops"}
                        /\ pc'[t] \in {"up_free", "up_assign"} =>
                             buf'[t] \notin junk'
      BY <2>0 DEF JunkOK, Handling
    <2>1. /\ content \in buffers \cap junk => pc[t] \in {"mk_fill", "oops"}
          /\ pc[t] \in {"up_free", "up_assign"} => buf[t] \notin junk
          /\ pc[t] \in {"mk_alloc", "up_assign"} => content \notin buffers
          /\ pc[t] \in {"up_free", "up_assign"} => buf[t] \in buffers \ {content}
          /\ content \in buffers => registered
      BY <2>0 DEF JunkOK, BuffersOK
    <2> USE <2>0, <2>1 DEF TypeOK, Oops, driver, locals
    <2>3. CASE CreateNode(t)
      BY <2>3 DEF CreateNode
    <2>4. CASE CreateAlloc(t)
      BY <2>4 DEF CreateAlloc
    <2>5. CASE CreateFill(t)
      BY <2>5 DEF CreateFill, Write
    <2>6. CASE CreateNull(t)
      BY <2>6 DEF CreateNull
    <2>7. CASE UpdateBuild(t)
      <3>1. PICK f \in Buffers \ buffers :
              /\ buffers' = buffers \cup {f} /\ buf'[t] = f
              /\ \E x : Write(f, x, content \in junk)
        BY <2>7 DEF UpdateBuild
      <3>2. /\ pc[t] = "up_build" /\ content \in buffers /\ content' = content
            /\ pc'[t] = "up_free"
        BY <2>7 DEF UpdateBuild
      <3>3. content \notin junk
        BY <3>2
      <3>4. junk' = junk \ {f}
        BY <3>1, <3>3 DEF Write
      <3> QED
        BY <3>1, <3>2, <3>3, <3>4
    <2>8. CASE UpdateFree(t)
      BY <2>8 DEF UpdateFree
    <2>9. CASE UpdateAssign(t)
      BY <2>9 DEF UpdateAssign
    <2>10. CASE RemoveDevice(t)
      BY <2>10 DEF RemoveDevice
    <2> QED
      BY <1>2, <2>3, <2>4, <2>5, <2>6, <2>7, <2>8, <2>9, <2>10 DEF Handles
  <1> QED
    BY <1>1, <1>2

-----------------------------------------------------------------------------
\* DeviceInv is inductive.

LEMMA DeviceInit == Init => DeviceInv
  <1> SUFFICES ASSUME Init PROVE DeviceInv
    OBVIOUS
  <1> USE DeviceAssumption
  <1>1. TypeOK
    BY DEF Init, TypeOK, Texts, NoText, Other
  <1>2. ControlOK
    BY DEF Init, ControlOK, Knows, Updating
  <1>3. LockOK
    BY DEF Init, LockOK, HoldsLock
  <1>4. CountsOK
    <2>1. \A b \in Services : Staying(b) = {} /\ \A l \in Levels : On(b, l) = {}
      BY DEF Init, Staying, On, In
    <2> QED
      BY <2>1, FS_EmptySet DEF Init, CountsOK
  <1>5. BuffersOK /\ JunkOK
    BY DEF Init, BuffersOK, JunkOK, Replacing
  <1> QED
    BY <1>1, <1>2, <1>3, <1>4, <1>5 DEF DeviceInv

LEMMA DeviceStutter ==
  ASSUME DeviceInv, UNCHANGED vars
  PROVE  DeviceInv'
  <1> USE DEF DeviceInv, vars, service, driver, threadVars
  <1>1. TypeOK'
    BY DEF TypeOK
  <1>2. ControlOK' /\ LockOK'
    BY DEF ControlOK, LockOK
  <1>3. CountsOK'
    <2>1. \A b \in Services : /\ Staying(b)' = Staying(b)
                              /\ \A l \in Levels : On(b, l)' = On(b, l)
      BY DEF Staying, On, In
    <2> QED
      BY <2>1 DEF CountsOK
  <1>4. BuffersOK' /\ JunkOK'
    BY DEF BuffersOK, JunkOK, Replacing
  <1> QED
    BY <1>1, <1>2, <1>3, <1>4

LEMMA DeviceStep ==
  ASSUME DeviceInv, [Next]_vars
  PROVE  DeviceInv'
  <1>1. ASSUME NEW t \in Threads, Acts(t)
        PROVE  DeviceInv'
    BY <1>1, TypeStep, ControlStep, LockStep, CountsStep, BuffersStep, JunkStep
       DEF DeviceInv
  <1> QED
    BY <1>1, DeviceStutter DEF Next, Acts

LEMMA DeviceInvariant == Spec => []DeviceInv
  BY DeviceInit, DeviceStep, PTL DEF Spec

\* Every variable keeps its type: no counter that the text shows is negative,
\* though tag_receive decrements what it read of its service long before.
THEOREM DeviceTypes == Spec => []TypeOK
  <1>1. DeviceInv => TypeOK
    BY DEF DeviceInv
  <1> QED
    BY <1>1, DeviceInvariant, PTL

\* update_chrdev and ts_destroy_char_device_file lose no buffer: what is
\* allocated is the content of the device, or in the hands of the one update
\* that holds device_lock.
THEOREM BuffersKept == Spec => []NoBufferLeak
  <1>1. DeviceInv => NoBufferLeak
    BY DEF DeviceInv, BuffersOK, NoBufferLeak
  <1> QED
    BY <1>1, DeviceInvariant, PTL

\* Whoever gets device_lock while the device exists finds a buffer that is
\* allocated, whatever kmalloc returns, and the text in it if that is zeroed:
\* the windows of creation and of update_chrdev, where there is none, lie inside
\* the lock.
THEOREM ContentThere == Spec => []ContentPublished
  <1>1. DeviceInv => ContentPublished
    <2> SUFFICES ASSUME DeviceInv, registered, device_lock = NULL
                 PROVE  content \in buffers /\ (InitOnAlloc => content \notin junk)
      BY DEF ContentPublished
    <2>1. \A t \in Threads : pc[t] \notin {"mk_alloc", "up_assign"}
      BY DeviceAssumption DEF DeviceInv, LockOK, HoldsLock
    <2>2. content \in buffers
      BY <2>1 DEF DeviceInv, BuffersOK
    <2> QED
      BY <2>2, DeviceAssumption DEF DeviceInv, JunkOK
  <1> QED
    BY <1>1, DeviceInvariant, PTL

-----------------------------------------------------------------------------
\* The lines of the text.

LEMMA TextsStep ==
  ASSUME TypeOK, LockOK, BuffersOK, TextsOK, NEW t \in Threads, Acts(t)
  PROVE  TextsOK'
  <1> USE DEF At, Goto, Replacing
  <1>0. OthersSame(t)
    BY OthersStep
  <1>1. CASE ~Handles(t)
    <2>1. /\ UNCHANGED <<content, text, junk>>
          /\ pc'[t] \notin Handling
      BY <1>1, OtherSteps
    <2>2. \A u \in Threads : pc'[u] \in {"up_free", "up_assign"} =>
            /\ pc[u] \in {"up_free", "up_assign"}
            /\ buf'[u] = buf[u] /\ waiting_n'[u] = waiting_n[u]
      BY <1>0, <2>1 DEF OthersSame, Handling
    <2> QED
      BY <2>1, <2>2 DEF TextsOK
  <1>2. CASE Handles(t)
    <2>0. \A u \in Threads \ {t} : pc'[u] \notin Handling
      BY <1>0, <1>2, HandlesAlone, HandlesLocked DEF OthersSame
    <2> SUFFICES ASSUME pc'[t] \in {"up_free", "up_assign"}
                 PROVE  /\ text'[buf'[t]] = [text'[content'] EXCEPT
                                       !.line[Level[t]] = waiting_n'[t]]
                        /\ content' \in junk' => buf'[t] \in junk'
      BY <2>0 DEF TextsOK, Handling
    <2>1. CASE UpdateBuild(t)
      <3>1. PICK f \in Buffers \ buffers :
              /\ buf'[t] = f
              /\ Write(f, [text[content] EXCEPT !.line[Level[t]] = waiting_n[t]],
                       content \in junk)
        BY <2>1 DEF UpdateBuild, TypeOK
      <3>2. /\ content \in buffers /\ content \in Buffers /\ content' = content
            /\ waiting_n' = waiting_n
        BY <2>1 DEF UpdateBuild, TypeOK
      <3>3. text'[f] = [text[content] EXCEPT !.line[Level[t]] = waiting_n[t]]
            /\ text'[content] = text[content]
        BY <3>1, <3>2 DEF Write, TypeOK
      <3>4. content \in junk' => f \in junk'
        BY <3>1, <3>2 DEF Write
      <3> QED
        BY <3>1, <3>2, <3>3, <3>4
    <2>2. CASE UpdateFree(t)
      BY <2>2 DEF UpdateFree, locals, TextsOK
    <2>3. ~UpdateBuild(t) /\ ~UpdateFree(t) => FALSE
      BY <1>2 DEF Handles, CreateNode, CreateAlloc, CreateFill, CreateNull,
         UpdateAssign, RemoveDevice, Oops, TypeOK
    <2> QED
      BY <2>1, <2>2, <2>3
  <1> QED
    BY <1>1, <1>2

\* The only receiver of a level makes up the count of that level.
LEMMA SoleCount ==
  ASSUME ControlOK, CountsOK, NEW t \in Threads, t \in Receivers(Level[t]),
         Sole(Level[t]), Level[t] \in Levels, NEW b \in Services
  PROVE  thread_waiting[b][Level[t]] = IF t \in In(b) THEN 1 ELSE 0
  <1> DEFINE R == Receivers(Level[t])
  <1>1. R \in SUBSET Threads /\ IsFiniteSet(R) /\ Cardinality(R) \in Nat
    <2>1. R \in SUBSET Threads
      BY DEF Receivers
    <2> QED
      BY <2>1, FiniteThreads
  <1>2. Cardinality(R \ {t}) = Cardinality(R) - 1
    BY <1>1, OneLess
  <1>3. R \ {t} \in SUBSET Threads /\ IsFiniteSet(R \ {t})
        /\ Cardinality(R \ {t}) \in Nat
    <2>1. R \ {t} \in SUBSET Threads
      BY <1>1
    <2> HIDE DEF R
    <2> QED
      BY <2>1, FiniteThreads
  <1>4. R \ {t} = {}
    <2>1. Cardinality(R) < 2
      BY DEF Sole
    <2> HIDE DEF R
    <2>2. Cardinality(R \ {t}) = 0
      BY <1>1, <1>2, <1>3, <2>1
    <2> QED
      BY <1>3, <2>2, FS_EmptySet
  <1>5. On(b, Level[t]) \subseteq R
    BY DEF On, In, Receivers, ControlOK
  <1>6. On(b, Level[t]) = IF t \in In(b) THEN {t} ELSE {}
    <2>1. t \in On(b, Level[t]) <=> t \in In(b)
      BY DEF On
    <2>2. On(b, Level[t]) \subseteq {t}
      BY <1>4, <1>5
    <2> QED
      BY <2>1, <2>2
  <1>7. Cardinality({t}) = 1 /\ Cardinality({}) = 0
    BY FS_Singleton, FS_EmptySet
  <1> QED
    BY <1>6, <1>7 DEF CountsOK

\* Who sets the entry of the tag, and to what.
LEMMA EntryMoves ==
  ASSUME TypeOK, ControlOK, NEW t \in Threads, Acts(t)
  PROVE  \/ entry' = entry
         \/ TagCreate(t) /\ entry' \in FreshServices
         \/ RemoveUnlink(t) /\ entry' = NULL
  <1> USE DEF Oops, Lock, service
  <1>1. CASE Environment(t)
    BY <1>1 DEF Environment, TagCreate, TagReceive, TagRemove, TsOpen,
       TsRelease, ReadBegin, ReadKilled, ReceiveLeave
  <1>2. CASE TakeLock(t)
    BY <1>2 DEF TakeLock, CreateLock, UpdateLock, RemoveLock, ReadLock
  <1>3. CASE CreateStep(t)
    BY <1>3 DEF CreateStep, CreateLoad, CreateFail, CreateNode, CreateAlloc,
       CreateFill, CreateNull
  <1>4. CASE UpdateStep(t)
    BY <1>4 DEF UpdateStep, UpdateLoad, UpdateRead, UpdateBuild, UpdateWild,
       UpdateFree, UpdateAssign
  <1>5. CASE RemoveStep(t)
    BY <1>5 DEF RemoveStep, RemoveDevice, RemoveTwice, RemoveUnlink, RemoveFree
  <1>6. CASE ReceiveCount(t) \/ ReceiveLevel(t) \/ ReadNull(t) \/ ReadCopy(t)
             \/ ReadOut(t)
    BY <1>6 DEF ReceiveCount, ReceiveLevel, ReadNull, ReadCopy, ReadOut
  <1> QED
    BY <1>1, <1>2, <1>3, <1>4, <1>5, <1>6 DEF Acts, Step

\* The only step that takes a receiver out of an update, or past a statement of
\* it, belongs to the update.
LEMMA UpdateMoves ==
  ASSUME TypeOK, ControlOK, NEW t \in Threads, Acts(t),
         pc'[t] \in Updating \ {"up_load"}
  PROVE  /\ back'[t] = back[t] /\ ts'[t] = ts[t] /\ entry' = entry
         /\ \/ UpdateLoad(t) /\ pc'[t] = "up_read" /\ dev'[t] = entry
            \/ UpdateRead(t) /\ pc[t] = "up_read" /\ dev'[t] = dev[t]
               /\ waiting_n'[t] = thread_waiting[dev[t]][Level[t]]
            \/ /\ pc[t] \in Updating \ {"up_load", "up_read"}
               /\ dev'[t] = dev[t] /\ waiting_n'[t] = waiting_n[t]
  <1>0. /\ pc \in [Threads -> Updating \cup HoldsLock \cup Creating
                                \cup Removing \cup Other]
        /\ back \in [Threads -> {"idle", "rc_wait"}]
    BY DEF TypeOK
  <1> USE <1>0 DEF At, Goto, Oops, Lock, Updating, service, locals
  <1>1. CASE Environment(t)
    BY <1>1 DEF Environment, TagCreate, TagReceive, TagRemove, TsOpen,
       TsRelease, ReadBegin, ReadKilled, ReceiveLeave
  <1>2. CASE TakeLock(t)
    BY <1>2 DEF TakeLock, CreateLock, UpdateLock, RemoveLock, ReadLock
  <1>3. CASE CreateStep(t)
    BY <1>3 DEF CreateStep, CreateLoad, CreateFail, CreateNode, CreateAlloc,
       CreateFill, CreateNull
  <1>4. CASE UpdateStep(t)
    <2>1. CASE UpdateLoad(t)
      BY <2>1 DEF UpdateLoad, TypeOK
    <2>2. CASE UpdateRead(t)
      BY <2>2 DEF UpdateRead, TypeOK
    <2>3. CASE UpdateBuild(t)
      BY <2>3 DEF UpdateBuild
    <2>4. CASE UpdateWild(t) \/ UpdateFree(t) \/ UpdateAssign(t)
      BY <2>4 DEF UpdateWild, UpdateFree, UpdateAssign
    <2> QED
      BY <1>4, <2>1, <2>2, <2>3, <2>4 DEF UpdateStep
  <1>5. CASE RemoveStep(t)
    BY <1>5 DEF RemoveStep, RemoveDevice, RemoveTwice, RemoveUnlink, RemoveFree
  <1>6. CASE ReceiveCount(t) \/ ReceiveLevel(t) \/ ReadNull(t) \/ ReadCopy(t)
             \/ ReadOut(t)
    BY <1>6 DEF ReceiveCount, ReceiveLevel, ReadNull, ReadCopy, ReadOut
  <1> QED
    BY <1>1, <1>2, <1>3, <1>4, <1>5, <1>6 DEF Acts, Step

LEMMA ReadStep ==
  ASSUME TypeOK, ControlOK, CountsOK, ReadOK, NEW t \in Threads, Acts(t)
  PROVE  ReadOK'
  <1>0. OthersSame(t)
    BY OthersStep
  <1>1. ASSUME NEW u \in Threads \ {t}, Sole(Level[u])
        PROVE  /\ pc'[u] \in Updating \ {"up_load"} /\ back'[u] = "rc_wait"
                    /\ ts'[u] = entry' => dev'[u] = entry'
               /\ pc'[u] \in Updating \ {"up_load", "up_read"} =>
                    /\ back'[u] = "idle" => waiting_n'[u] = 0
                    /\ back'[u] = "rc_wait" /\ ts'[u] = entry' =>
                         waiting_n'[u] = 1
    <2>1. back[u] = "rc_wait" /\ ts[u] = entry' => entry' = entry
      <3>1. back[u] = "rc_wait" => ts[u] # NULL
        BY DeviceAssumption DEF ControlOK, Knows
      <3>2. \A b \in FreshServices : ts[u] # b
        BY DEF FreshServices
      <3> QED
        BY <3>1, <3>2, EntryMoves
    <2>2. /\ pc'[u] = pc[u] /\ ts'[u] = ts[u] /\ dev'[u] = dev[u]
          /\ waiting_n'[u] = waiting_n[u] /\ back'[u] = back[u]
      BY <1>0 DEF OthersSame
    <2> QED
      BY <1>1, <2>1, <2>2 DEF ReadOK
  <1>2. ASSUME Sole(Level[t]), pc'[t] \in Updating \ {"up_load"}
        PROVE  /\ back'[t] = "rc_wait" /\ ts'[t] = entry' => dev'[t] = entry'
               /\ pc'[t] # "up_read" =>
                    /\ back'[t] = "idle" => waiting_n'[t] = 0
                    /\ back'[t] = "rc_wait" /\ ts'[t] = entry' =>
                         waiting_n'[t] = 1
    <2>1. CASE UpdateLoad(t) /\ pc'[t] = "up_read" /\ dev'[t] = entry
      BY <1>2, <2>1, UpdateMoves
    <2>2. CASE UpdateRead(t) /\ pc[t] = "up_read" /\ dev'[t] = dev[t]
               /\ waiting_n'[t] = thread_waiting[dev[t]][Level[t]]
      <3>1. /\ dev[t] \in Services /\ t \in Receivers(Level[t])
            /\ Level[t] \in Levels
        BY <2>2, DeviceAssumption DEF ControlOK, Knows, Receivers, Updating
      <3>2. waiting_n'[t] = IF t \in In(dev[t]) THEN 1 ELSE 0
        BY <1>2, <2>2, <3>1, SoleCount
      <3>3. back[t] = "rc_wait" /\ ts[t] = entry => dev[t] = entry
        BY <1>2, <2>2 DEF ReadOK, Updating
      <3>4. back'[t] = back[t] /\ ts'[t] = ts[t] /\ entry' = entry
        BY <1>2, UpdateMoves
      <3> QED
        BY <2>2, <3>2, <3>3, <3>4 DEF In
    <2>3. CASE /\ pc[t] \in Updating \ {"up_load", "up_read"}
               /\ dev'[t] = dev[t] /\ waiting_n'[t] = waiting_n[t]
      BY <1>2, <2>3, UpdateMoves DEF ReadOK
    <2> QED
      BY <1>2, <2>1, <2>2, <2>3, UpdateMoves
  <1> QED
    BY <1>1, <1>2 DEF ReadOK, Sole, Receivers

\* A step that leaves the buffers alone, while a text for this service is
\* shown: t is inside an update afterwards, or it has changed nothing that the
\* text depends on.
LEMMA StepBesides ==
  ASSUME TypeOK, ControlOK, LockOK, NEW t \in Threads, Acts(t), ~Handles(t),
         Shown
  PROVE  /\ \/ pc'[t] \in Updating
            \/ /\ pc[t] \notin Updating /\ back'[t] = back[t]
               /\ back[t] = "rc_wait" => ts'[t] = ts[t]
         /\ \A b \in Services, l \in Levels \ {Level[t]} :
              thread_waiting'[b][l] = thread_waiting[b][l]
         /\ pc'[t] \notin Updating => thread_waiting' = thread_waiting
  <1>0. /\ pc \in [Threads -> Updating \cup HoldsLock \cup Creating
                                \cup Removing \cup Other]
        /\ back \in [Threads -> {"idle", "rc_wait"}]
        /\ ts \in [Threads -> Services \cup {NULL}]
        /\ thread_waiting \in [Services -> [Levels -> Nat]]
        /\ Knows(pc[t], ts[t], back[t], dev[t])
    BY DEF TypeOK, ControlOK
  <1>1. entry # NULL
    BY DEF Shown
  <1> USE <1>0, <1>1 DEF At, Goto, Oops, Lock, Updating, Knows, service, locals
  <1>2. CASE Environment(t)
    BY <1>2 DEF Environment, TagCreate, TagReceive, TagRemove, TsOpen,
       TsRelease, ReadBegin, ReadKilled, ReceiveLeave
  <1>3. CASE TakeLock(t)
    BY <1>3 DEF TakeLock, CreateLock, UpdateLock, RemoveLock, ReadLock
  <1>4. CASE CreateStep(t)
    BY <1>4 DEF Handles, CreateStep, CreateLoad, CreateFail
  <1>5. CASE UpdateStep(t)
    <2>1. ~UpdateWild(t)
      <3>1. SUFFICES ASSUME UpdateWild(t) PROVE FALSE
        OBVIOUS
      <3>2. pc[t] = "up_build" /\ content \notin buffers
        BY <3>1 DEF UpdateWild
      <3>3. PICK u \in Threads : pc[u] = "up_assign"
        BY <3>2 DEF Shown
      <3> QED
        BY <3>2, <3>3 DEF LockOK, HoldsLock
    <2>2. CASE UpdateLoad(t) \/ UpdateRead(t)
      BY <2>2 DEF UpdateLoad, UpdateRead
    <2> QED
      BY <1>5, <2>1, <2>2 DEF Handles, UpdateStep
  <1>6. CASE RemoveStep(t)
    BY <1>6 DEF Handles, RemoveStep, RemoveTwice, RemoveUnlink, RemoveFree
  <1>7. CASE ReceiveCount(t) \/ ReceiveLevel(t)
    BY <1>7 DEF ReceiveCount, ReceiveLevel
  <1>8. CASE ReadNull(t) \/ ReadCopy(t) \/ ReadOut(t)
    BY <1>8 DEF ReadNull, ReadCopy, ReadOut
  <1> QED
    BY <1>2, <1>3, <1>4, <1>5, <1>6, <1>7, <1>8 DEF Acts, Step

LEMMA LinesBesides ==
  ASSUME LineInv, NEW t \in Threads, Acts(t), ~Handles(t)
  PROVE  LinesOK'
  <1> USE DEF LineInv, DeviceInv
  <1>0. OthersSame(t)
    BY OthersStep
  <1>1. /\ UNCHANGED <<content, buffers, text, junk>>
        /\ \A u \in Threads : pc'[u] = "up_assign" => pc[u] = "up_assign"
    BY <1>0, OtherSteps DEF OthersSame, Handling
  <1>2. SUFFICES ASSUME Shown', NEW l \in Levels, Steady(l)'
                 PROVE  text'[content'].line[l] = thread_waiting'[entry'][l]
    BY DEF LinesOK
  <1>3. entry' = entry
    <2>1. entry' # NULL
      BY <1>2 DEF Shown
    <2>2. ASSUME entry' \in FreshServices
          PROVE  FALSE
      <3>1. /\ \A f \in buffers : text[f].service # entry'
            /\ text[content].service = entry'
        BY <1>1, <1>2, <2>2 DEF FreshServices, Shown
      <3>2. PICK u \in Threads : pc[u] = "up_assign"
        BY <1>1, <1>2, <3>1 DEF Shown
      <3>3. /\ buf[u] \in buffers /\ content \in Buffers
            /\ text[buf[u]] = [text[content] EXCEPT !.line[Level[u]] = waiting_n[u]]
        BY <3>2 DEF BuffersOK, TextsOK, Replacing
      <3>4. text[content] \in Texts /\ Level[u] \in Levels /\ waiting_n[u] \in Nat
        BY <3>3, DeviceAssumption DEF TypeOK
      <3>5. text[buf[u]].service = text[content].service
        BY <3>3, <3>4, OneLine
      <3> QED
        BY <3>1, <3>3, <3>5
    <2> QED
      BY <2>1, <2>2, EntryMoves
  <1>4. Shown
    BY <1>1, <1>2, <1>3 DEF Shown
  <1>5. entry \in Services
    BY <1>4 DEF Shown, TypeOK
  <1>6. CASE pc'[t] \in Updating
    <2>1. t \notin Receivers(l)
      BY <1>2, <1>6 DEF Steady, Receivers
    <2>2. l # Level[t]
      BY <1>6, <2>1, ControlStep DEF ControlOK, Receivers
    <2>3. Steady(l)
      BY <1>0, <1>2, <1>3, <2>1 DEF Steady, Sole, Receivers, OthersSame
    <2>4. thread_waiting'[entry][l] = thread_waiting[entry][l]
      BY <1>4, <1>5, <2>2, StepBesides
    <2> QED
      BY <1>1, <1>3, <1>4, <2>3, <2>4 DEF LinesOK
  <1>7. CASE pc'[t] \notin Updating
    <2>1. /\ pc[t] \notin Updating /\ back'[t] = back[t]
          /\ back[t] = "rc_wait" => ts'[t] = ts[t]
          /\ thread_waiting' = thread_waiting
      BY <1>4, <1>7, StepBesides
    <2>2. Steady(l)
      BY <1>0, <1>2, <1>3, <2>1 DEF Steady, Sole, Receivers, OthersSame
    <2> QED
      BY <1>1, <1>3, <1>4, <2>1, <2>2 DEF LinesOK
  <1> QED
    BY <1>6, <1>7

\* The steps that write a text or publish one, under the lock.
LEMMA HandlesKeeps ==
  ASSUME TypeOK, LockOK, NEW t \in Threads, Handles(t)
  PROVE  /\ UNCHANGED <<entry, thread_waiting, ts, back>>
         /\ \A u \in Threads \ {t} : pc'[u] = pc[u] /\ pc[u] \notin Handling
         /\ pc'[t] # "up_assign" \/ UpdateFree(t)
  <1>1. \A u \in Threads \ {t} : pc[u] \notin Handling
    BY HandlesAlone, HandlesLocked
  <1> QED
    BY <1>1 DEF Handles, CreateNode, CreateAlloc, CreateFill, CreateNull,
       UpdateBuild, UpdateFree, UpdateAssign, RemoveDevice, At, Goto, Oops,
       service, locals, TypeOK

LEMMA LinesWritten ==
  ASSUME LineInv, NEW t \in Threads, Acts(t), Handles(t)
  PROVE  LinesOK'
  <1> USE DEF LineInv, DeviceInv
  <1>0. /\ UNCHANGED <<entry, thread_waiting, ts, back>>
        /\ \A u \in Threads \ {t} : pc'[u] = pc[u] /\ pc[u] \notin Handling
        /\ pc'[t] # "up_assign" \/ UpdateFree(t)
    BY HandlesKeeps
  <1>1. SUFFICES ASSUME Shown', NEW l \in Levels, Steady(l)'
                 PROVE  text'[content'].line[l] = thread_waiting'[entry'][l]
    BY DEF LinesOK
  <1>2. entry \in Services /\ text'[content'].service = entry
        /\ content' \notin junk'
    BY <1>0, <1>1 DEF Shown, TypeOK
  <1>3. content' \in buffers' \/ UpdateFree(t)
    BY <1>0, <1>1 DEF Shown, Handling
  <1>4. ASSUME pc[t] \notin Updating \/ pc'[t] \in Updating
        PROVE  Steady(l)
    BY <1>0, <1>1, <1>4 DEF Steady, Sole, Receivers
  <1> USE DEF At, Goto
  <1>5. CASE CreateNode(t)
    <2>1. pc'[t] = "mk_alloc" /\ content' \notin buffers'
      BY <1>5, BuffersStep DEF CreateNode, TypeOK, BuffersOK
    <2> QED
      BY <1>3, <2>1, <1>5 DEF CreateNode, UpdateFree
  <1>6. CASE CreateAlloc(t)
    BY <1>2, <1>6 DEF CreateAlloc
  <1>7. CASE CreateFill(t)
    <2>1. /\ content \in Buffers /\ content' = content
          /\ Write(content, [service |-> dev[t],
                             line |-> thread_waiting[dev[t]]], FALSE)
      BY <1>7 DEF CreateFill, BuffersOK, TypeOK
    <2>2. text'[content] = [service |-> dev[t], line |-> thread_waiting[dev[t]]]
      BY <2>1 DEF Write, TypeOK
    <2> QED
      BY <1>0, <1>2, <2>1, <2>2
  <1>8. CASE CreateNull(t)
    <2>1. /\ UNCHANGED <<content, buffers, text, junk>>
          /\ pc[t] = "mk_fill"
      BY <1>8 DEF CreateNull, Oops, driver
    <2>2. Shown
      BY <1>0, <1>2, <1>3, <1>8, <2>1, DeviceAssumption
         DEF Shown, UpdateFree
    <2> QED
      BY <1>0, <1>4, <2>1, <2>2 DEF LinesOK, Updating
  <1>9. CASE UpdateBuild(t)
    <2>1. PICK f \in Buffers \ buffers :
            \E x : Write(f, x, content \in junk)
      BY <1>9 DEF UpdateBuild
    <2>2. /\ content \in buffers /\ content \in Buffers /\ content' = content
          /\ pc'[t] \in Updating
      BY <1>9 DEF UpdateBuild, TypeOK, Updating
    <2>3. text'[content] = text[content] /\ (content \in junk => content \in junk')
      BY <2>1, <2>2 DEF Write, TypeOK
    <2>4. Shown
      BY <1>0, <1>2, <2>2, <2>3, DeviceAssumption DEF Shown
    <2> QED
      BY <1>0, <1>4, <2>2, <2>3, <2>4 DEF LinesOK
  <1>10. CASE UpdateFree(t)
    <2>1. /\ UNCHANGED <<content, text, junk>> /\ content \in buffers
          /\ pc'[t] \in Updating
      BY <1>10 DEF UpdateFree, BuffersOK, Updating, TypeOK
    <2>2. Shown
      BY <1>0, <1>2, <2>1, DeviceAssumption DEF Shown
    <2> QED
      BY <1>0, <1>4, <2>1, <2>2 DEF LinesOK
  <1>11. CASE UpdateAssign(t)
    <2>1. /\ pc[t] = "up_assign" /\ content' = buf[t]
          /\ UNCHANGED <<text, junk>>
      BY <1>11 DEF UpdateAssign
    <2>2. /\ text[buf[t]] = [text[content] EXCEPT !.line[Level[t]] = waiting_n[t]]
          /\ content \in junk => buf[t] \in junk
      BY <2>1 DEF TextsOK, Replacing
    <2>3. /\ text[content] \in Texts /\ Level[t] \in Levels
          /\ waiting_n[t] \in Nat
      BY <2>1, DeviceAssumption DEF BuffersOK, Replacing, TypeOK
    <2>4. /\ text[buf[t]].service = text[content].service
          /\ text[buf[t]].line[Level[t]] = waiting_n[t]
          /\ \A k \in Levels \ {Level[t]} :
               text[buf[t]].line[k] = text[content].line[k]
      BY <2>2, <2>3, OneLine
    <2>5. Shown
      BY <1>2, <2>1, <2>2, <2>4, DeviceAssumption DEF Shown
    <2>6. t \in Receivers(Level[t])
      BY <2>1 DEF Receivers, ControlOK, Updating
    <2>7. CASE l # Level[t]
      <3>1. Steady(l)
        BY <1>0, <1>1, <2>7 DEF Steady, Sole, Receivers
      <3> QED
        BY <1>0, <2>1, <2>4, <2>5, <2>7, <3>1 DEF LinesOK
    <2>8. CASE l = Level[t]
      <3>1. Sole(l) /\ (back[t] = "rc_wait" => ts[t] = entry)
        BY <1>0, <1>1, <2>6, <2>8 DEF Steady, Sole, Receivers
      <3>2. thread_waiting[entry][l] = IF t \in In(entry) THEN 1 ELSE 0
        BY <1>2, <2>3, <2>6, <2>8, <3>1, SoleCount
      <3>3. waiting_n[t] = IF back[t] = "rc_wait" THEN 1 ELSE 0
        BY <2>1, <2>8, <3>1 DEF ReadOK, Updating, TypeOK
      <3>4. t \in In(entry) <=> back[t] = "rc_wait"
        BY <3>1 DEF In
      <3> QED
        BY <1>0, <2>1, <2>4, <2>8, <3>2, <3>3, <3>4
    <2> QED
      BY <2>7, <2>8
  <1>12. CASE RemoveDevice(t)
    <2>1. content' \notin buffers' /\ ~UpdateFree(t)
      BY <1>12 DEF RemoveDevice, UpdateFree
    <2> QED
      BY <1>3, <2>1
  <1> QED
    BY <1>5, <1>6, <1>7, <1>8, <1>9, <1>10, <1>11, <1>12 DEF Handles

-----------------------------------------------------------------------------
\* LineInv is inductive.

LEMMA LineInit == Init => LineInv
  <1> SUFFICES ASSUME Init PROVE LineInv
    OBVIOUS
  <1>1. TextsOK /\ ReadOK
    BY DEF Init, TextsOK, Replacing, ReadOK, Updating
  <1>2. LinesOK
    BY DEF Init, LinesOK, Shown
  <1> QED
    BY <1>1, <1>2, DeviceInit DEF LineInv

LEMMA LineStep ==
  ASSUME LineInv, [Next]_vars
  PROVE  LineInv'
  <1>0. DeviceInv'
    BY DeviceStep DEF LineInv
  <1>1. ASSUME NEW t \in Threads, Acts(t)
        PROVE  TextsOK' /\ ReadOK' /\ LinesOK'
    <2>1. TextsOK'
      BY <1>1, TextsStep DEF LineInv, DeviceInv
    <2>2. ReadOK'
      BY <1>1, ReadStep DEF LineInv, DeviceInv
    <2>3. LinesOK'
      BY <1>1, LinesBesides, LinesWritten
    <2> QED
      BY <2>1, <2>2, <2>3
  <1>2. CASE UNCHANGED vars
    <2> USE <1>2 DEF LineInv, vars, service, driver, threadVars
    <2>1. TextsOK'
      BY DEF TextsOK, Replacing
    <2>2. ReadOK'
      BY DEF ReadOK, Sole, Receivers
    <2>3. LinesOK'
      BY DEF LinesOK, Shown, Steady, Sole, Receivers
    <2> QED
      BY <1>0, <2>1, <2>2, <2>3
  <1> QED
    BY <1>0, <1>1, <1>2 DEF LineInv, Next, Acts

\* Two updates of different levels, each rewriting the text that the other has
\* just rewritten, lose nothing, though what they write was read before they had
\* device_lock: the line of a level shows the threads that wait there as soon as
\* the update of its one receiver is over.
THEOREM LinesAgree == Spec => []LineExact
  <1>1. Spec => []LineInv
    BY LineInit, LineStep, PTL DEF Spec
  <1>2. LineInv => LineExact
    <2> SUFFICES ASSUME LineInv, Settled, NEW l \in Levels, Quiet(l)
                 PROVE  text[content].line[l] = thread_waiting[entry][l]
      BY DEF LineExact
    <2>1. Shown
      BY DEF LineInv, DeviceInv, BuffersOK, Settled, Shown, At
    <2>2. Steady(l)
      BY DEF Settled, Quiet, Steady, Sole, Receivers
    <2> QED
      BY <2>1, <2>2 DEF LineInv, LinesOK
  <1> QED
    BY <1>1, <1>2, PTL

=============================================================================
