------------------------------ MODULE TagDevice ------------------------------
(***************************************************************************)
(* The char device of one tag (src/tag_device_driver.c) and the system     *)
(* calls that create it, destroy it and rewrite its text.  Minors share    *)
(* nothing but the device class, so one of them is modelled: the entry of  *)
(* its tag in the table, its device_lock, the pointer dm->content and the  *)
(* buffers that pointer goes through.  Of the service only what the driver *)
(* reads is kept; TagService has the rest.                                 *)
(***************************************************************************)
EXTENDS Integers, FiniteSets

CONSTANTS
  Threads,
  Program,         \* Program[t]: a subset of Calls
  Level,           \* Level[t]: the level on which thread t receives
  MAX_LEVELS,
  Services,        \* blocks for struct my_tag_service
  Buffers,         \* blocks of BUFSIZE bytes for the text
  NULL,
  InitOnAlloc      \* does kmalloc return zeroed memory (init_on_alloc)?

Calls  == {"create", "remove", "receive", "read"}
Levels == 0 .. MAX_LEVELS - 1

ASSUME DeviceAssumption ==
  /\ MAX_LEVELS \in Nat \ {0}
  /\ Level \in [Threads -> Levels]
  /\ Program \in [Threads -> SUBSET Calls]
  /\ NULL \notin Services \cup Buffers \cup Threads
  /\ InitOnAlloc \in BOOLEAN
  /\ IsFiniteSet(Threads)

VARIABLES
  entry,           \* tsm->all_tag_services[minor]
  live,            \* services that are allocated
  lazy_deleted, count, thread_waiting,    \* fields of the services
  registered,      \* /dev/tsdev_<minor> exists
  device_lock,     \* its owner, or NULL
  content,         \* dm->content[minor]
  buffers,         \* buffers that are allocated
  text,            \* bytes of each buffer: service described, count by level
  junk,            \* buffers whose bytes are not such a text
  \* per thread: statement, service of the system call, service loaded by the
  \* driver, buffer in use, count read, statement to return to, open file
  pc, ts, dev, buf, waiting_n, back, file

service    == <<entry, live, lazy_deleted, count, thread_waiting>>
driver     == <<registered, device_lock, content, buffers, text, junk>>
threadVars == <<pc, ts, dev, buf, waiting_n, back, file>>
vars       == <<service, driver, threadVars>>

NoText == [service |-> NULL, line |-> [l \in Levels |-> 0]]

\* init_device_driver leaves dm->content as kmalloc returned it; with zeroed
\* memory it is a null pointer, and any other value is as useless as NULL.
Init ==
  /\ entry = NULL /\ live = {}
  /\ lazy_deleted = [b \in Services |-> FALSE]
  /\ count = [b \in Services |-> 0]
  /\ thread_waiting = [b \in Services |-> [l \in Levels |-> 0]]
  /\ registered = FALSE /\ device_lock = NULL /\ content = NULL
  /\ buffers = {}
  /\ text = [f \in Buffers |-> NoText]
  /\ junk = Buffers
  /\ pc = [t \in Threads |-> "idle"]
  /\ ts = [t \in Threads |-> NULL]
  /\ dev = [t \in Threads |-> NULL]
  /\ buf = [t \in Threads |-> NULL]
  /\ waiting_n = [t \in Threads |-> 0]
  /\ back = [t \in Threads |-> "idle"]
  /\ file = [t \in Threads |-> NULL]

-----------------------------------------------------------------------------
\* Steps of a thread.

At(t, label)   == pc[t] = label
Goto(t, label) == pc' = [pc EXCEPT ![t] = label]
locals         == <<ts, dev, buf, waiting_n, back, file>>

\* A bad pointer: the thread is lost with the mutex it holds.
Oops(t) == Goto(t, "oops") /\ UNCHANGED <<service, driver, locals>>

Lock(t, from, to) ==
  /\ At(t, from)
  /\ device_lock = NULL
  /\ device_lock' = t
  /\ Goto(t, to)
  /\ UNCHANGED <<service, registered, content, buffers, text, junk, locals>>

\* A block that kzalloc may return: reuse under a pointer that is still held
\* is the subject of TagService.  A block that a text was written for is not
\* returned either: the service of a text is one service, not its successors.
FreshServices == {b \in Services \ live :
                    /\ \A t \in Threads : b \notin {ts[t], dev[t], file[t]}
                    /\ \A f \in buffers : text[f].service # b}

\* The buffer f is allocated and gets the text x; on memory that is not
\* zeroed, strncat appends it to whatever the buffer holds.
Write(f, x, dirty) ==
  /\ text' = [text EXCEPT ![f] = x]
  /\ \E garbled \in {dirty, dirty \/ ~InitOnAlloc} :
       junk' = IF garbled THEN junk \cup {f} ELSE junk \ {f}

-----------------------------------------------------------------------------
\* CREATE_TAG: the critical section of tag_get, then, without its mutex,
\* ts_create_char_device_file.

TagCreate(t) ==
  /\ At(t, "idle") /\ "create" \in Program[t]
  /\ entry = NULL
  /\ \E b \in FreshServices :
       /\ entry' = b
       /\ live' = live \cup {b}
       /\ lazy_deleted' = [lazy_deleted EXCEPT ![b] = FALSE]
       /\ count' = [count EXCEPT ![b] = 0]
       /\ thread_waiting' = [thread_waiting EXCEPT ![b] = NoText.line]
  /\ Goto(t, "mk_load")
  /\ UNCHANGED <<driver, locals>>

CreateLoad(t) ==
  /\ At(t, "mk_load")
  /\ dev' = [dev EXCEPT ![t] = entry]
  /\ Goto(t, "mk_lock")
  /\ UNCHANGED <<service, driver, ts, buf, waiting_n, back, file>>

CreateLock(t) == Lock(t, "mk_lock", "mk_add")

\* cdev_add or device_create fails; device_create always does if the node
\* exists.
CreateFail(t) ==
  /\ At(t, "mk_add")
  /\ device_lock' = NULL
  /\ Goto(t, "idle")
  /\ dev' = [dev EXCEPT ![t] = NULL]
  /\ UNCHANGED <<service, registered, content, buffers, text, junk,
                 ts, buf, waiting_n, back, file>>

\* From here on the device can be opened, before it has a buffer and before
\* the buffer has a text.
CreateNode(t) ==
  /\ At(t, "mk_add") /\ ~registered
  /\ registered' = TRUE
  /\ Goto(t, "mk_alloc")
  /\ UNCHANGED <<service, device_lock, content, buffers, text, junk, locals>>

CreateAlloc(t) ==
  /\ At(t, "mk_alloc")
  /\ \E f \in Buffers \ buffers :
       /\ content' = f
       /\ buffers' = buffers \cup {f}
       /\ junk' = junk \cup {f}
  /\ Goto(t, "mk_fill")
  /\ UNCHANGED <<service, registered, device_lock, text, locals>>

CreateFill(t) ==
  /\ At(t, "mk_fill") /\ dev[t] # NULL
  /\ Write(content, [service |-> dev[t], line |-> thread_waiting[dev[t]]],
           FALSE)
  /\ device_lock' = NULL
  /\ Goto(t, "idle")
  /\ dev' = [dev EXCEPT ![t] = NULL]
  /\ UNCHANGED <<service, registered, content, buffers, ts, buf, waiting_n,
                 back, file>>

CreateNull(t) == At(t, "mk_fill") /\ dev[t] = NULL /\ Oops(t)

CreateStep(t) == CreateLoad(t) \/ CreateFail(t) \/ CreateNode(t)
                 \/ CreateAlloc(t) \/ CreateFill(t) \/ CreateNull(t)

-----------------------------------------------------------------------------
\* update_chrdev, called by tag_receive before and after the wait.

UpdateLoad(t) ==
  /\ At(t, "up_load")
  /\ dev' = [dev EXCEPT ![t] = entry]
  /\ Goto(t, IF entry = NULL THEN back[t] ELSE "up_read")
  /\ UNCHANGED <<service, driver, ts, buf, waiting_n, back, file>>

\* The count is read before the mutex is taken.
UpdateRead(t) ==
  /\ At(t, "up_read")
  /\ waiting_n' = [waiting_n EXCEPT ![t] = thread_waiting[dev[t]][Level[t]]]
  /\ Goto(t, "up_lock")
  /\ UNCHANGED <<service, driver, ts, dev, buf, back, file>>

UpdateLock(t) == Lock(t, "up_lock", "up_build")

\* Wrong version: the other lines are not copied.
UpdateBuildOneLine(t) ==
  /\ At(t, "up_build") /\ content \in buffers
  /\ \E f \in Buffers \ buffers :
       /\ buffers' = buffers \cup {f}
       /\ buf' = [buf EXCEPT ![t] = f]
       /\ Write(f, [service |-> text[content].service,
                    line |-> [NoText.line EXCEPT ![Level[t]] = waiting_n[t]]],
                content \in junk)
  /\ Goto(t, "up_free")
  /\ UNCHANGED <<service, registered, device_lock, content, ts, dev,
                 waiting_n, back, file>>

\* The old text with another count in the line of the level.
UpdateBuild(t) ==
  /\ At(t, "up_build") /\ content \in buffers
  /\ \E f \in Buffers \ buffers :
       /\ buffers' = buffers \cup {f}
       /\ buf' = [buf EXCEPT ![t] = f]
       /\ Write(f, [text[content] EXCEPT !.line[Level[t]] = waiting_n[t]],
                content \in junk)
  /\ Goto(t, "up_free")
  /\ UNCHANGED <<service, registered, device_lock, content, ts, dev,
                 waiting_n, back, file>>

UpdateWild(t) == At(t, "up_build") /\ content \notin buffers /\ Oops(t)

\* Wrong version: the old buffer is not freed.
UpdateFreeNot(t) ==
  At(t, "up_free") /\ Goto(t, "up_assign") /\ UNCHANGED <<service, driver, locals>>

\* The old buffer is freed first, then the new one is published.
UpdateFree(t) ==
  /\ At(t, "up_free")
  /\ buffers' = buffers \ {content}
  /\ Goto(t, "up_assign")
  /\ UNCHANGED <<service, registered, device_lock, content, text, junk,
                 locals>>

\* Wrong version: the new buffer is freed with the temporary ones.
UpdateAssignFreed(t) ==
  /\ At(t, "up_assign")
  /\ content' = buf[t] /\ buffers' = buffers \ {buf[t]}
  /\ device_lock' = NULL
  /\ Goto(t, back[t])
  /\ buf' = [buf EXCEPT ![t] = NULL]
  /\ dev' = [dev EXCEPT ![t] = NULL]
  /\ waiting_n' = [waiting_n EXCEPT ![t] = 0]
  /\ UNCHANGED <<service, registered, text, junk, ts, back, file>>

UpdateAssign(t) ==
  /\ At(t, "up_assign")
  /\ content' = buf[t]
  /\ device_lock' = NULL
  /\ Goto(t, back[t])
  /\ buf' = [buf EXCEPT ![t] = NULL]
  /\ dev' = [dev EXCEPT ![t] = NULL]
  /\ waiting_n' = [waiting_n EXCEPT ![t] = 0]
  /\ UNCHANGED <<service, registered, buffers, text, junk, ts, back, file>>

UpdateStep(t) == UpdateLoad(t) \/ UpdateRead(t) \/ UpdateBuild(t)
                 \/ UpdateWild(t) \/ UpdateFree(t) \/ UpdateAssign(t)
-----------------------------------------------------------------------------
\* tag_receive, reduced to the counters and the calls of update_chrdev.

TagReceive(t) ==
  /\ At(t, "idle") /\ "receive" \in Program[t]
  /\ entry # NULL /\ ~lazy_deleted[entry]
  /\ ts' = [ts EXCEPT ![t] = entry]
  /\ Goto(t, "rc_count")
  /\ UNCHANGED <<service, driver, dev, buf, waiting_n, back, file>>

\* Wrong version: only the counter of the service is incremented.
ReceiveCountOnce(t) ==
  /\ At(t, "rc_count")
  /\ count' = [count EXCEPT ![ts[t]] = @ + 1]
  /\ back' = [back EXCEPT ![t] = "rc_wait"]
  /\ Goto(t, "up_load")
  /\ UNCHANGED <<entry, live, lazy_deleted, thread_waiting, driver, ts, dev,
                 buf, waiting_n, file>>

\* REMOVE_TAG reads only the first counter, the driver only the second.
ReceiveCount(t) ==
  /\ At(t, "rc_count")
  /\ count' = [count EXCEPT ![ts[t]] = @ + 1]
  /\ thread_waiting' = [thread_waiting EXCEPT ![ts[t]][Level[t]] = @ + 1]
  /\ back' = [back EXCEPT ![t] = "rc_wait"]
  /\ Goto(t, "up_load")
  /\ UNCHANGED <<entry, live, lazy_deleted, driver, ts, dev, buf, waiting_n,
                 file>>

\* A message, AWAKE_ALL or a signal ends the wait.
ReceiveLeave(t) ==
  /\ At(t, "rc_wait")
  /\ count' = [count EXCEPT ![ts[t]] = @ - 1]
  /\ Goto(t, "rc_level")
  /\ UNCHANGED <<entry, live, lazy_deleted, thread_waiting, driver, locals>>

ReceiveLevel(t) ==
  /\ At(t, "rc_level")
  /\ thread_waiting' = [thread_waiting EXCEPT ![ts[t]][Level[t]] = @ - 1]
  /\ back' = [back EXCEPT ![t] = "idle"]
  /\ ts' = [ts EXCEPT ![t] = NULL]
  /\ Goto(t, "up_load")
  /\ UNCHANGED <<entry, live, lazy_deleted, count, driver, dev, buf,
                 waiting_n, file>>

-----------------------------------------------------------------------------
\* REMOVE_TAG: its critical section, ts_destroy_char_device_file, the rest.

TagRemove(t) ==
  /\ At(t, "idle") /\ "remove" \in Program[t]
  /\ entry # NULL /\ ~lazy_deleted[entry] /\ count[entry] = 0
  /\ lazy_deleted' = [lazy_deleted EXCEPT ![entry] = TRUE]
  /\ ts' = [ts EXCEPT ![t] = entry]
  /\ Goto(t, "rm_lock")
  /\ UNCHANGED <<entry, live, count, thread_waiting, driver, dev, buf,
                 waiting_n, back, file>>

RemoveLock(t) == Lock(t, "rm_lock", "rm_dev")

\* kfree(NULL) does nothing; the pointer stays as it is.
RemoveDevice(t) ==
  /\ At(t, "rm_dev") /\ content \in buffers \cup {NULL}
  /\ registered' = FALSE
  /\ buffers' = buffers \ {content}
  /\ device_lock' = NULL
  /\ Goto(t, "rm_null")
  /\ UNCHANGED <<service, content, text, junk, locals>>

\* A second kfree of the same buffer.
RemoveTwice(t) ==
  At(t, "rm_dev") /\ content \notin buffers \cup {NULL} /\ Oops(t)

RemoveUnlink(t) ==
  /\ At(t, "rm_null")
  /\ entry' = NULL
  /\ Goto(t, "rm_free")
  /\ UNCHANGED <<live, lazy_deleted, count, thread_waiting, driver, locals>>

RemoveFree(t) ==
  /\ At(t, "rm_free")
  /\ live' = live \ {ts[t]}
  /\ ts' = [ts EXCEPT ![t] = NULL]
  /\ Goto(t, "idle")
  /\ UNCHANGED <<entry, lazy_deleted, count, thread_waiting, driver, dev,
                 buf, waiting_n, back, file>>

RemoveStep(t) == RemoveDevice(t) \/ RemoveTwice(t) \/ RemoveUnlink(t)
                 \/ RemoveFree(t)

-----------------------------------------------------------------------------
\* A session on the device file: ts_open, any number of ts_read, ts_release.

TsOpen(t) ==
  /\ At(t, "idle") /\ "read" \in Program[t]
  /\ registered
  /\ file' = [file EXCEPT ![t] = entry]
  /\ Goto(t, "opened")
  /\ UNCHANGED <<service, driver, ts, dev, buf, waiting_n, back>>

TsRelease(t) ==
  /\ At(t, "opened")
  /\ file' = [file EXCEPT ![t] = NULL]
  /\ Goto(t, "idle")
  /\ UNCHANGED <<service, driver, ts, dev, buf, waiting_n, back>>

\* rcu_dereference(dm->content[ts->tag]), inside the read section.
ReadBegin(t) ==
  /\ At(t, "opened") /\ file[t] # NULL
  /\ buf' = [buf EXCEPT ![t] = content]
  /\ Goto(t, "rd_copy")
  /\ UNCHANGED <<service, driver, ts, dev, waiting_n, back, file>>

ReadNull(t) ==
  \/ At(t, "opened") /\ file[t] = NULL /\ Oops(t)
  \/ At(t, "rd_copy") /\ buf[t] = NULL /\ Oops(t)

\* The end of memcpy and of the read section.
ReadCopy(t) ==
  /\ At(t, "rd_copy") /\ buf[t] # NULL
  /\ buf' = [buf EXCEPT ![t] = NULL]
  /\ Goto(t, "rd_lock")
  /\ UNCHANGED <<service, driver, ts, dev, waiting_n, back, file>>

ReadLock(t) == Lock(t, "rd_lock", "rd_out")

\* mutex_lock_killable was interrupted.
ReadKilled(t) ==
  /\ At(t, "rd_lock")
  /\ Goto(t, "opened")
  /\ UNCHANGED <<service, driver, locals>>

\* Wrong version: the end of file returns without unlocking.
ReadOutLocked(t) ==
  At(t, "rd_out") /\ Goto(t, "opened") /\ UNCHANGED <<service, driver, locals>>

\* End of file, a fault in copy_to_user or the bytes: all unlock.
ReadOut(t) ==
  /\ At(t, "rd_out")
  /\ device_lock' = NULL
  /\ Goto(t, "opened")
  /\ UNCHANGED <<service, registered, content, buffers, text, junk, locals>>

-----------------------------------------------------------------------------
\* What user space decides: calls, and when a receiver or a reader is done.
Environment(t) == TagCreate(t) \/ TagReceive(t) \/ TagRemove(t) \/ TsOpen(t)
                  \/ TsRelease(t) \/ ReadBegin(t) \/ ReadKilled(t)
                  \/ ReceiveLeave(t)

Step(t) == CreateStep(t) \/ UpdateStep(t) \/ RemoveStep(t) \/ ReceiveCount(t)
           \/ ReceiveLevel(t) \/ ReadNull(t) \/ ReadCopy(t) \/ ReadOut(t)

TakeLock(t) == CreateLock(t) \/ UpdateLock(t) \/ RemoveLock(t) \/ ReadLock(t)

Next == \E t \in Threads : Environment(t) \/ Step(t) \/ TakeLock(t)

Spec == Init /\ [][Next]_vars

\* Every thread that can run does; nothing is asked of the order in which a
\* mutex is granted.
LiveSpec == Spec /\ \A t \in Threads : WF_vars(Step(t))

=============================================================================
