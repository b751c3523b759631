----------------------------- MODULE TagService -----------------------------
(***************************************************************************)
(* The four system calls of src/tag_service.c - tag_get, tag_send,         *)
(* tag_receive, tag_ctl - and the two RCU callbacks, run by any number of  *)
(* threads on any number of processors.  A step is one access to shared    *)
(* state, or a stretch of code that no other thread can tell from one.     *)
(* The text file of the character device is not part of this module: only  *)
(* the read of the table in ts_create_char_device_file is, because it can  *)
(* fault.                                                                  *)
(*                                                                         *)
(* Each definition introduced as "a wrong" action precedes that action and *)
(* differs from it by one plausible slip.  The specification never uses    *)
(* it: with it in place of the action, a property of TagSafety fails.      *)
(***************************************************************************)
EXTENDS TagState

-----------------------------------------------------------------------------
\* The table is allocated with sizeof(tag_service) per entry, so the entry
\* after the last one reads as a null pointer.
Entry(x) == IF x \in Tags THEN all_tag_services[x] ELSE NULL

-----------------------------------------------------------------------------
\* mutex_lock(&tsm.access_lock[x]), where tag_get and tag_send take the tag
\* they computed and tag_ctl the tag it read from the service.

WaitsForLock(t) == pc[t] \in {"get_lock", "send_lock", "ctl_lock"}

LockIndex(t) == IF At(t, "ctl_lock") THEN local[t].lock ELSE local[t].tag

AfterLock(t) == CASE At(t, "get_lock")  -> "get_cs"
                  [] At(t, "send_lock") -> "send_cs"
                  [] At(t, "ctl_lock")  -> "ctl_cs"

MutexLock(t) ==
  /\ WaitsForLock(t)
  /\ LockIndex(t) \in Tags
  /\ access_lock[LockIndex(t)] = FREE
  /\ access_lock' = [access_lock EXCEPT ![LockIndex(t)] = t]
  /\ Goto(t, AfterLock(t))
  /\ UNCHANGED <<tsm, heap, callbacks>>

\* A negative index is outside the array access_lock.
LockOutOfBounds(t) ==
  /\ WaitsForLock(t)
  /\ LockIndex(t) \notin Tags
  /\ Oops(t)
  /\ UNCHANGED kernelVars

-----------------------------------------------------------------------------
\* find_first_entry_available, called by tag_get (IPC_PRIVATE) and by
\* REMOVE_TAG, always without a lock.

\* A wrong FindReturns: tag_get does not test the result.
FindReturnsUntested(t, x) ==
  IF local[t].op = "REMOVE_TAG" THEN Goto(t, "rm_inc")
  ELSE /\ pc' = [pc EXCEPT ![t] = "get_lock"]
       /\ local' = [local EXCEPT ![t].tag = x]
       /\ UNCHANGED <<asleep, signalled, ts, ret>>

\* What its caller does with the result: tag_get takes a lock with it,
\* unless it creates and got -1; REMOVE_TAG ignores it.
FindReturns(t, x) ==
  CASE local[t].op = "REMOVE_TAG" -> Goto(t, "rm_inc")
    [] local[t].op = "CREATE_TAG" /\ x = -1 -> Return(t, "ENOMEM")
    [] OTHER -> /\ pc' = [pc EXCEPT ![t] = "get_lock"]
                /\ local' = [local EXCEPT ![t].tag = x]
                /\ UNCHANGED <<asleep, signalled, ts, ret>>

FindTest(t) ==
  /\ At(t, "find_test")
  /\ Goto(t, IF is_entry_available(first_free_entry) THEN "find_ret"
                                                     ELSE "find_full")
  /\ UNCHANGED kernelVars

FindFull(t) ==
  /\ At(t, "find_full")
  /\ IF no_more_tag_service
     THEN FindReturns(t, -1)
     ELSE /\ pc' = [pc EXCEPT ![t] = "find_scan"]
          /\ local' = [local EXCEPT ![t].i = 0]
          /\ UNCHANGED <<asleep, signalled, ts, ret>>
  /\ UNCHANGED kernelVars

\* A wrong FindScanTaken: the loop runs to i <= MAX_TAG_SERVICES.
FindScanTakenTooFar(t) ==
  /\ At(t, "find_scan")
  /\ ~is_entry_available(local[t].i)
  /\ local' = [local EXCEPT ![t].i = @ + 1]
  /\ UNCHANGED <<asleep, signalled, ts, ret, pc, kernelVars>>

FindScanTaken(t) ==
  /\ At(t, "find_scan")
  /\ ~is_entry_available(local[t].i)
  /\ IF local[t].i < MAX_TAG_SERVICES - 1
     THEN /\ local' = [local EXCEPT ![t].i = @ + 1]
          /\ UNCHANGED pc
     ELSE /\ pc' = [pc EXCEPT ![t] = "find_ret"]
          /\ UNCHANGED local
  /\ UNCHANGED <<asleep, signalled, ts, ret, kernelVars>>

FindScanFree(t) ==
  /\ At(t, "find_scan")
  /\ is_entry_available(local[t].i)
  /\ first_free_entry' = local[t].i
  /\ Goto(t, "find_ret")
  /\ UNCHANGED <<all_tag_services, remaining_entries, access_lock, heap,
                 callbacks>>

FindRet(t) ==
  /\ At(t, "find_ret")
  /\ FindReturns(t, first_free_entry)
  /\ UNCHANGED kernelVars

FindFirstEntryAvailable(t) ==
  FindTest(t) \/ FindFull(t) \/ FindScanTaken(t) \/ FindScanFree(t)
  \/ FindRet(t)

-----------------------------------------------------------------------------
\* tag_get.

TagGet(t) ==
  /\ At(t, "idle")
  /\ \E op \in Program[t] \cap GetOps, key \in Keys, p \in Permissions :
       /\ op = "OPEN_TAG" => p = "EVERYONE"    \* OPEN_TAG ignores it
       /\ LET args == [NoLocals EXCEPT !.op = op, !.key = key,
                                       !.permission = p]
          IN  IF key = IPC_PRIVATE
              THEN Enter(t, "find_test", args, NULL)
              ELSE Enter(t, "get_lock",
                         [args EXCEPT !.tag = hash_function(key)], NULL)
  /\ UNCHANGED kernelVars

\* An unknown command or permission.
TagGetInvalid(t) ==
  /\ At(t, "idle")
  /\ Program[t] \cap GetOps # {}
  /\ Refuse(t, "EINVAL")
  /\ UNCHANGED kernelVars

InCreate(t) == At(t, "get_cs") /\ local[t].op = "CREATE_TAG"

CreateTaken(t) ==
  /\ InCreate(t)
  /\ ~is_entry_available(local[t].tag)
  /\ Unlock(local[t].tag)
  /\ Return(t, "ENOKEY")
  /\ UNCHANGED <<tsm, heap, callbacks>>

\* A wrong CreateNoMemory: the counter is decremented before the allocation.
CreateNoMemoryCounts(t) ==
  /\ At(t, "get_cs") /\ local[t].op = "CREATE_TAG"
  /\ is_entry_available(local[t].tag)
  /\ remaining_entries' = (remaining_entries - 1) % WORD
  /\ Unlock(local[t].tag)
  /\ Return(t, "ENOMEM")
  /\ UNCHANGED <<all_tag_services, first_free_entry, heap, callbacks>>

\* kzalloc fails for the service (EFAULT) or for its levels and messages
\* (ENOMEM); what was allocated so far was private to the thread.
CreateNoMemory(t) ==
  /\ InCreate(t)
  /\ is_entry_available(local[t].tag)
  /\ Unlock(local[t].tag)
  /\ \E code \in {"EFAULT", "ENOMEM"} : Return(t, code)
  /\ UNCHANGED <<tsm, heap, callbacks>>

\* A wrong CreatePublish: the entry is not tested under the lock.
CreatePublishUntested(t) ==
  /\ At(t, "get_cs") /\ local[t].op = "CREATE_TAG"
  /\ \E b \in FreshBlocks :
       /\ allocated' = allocated \cup {b}
       /\ svc' = [svc EXCEPT ![b] =
                    [NoService EXCEPT !.tag = local[t].tag,
                                      !.owner_euid = EUID[t]]]
       /\ level' = [level EXCEPT ![b] = [l \in Levels |-> NoLevel]]
       /\ all_tag_services' = [all_tag_services EXCEPT ![local[t].tag] = b]
       /\ ts' = [ts EXCEPT ![t] = b]
  /\ Unlock(local[t].tag)
  /\ pc' = [pc EXCEPT ![t] = "get_dec"]
  /\ UNCHANGED <<first_free_entry, remaining_entries, callbacks, asleep,
                 signalled, local, ret>>

\* Fill a new block, publish it in the table, unlock.
CreatePublish(t) ==
  /\ InCreate(t)
  /\ is_entry_available(local[t].tag)
  /\ \E b \in FreshBlocks :
       /\ allocated' = allocated \cup {b}
       /\ svc' = [svc EXCEPT ![b] =
                    [NoService EXCEPT !.tag = local[t].tag,
                                      !.key = IF local[t].key = IPC_PRIVATE
                                              THEN -1 ELSE local[t].key,
                                      !.permission = local[t].permission,
                                      !.owner_euid = EUID[t]]]
       /\ level' = [level EXCEPT ![b] = [l \in Levels |-> NoLevel]]
       /\ all_tag_services' = [all_tag_services EXCEPT ![local[t].tag] = b]
       /\ ts' = [ts EXCEPT ![t] = b]
  /\ Unlock(local[t].tag)
  /\ pc' = [pc EXCEPT ![t] = "get_dec"]
  /\ UNCHANGED <<first_free_entry, remaining_entries, callbacks, asleep,
                 signalled, local, ret>>

CreateDec(t) ==
  /\ At(t, "get_dec")
  /\ remaining_entries' = (remaining_entries - 1) % WORD
  /\ Goto(t, "get_dev")
  /\ UNCHANGED <<all_tag_services, first_free_entry, access_lock, heap,
                 callbacks>>

\* ts_create_char_device_file reads the table again ...
DeviceLoad(t) ==
  /\ At(t, "get_dev")
  /\ pc' = [pc EXCEPT ![t] = "dev_fill"]
  /\ ts' = [ts EXCEPT ![t] = all_tag_services[local[t].tag]]
  /\ UNCHANGED <<asleep, signalled, local, ret, kernelVars>>

\* ... and then gives up, because the device cannot be registered, or reads
\* the service it found to write the text of the device.
DeviceFill(t) ==
  /\ At(t, "dev_fill")
  /\ \/ Return(t, "OK")
     \/ ts[t] = NULL /\ Oops(t)
  /\ UNCHANGED kernelVars

InOpen(t) == At(t, "get_cs") /\ local[t].op = "OPEN_TAG"

\* A wrong OpenMissing: no mutex_unlock on the error path.
OpenMissingLocked(t) ==
  /\ At(t, "get_cs") /\ local[t].op = "OPEN_TAG"
  /\ is_entry_available(local[t].tag) \/ local[t].key = IPC_PRIVATE
  /\ Return(t, "EBADR")
  /\ UNCHANGED kernelVars

OpenMissing(t) ==
  /\ InOpen(t)
  /\ is_entry_available(local[t].tag) \/ local[t].key = IPC_PRIVATE
  /\ Unlock(local[t].tag)
  /\ Return(t, "EBADR")
  /\ UNCHANGED <<tsm, heap, callbacks>>

OpenFound(t) ==
  /\ InOpen(t)
  /\ ~is_entry_available(local[t].tag) /\ local[t].key # IPC_PRIVATE
  /\ Goto(t, "open_load")
  /\ UNCHANGED kernelVars

\* REMOVE_TAG empties the entry without the lock: the second read of the
\* table may return the null pointer.
OpenLoad(t) ==
  /\ At(t, "open_load")
  /\ pc' = [pc EXCEPT ![t] = "open_check"]
  /\ ts' = [ts EXCEPT ![t] = all_tag_services[local[t].tag]]
  /\ UNCHANGED <<asleep, signalled, local, ret, kernelVars>>

OpenNull(t) ==
  /\ At(t, "open_check")
  /\ ts[t] = NULL
  /\ Oops(t)
  /\ UNCHANGED kernelVars

OpenCheck(t) ==
  /\ At(t, "open_check")
  /\ ts[t] # NULL
  /\ Unlock(local[t].tag)
  /\ Return(t, CASE svc[ts[t]].lazy_deleted -> "EBADR"
                 [] ~svc[ts[t]].lazy_deleted /\ Denied(t) -> "EACCES"
                 [] OTHER -> "OK")
  /\ UNCHANGED <<tsm, heap, callbacks>>

TagGetStep(t) ==
  \/ FindFirstEntryAvailable(t)
  \/ CreateTaken(t) \/ CreateNoMemory(t) \/ CreatePublish(t) \/ CreateDec(t)
  \/ DeviceLoad(t) \/ DeviceFill(t)
  \/ OpenMissing(t) \/ OpenFound(t) \/ OpenLoad(t) \/ OpenNull(t)
  \/ OpenCheck(t)
-----------------------------------------------------------------------------
\* tag_send.

\* Arguments just outside their range stand for every invalid one.  The tag
\* test lets MAX_TAG_SERVICES through.
TagSend(t) ==
  /\ At(t, "idle")
  /\ "send" \in Program[t]
  /\ \E x \in -1 .. MAX_TAG_SERVICES, l \in -1 .. MAX_LEVELS, m \in Messages :
       LET args == [NoLocals EXCEPT !.op = "send", !.tag = x, !.level = l,
                                    !.buffer = m]
           valid == 0 <= x /\ x <= MAX_TAG_SERVICES /\ l \in Levels
       IN  \/ ~valid /\ Refuse(t, "EINVAL")
           \/ valid /\ Entry(x) = NULL /\ Refuse(t, "EBADF")
           \/ valid /\ Entry(x) # NULL /\ Enter(t, "send_lock", args, Entry(x))
  /\ UNCHANGED kernelVars

SendRefused(t) ==
  /\ At(t, "send_cs")
  /\ svc[ts[t]].lazy_deleted \/ Denied(t)
  /\ Unlock(local[t].tag)
  /\ Return(t, IF svc[ts[t]].lazy_deleted THEN "EBADF" ELSE "EACCES")
  /\ UNCHANGED <<tsm, heap, callbacks>>

\* A wrong SendAccepted: no test of lazy_deleted.
SendAcceptedDeleted(t) ==
  /\ At(t, "send_cs")
  /\ ~Denied(t)
  /\ Goto(t, "send_copy")
  /\ UNCHANGED kernelVars

\* A wrong SendAccepted: no test of the permission under the lock.
SendAcceptedUnchecked(t) ==
  /\ At(t, "send_cs")
  /\ ~svc[ts[t]].lazy_deleted
  /\ Goto(t, "send_copy")
  /\ UNCHANGED kernelVars

SendAccepted(t) ==
  /\ At(t, "send_cs")
  /\ ~svc[ts[t]].lazy_deleted /\ ~Denied(t)
  /\ Goto(t, "send_copy")
  /\ UNCHANGED kernelVars

\* A wrong SendCopy: the flag is set before the copy.
SendCopyReady(t) ==
  /\ At(t, "send_copy")
  /\ level' = [level EXCEPT ![ts[t]][local[t].level].message_ready = TRUE,
                            ![ts[t]][local[t].level].message = TORN]
  /\ Goto(t, "send_size")
  /\ UNCHANGED <<tsm, access_lock, allocated, svc, callbacks>>

\* memcpy has begun: a reader that copies now gets old and new bytes.
SendCopy(t) ==
  /\ At(t, "send_copy")
  /\ level' = [level EXCEPT ![ts[t]][local[t].level].message = TORN]
  /\ Goto(t, "send_size")
  /\ UNCHANGED <<tsm, access_lock, allocated, svc, callbacks>>

\* The end of memcpy, the terminator and the size.
SendSize(t) ==
  /\ At(t, "send_size")
  /\ level' = [level EXCEPT ![ts[t]][local[t].level].message =
                              local[t].buffer]
  /\ Goto(t, "send_ready")
  /\ UNCHANGED <<tsm, access_lock, allocated, svc, callbacks>>

SendReady(t) ==
  /\ At(t, "send_ready")
  /\ level' = [level EXCEPT ![ts[t]][local[t].level].message_ready = TRUE]
  /\ Goto(t, "send_test")
  /\ UNCHANGED <<tsm, access_lock, allocated, svc, callbacks>>

SendTest(t) ==
  /\ At(t, "send_test")
  /\ Goto(t, IF svc[ts[t]].thread_waiting_message_count > 0
             THEN "send_wake" ELSE "send_discard")
  /\ UNCHANGED kernelVars

SendWake(t) ==
  /\ At(t, "send_wake")
  /\ WakeUpAll
  /\ pc' = [pc EXCEPT ![t] = "send_rcu"]
  /\ UNCHANGED <<signalled, ts, local, ret, kernelVars>>

SendResult(t) == IF local[t].buffer \in LongMessages THEN "EMSGSIZE" ELSE "OK"

\* A wrong SendRcu: tag_send unlocks itself.
SendRcuUnlocks(t) ==
  /\ At(t, "send_rcu")
  /\ CallRcu("free_after_send", ts[t], local[t].level)
  /\ Unlock(local[t].tag)
  /\ Return(t, "OK")
  /\ UNCHANGED <<tsm, heap>>

\* A wrong SendRcu: the message is withdrawn at once, not by the callback.
SendRcuWithdraws(t) ==
  /\ At(t, "send_rcu")
  /\ CallRcu("free_after_send", ts[t], local[t].level)
  /\ level' = [level EXCEPT ![ts[t]][local[t].level].message_ready = FALSE]
  /\ access_lock' = [access_lock EXCEPT ![local[t].tag] = RCU]
  /\ Return(t, "OK")
  /\ UNCHANGED <<tsm, allocated, svc>>

\* The mutex stays locked: free_after_send unlocks it.
SendRcu(t) ==
  /\ At(t, "send_rcu")
  /\ CallRcu("free_after_send", ts[t], local[t].level)
  /\ access_lock' = [access_lock EXCEPT ![local[t].tag] = RCU]
  /\ Return(t, SendResult(t))
  /\ UNCHANGED <<tsm, heap>>

\* A wrong SendDiscard: the flag stays READY.
SendDiscardReady(t) ==
  /\ At(t, "send_discard")
  /\ level' = [level EXCEPT ![ts[t]][local[t].level].message = ZERO]
  /\ Unlock(local[t].tag)
  /\ Return(t, "OK")
  /\ UNCHANGED <<tsm, allocated, svc, callbacks>>

\* A wrong SendDiscard: no mutex_unlock.
SendDiscardLocked(t) ==
  /\ At(t, "send_discard")
  /\ level' = [level EXCEPT ![ts[t]][local[t].level].message_ready = FALSE,
                            ![ts[t]][local[t].level].message = ZERO]
  /\ Return(t, "OK")
  /\ UNCHANGED <<tsm, access_lock, allocated, svc, callbacks>>

\* Nobody is waiting: withdraw the message at once.
SendDiscard(t) ==
  /\ At(t, "send_discard")
  /\ level' = [level EXCEPT ![ts[t]][local[t].level].message_ready = FALSE,
                            ![ts[t]][local[t].level].message = ZERO]
  /\ Unlock(local[t].tag)
  /\ Return(t, SendResult(t))
  /\ UNCHANGED <<tsm, allocated, svc, callbacks>>

TagSendStep(t) ==
  SendRefused(t) \/ SendAccepted(t) \/ SendCopy(t) \/ SendSize(t)
  \/ SendReady(t) \/ SendTest(t) \/ SendWake(t) \/ SendRcu(t) \/ SendDiscard(t)

\* A wrong free_after_send: the flag stays READY.
FreeAfterSendReady(cb) ==
  /\ cb.fn = "free_after_send"
  /\ cb.readers = {}
  /\ callbacks' = callbacks \ {cb}
  /\ level' = [level EXCEPT ![cb.block][cb.level].message = ZERO]
  /\ Unlock(svc[cb.block].tag)
  /\ UNCHANGED <<tsm, allocated, svc, threadVars>>

\* A wrong free_after_send: no mutex_unlock.
FreeAfterSendLocked(cb) ==
  /\ cb.fn = "free_after_send"
  /\ cb.readers = {}
  /\ callbacks' = callbacks \ {cb}
  /\ level' = [level EXCEPT ![cb.block][cb.level].message_ready = FALSE,
                            ![cb.block][cb.level].message = ZERO]
  /\ UNCHANGED <<tsm, access_lock, allocated, svc, threadVars>>

\* The callback of tag_send, after its grace period.
free_after_send(cb) ==
  /\ cb.fn = "free_after_send"
  /\ cb.readers = {}
  /\ callbacks' = callbacks \ {cb}
  /\ level' = [level EXCEPT ![cb.block][cb.level].message_ready = FALSE,
                            ![cb.block][cb.level].message = ZERO]
  /\ Unlock(svc[cb.block].tag)
  /\ UNCHANGED <<tsm, allocated, svc, threadVars>>

-----------------------------------------------------------------------------
\* tag_receive.

TagReceive(t) ==
  /\ At(t, "idle")
  /\ "receive" \in Program[t]
  /\ \E x \in -1 .. MAX_TAG_SERVICES, l \in -1 .. MAX_LEVELS :
       LET args == [NoLocals EXCEPT !.op = "receive", !.tag = x, !.level = l]
           valid == x \in Tags /\ l \in Levels
       IN  \/ ~valid /\ Refuse(t, "EINVAL")
           \/ valid /\ Entry(x) = NULL /\ Refuse(t, "EBADF")
           \/ valid /\ Entry(x) # NULL /\ Enter(t, "recv_check", args, Entry(x))
  /\ UNCHANGED kernelVars

\* No lock is held here: what is checked may change before it is used.  A
\* null user buffer is refused like a missing permission.
ReceiveRefused(t) ==
  /\ At(t, "recv_check")
  /\ \/ svc[ts[t]].lazy_deleted /\ Return(t, "EBADF")
     \/ ~svc[ts[t]].lazy_deleted /\ Return(t, "EACCES")
  /\ UNCHANGED kernelVars

ReceiveAccepted(t) ==
  /\ At(t, "recv_check")
  /\ ~svc[ts[t]].lazy_deleted /\ ~Denied(t)
  /\ Goto(t, "recv_enter")
  /\ UNCHANGED kernelVars

\* Both counters at once: nothing in this module reads thread_waiting.
ReceiveEnter(t) ==
  /\ At(t, "recv_enter")
  /\ svc' = [svc EXCEPT ![ts[t]].thread_waiting_message_count =
                          (@ + 1) % WORD]
  /\ level' = [level EXCEPT ![ts[t]][local[t].level].thread_waiting =
                          (@ + 1) % WORD]
  /\ Goto(t, "recv_wait")
  /\ UNCHANGED <<tsm, access_lock, allocated, callbacks>>

\* A wrong ReceiveAwake: wait_event instead of wait_event_interruptible.
ReceiveAwakeUninterruptible(t) ==
  /\ At(t, "recv_wait") /\ t \notin asleep
  /\ Awaited(t)
  /\ Goto(t, "recv_lock")
  /\ UNCHANGED kernelVars

\* wait_event_interruptible tests before it sleeps and after each wake-up.
ReceiveAwake(t) ==
  /\ At(t, "recv_wait") /\ t \notin asleep
  /\ Awaited(t) \/ t \in signalled
  /\ Goto(t, "recv_lock")
  /\ UNCHANGED kernelVars

ReceiveSleep(t) ==
  /\ At(t, "recv_wait") /\ t \notin asleep
  /\ ~Awaited(t) /\ t \notin signalled
  /\ asleep' = asleep \cup {t}
  /\ UNCHANGED <<signalled, pc, ts, local, ret, kernelVars>>

ReceiveLock(t) ==
  /\ At(t, "recv_lock")
  /\ Goto(t, "recv_rcu")
  /\ UNCHANGED kernelVars

\* A signal, or no message in spite of the wake-up.
ReceiveNothing(t) ==
  /\ At(t, "recv_rcu")
  /\ \/ t \in signalled
     \/ ~level[ts[t]][local[t].level].message_ready
  /\ pc' = [pc EXCEPT ![t] = "recv_unlock"]
  /\ ret' = [ret EXCEPT ![t] = "EINTR"]
  /\ UNCHANGED <<asleep, signalled, ts, local, kernelVars>>

ReceiveMessage(t) ==
  /\ At(t, "recv_rcu")
  /\ t \notin signalled
  /\ level[ts[t]][local[t].level].message_ready
  /\ Goto(t, "recv_copy")
  /\ UNCHANGED kernelVars

\* copy_to_user, in two accesses: the size and the first bytes ...
ReceiveCopy(t) ==
  /\ At(t, "recv_copy")
  /\ pc' = [pc EXCEPT ![t] = "recv_rest"]
  /\ local' = [local EXCEPT ![t].buffer =
                 level[ts[t]][local[t].level].message]
  /\ UNCHANGED <<asleep, signalled, ts, ret, kernelVars>>

\* ... and the other bytes, which are those of the same message only if nobody
\* has written to it in between.
ReceiveRest(t) ==
  /\ At(t, "recv_rest")
  /\ pc' = [pc EXCEPT ![t] = "recv_unlock"]
  /\ local' = [local EXCEPT ![t].buffer =
                 IF @ = level[ts[t]][local[t].level].message THEN @ ELSE TORN]
  /\ ret' = [ret EXCEPT ![t] = "OK"]
  /\ UNCHANGED <<asleep, signalled, ts, kernelVars>>

\* A wrong ReceiveUnlock: the error path does not count the thread out.
ReceiveUnlockCounted(t) ==
  /\ At(t, "recv_unlock")
  /\ ReadUnlock(t)
  /\ Goto(t, IF ret[t] = "EINTR" THEN "recv_dec_level" ELSE "recv_dec")
  /\ UNCHANGED <<tsm, access_lock, heap>>

\* rcu_read_unlock, on each of the three paths.
ReceiveUnlock(t) ==
  /\ At(t, "recv_unlock")
  /\ ReadUnlock(t)
  /\ Goto(t, "recv_dec")
  /\ UNCHANGED <<tsm, access_lock, heap>>

ReceiveDec(t) ==
  /\ At(t, "recv_dec")
  /\ svc' = [svc EXCEPT ![ts[t]].thread_waiting_message_count =
                          (@ - 1) % WORD]
  /\ Goto(t, "recv_dec_level")
  /\ UNCHANGED <<tsm, access_lock, allocated, level, callbacks>>

ReceiveDecLevel(t) ==
  /\ At(t, "recv_dec_level")
  /\ level' = [level EXCEPT ![ts[t]][local[t].level].thread_waiting =
                          (@ - 1) % WORD]
  /\ Return(t, ret[t])
  /\ UNCHANGED <<tsm, access_lock, allocated, svc, callbacks>>

TagReceiveStep(t) ==
  ReceiveRefused(t) \/ ReceiveAccepted(t) \/ ReceiveEnter(t)
  \/ ReceiveAwake(t) \/ ReceiveSleep(t) \/ ReceiveLock(t)
  \/ ReceiveNothing(t) \/ ReceiveMessage(t) \/ ReceiveCopy(t)
  \/ ReceiveRest(t) \/ ReceiveUnlock(t) \/ ReceiveDec(t) \/ ReceiveDecLevel(t)

\* A POSIX signal for a thread inside tag_receive, up to the point where
\* signal_pending has been tested; it ends an interruptible sleep.
Signal(t) ==
  /\ t \in Interruptible \ signalled
  /\ pc[t] \in {"recv_check", "recv_enter", "recv_wait", "recv_lock",
                "recv_rcu"}
  /\ signalled' = signalled \cup {t}
  /\ asleep' = asleep \ {t}
  /\ UNCHANGED <<pc, ts, local, ret, kernelVars>>
-----------------------------------------------------------------------------
\* tag_ctl.

TagCtl(t) ==
  /\ At(t, "idle")
  /\ \E op \in Program[t] \cap CtlOps, x \in -1 .. MAX_TAG_SERVICES :
       LET args == [NoLocals EXCEPT !.op = op, !.tag = x]
           valid == 0 <= x /\ x <= MAX_TAG_SERVICES
       IN  \/ ~valid /\ Refuse(t, "EINVAL")
           \/ valid /\ Entry(x) = NULL /\ Refuse(t, "EBADF")
           \/ valid /\ Entry(x) # NULL /\ Enter(t, "ctl_addr", args, Entry(x))
  /\ UNCHANGED kernelVars

\* The lock is that of the tag the service holds when it is read here.
CtlAddress(t) ==
  /\ At(t, "ctl_addr")
  /\ pc' = [pc EXCEPT ![t] = "ctl_lock"]
  /\ local' = [local EXCEPT ![t].lock = svc[ts[t]].tag]
  /\ UNCHANGED <<asleep, signalled, ts, ret, kernelVars>>

\* A wrong CtlRefused: no mutex_unlock on the error path.
CtlRefusedLocked(t) ==
  /\ At(t, "ctl_cs")
  /\ svc[ts[t]].lazy_deleted \/ Denied(t)
  /\ Return(t, "EACCES")
  /\ UNCHANGED kernelVars

\* A service that is already deleted counts as success.
CtlRefused(t) ==
  /\ At(t, "ctl_cs")
  /\ svc[ts[t]].lazy_deleted \/ Denied(t)
  /\ Unlock(svc[ts[t]].tag)
  /\ Return(t, IF svc[ts[t]].lazy_deleted THEN "OK" ELSE "EACCES")
  /\ UNCHANGED <<tsm, heap, callbacks>>

\* A wrong CtlAccepted: no test of lazy_deleted.
CtlAcceptedDeleted(t, op) ==
  /\ At(t, "ctl_cs")
  /\ ~Denied(t)
  /\ local[t].op = op

CtlAccepted(t, op) ==
  /\ At(t, "ctl_cs")
  /\ ~svc[ts[t]].lazy_deleted /\ ~Denied(t)
  /\ local[t].op = op

RemoveBusy(t) ==
  /\ CtlAccepted(t, "REMOVE_TAG")
  /\ svc[ts[t]].thread_waiting_message_count > 0
  /\ Unlock(svc[ts[t]].tag)
  /\ Return(t, "EBUSY")
  /\ UNCHANGED <<tsm, heap, callbacks>>

RemoveTest(t) ==
  /\ CtlAccepted(t, "REMOVE_TAG")
  /\ svc[ts[t]].thread_waiting_message_count = 0
  /\ Goto(t, "rm_mark")
  /\ UNCHANGED kernelVars

RemoveMark(t) ==
  /\ At(t, "rm_mark")
  /\ svc' = [svc EXCEPT ![ts[t]].lazy_deleted = TRUE]
  /\ Unlock(svc[ts[t]].tag)
  /\ Goto(t, "rm_null")
  /\ UNCHANGED <<tsm, allocated, level, callbacks>>

\* A wrong RemoveUnlink: the entry is not emptied.
RemoveUnlinkNot(t) ==
  /\ At(t, "rm_null")
  /\ Goto(t, "find_test")
  /\ UNCHANGED kernelVars

\* The device is destroyed and the entry of the argument is emptied.
RemoveUnlink(t) ==
  /\ At(t, "rm_null")
  /\ all_tag_services' = [all_tag_services EXCEPT ![local[t].tag] = NULL]
  /\ Goto(t, "find_test")
  /\ UNCHANGED <<first_free_entry, remaining_entries, access_lock, heap,
                 callbacks>>

RemoveInc(t) ==
  /\ At(t, "rm_inc")
  /\ remaining_entries' = (remaining_entries + 1) % WORD
  /\ Goto(t, "rm_free")
  /\ UNCHANGED <<all_tag_services, first_free_entry, access_lock, heap,
                 callbacks>>

RemoveFree(t) ==
  /\ At(t, "rm_free")
  /\ allocated' = allocated \ {ts[t]}
  /\ Return(t, "OK")
  /\ UNCHANGED <<tsm, access_lock, svc, level, callbacks>>

AwakeCount(t) ==
  /\ CtlAccepted(t, "AWAKE_ALL")
  /\ pc' = [pc EXCEPT ![t] = "aw_set"]
  /\ local' = [local EXCEPT ![t].awakened =
                              svc[ts[t]].thread_waiting_message_count]
  /\ UNCHANGED <<asleep, signalled, ts, ret, kernelVars>>

AwakeSet(t) ==
  /\ At(t, "aw_set")
  /\ svc' = [svc EXCEPT ![ts[t]].awake_request = TRUE]
  /\ Goto(t, "aw_wake")
  /\ UNCHANGED <<tsm, access_lock, allocated, level, callbacks>>

AwakeWake(t) ==
  /\ At(t, "aw_wake")
  /\ WakeUpAll
  /\ pc' = [pc EXCEPT ![t] = IF local[t].awakened > 0 THEN "aw_rcu"
                                                      ELSE "aw_reset"]
  /\ UNCHANGED <<signalled, ts, local, ret, kernelVars>>

\* The mutex stays locked: reset_awake_condition unlocks it.
AwakeRcu(t) ==
  /\ At(t, "aw_rcu")
  /\ CallRcu("reset_awake_condition", ts[t], 0)
  /\ access_lock' = [access_lock EXCEPT ![local[t].lock] = RCU]
  /\ Return(t, "OK")
  /\ UNCHANGED <<tsm, heap>>

AwakeReset(t) ==
  /\ At(t, "aw_reset")
  /\ svc' = [svc EXCEPT ![ts[t]].awake_request = FALSE]
  /\ Unlock(svc[ts[t]].tag)
  /\ Return(t, "OK")
  /\ UNCHANGED <<tsm, allocated, level, callbacks>>

TagCtlStep(t) ==
  CtlAddress(t) \/ CtlRefused(t)
  \/ RemoveBusy(t) \/ RemoveTest(t) \/ RemoveMark(t) \/ RemoveUnlink(t)
  \/ RemoveInc(t) \/ RemoveFree(t)
  \/ AwakeCount(t) \/ AwakeSet(t) \/ AwakeWake(t) \/ AwakeRcu(t)
  \/ AwakeReset(t)

\* A wrong reset_awake_condition: no mutex_unlock.
ResetAwakeLocked(cb) ==
  /\ cb.fn = "reset_awake_condition"
  /\ cb.readers = {}
  /\ callbacks' = callbacks \ {cb}
  /\ svc' = [svc EXCEPT ![cb.block].awake_request = FALSE]
  /\ UNCHANGED <<tsm, access_lock, allocated, level, threadVars>>

\* The callback of AWAKE_ALL, after its grace period.
reset_awake_condition(cb) ==
  /\ cb.fn = "reset_awake_condition"
  /\ cb.readers = {}
  /\ callbacks' = callbacks \ {cb}
  /\ svc' = [svc EXCEPT ![cb.block].awake_request = FALSE]
  /\ Unlock(svc[cb.block].tag)
  /\ UNCHANGED <<tsm, allocated, level, threadVars>>

-----------------------------------------------------------------------------
Call(t) == TagGet(t) \/ TagGetInvalid(t) \/ TagSend(t) \/ TagReceive(t)
           \/ TagCtl(t)

\* What the processor executes on its own once a call has begun, the wait
\* for a mutex excepted.
Step(t) == TagGetStep(t) \/ TagSendStep(t) \/ TagReceiveStep(t)
           \/ TagCtlStep(t) \/ LockOutOfBounds(t)

Callback(cb) == free_after_send(cb) \/ reset_awake_condition(cb)

RunCallback == \E cb \in callbacks : Callback(cb)

Next == \/ \E t \in Threads : Call(t) \/ Step(t) \/ MutexLock(t) \/ Signal(t)
        \/ RunCallback

Spec == Init /\ [][Next]_vars
=============================================================================
