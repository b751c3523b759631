------------------------------ MODULE TagState ------------------------------
(***************************************************************************)
(* State of the TAG-based message exchange (src/tag_service.c and .h): the *)
(* table of tag services, one mutex per tag, the heap blocks that hold the *)
(* services, the RCU callbacks that are still waiting for their grace      *)
(* period, and the kernel threads that are inside one of the four system   *)
(* calls.  The operators below are the C helpers and the kernel primitives *)
(* the system calls are written with.                                      *)
(***************************************************************************)
EXTENDS Integers, FiniteSets

CONSTANTS
  MAX_TAG_SERVICES,  \* entries of the table (512 in commands.h)
  MAX_LEVELS,        \* levels of a tag (32 in commands.h)
  Threads,           \* the threads that issue system calls
  Program,           \* Program[t]: the operations that thread t may issue
  EUID,              \* EUID[t]: effective user of thread t
  Interruptible,     \* threads that may receive a POSIX signal
  Keys,              \* keys passed to tag_get
  Messages,          \* payloads passed to tag_send
  LongMessages,      \* the payloads that exceed MAX_MESSAGE_SIZE - 1
  ZERO,              \* a zeroed message buffer
  TORN,              \* bytes of one message and bytes of another, or of none
  Blocks,            \* heap blocks that can hold a struct my_tag_service
  NULL,              \* the null pointer
  Recycle,           \* may kzalloc return a block some thread still points to?
  WORD               \* atomic counters wrap modulo WORD (2^32 in the code)

IPC_PRIVATE == 0
Tags     == 0 .. MAX_TAG_SERVICES - 1
Levels   == 0 .. MAX_LEVELS - 1
Counter  == 0 .. WORD - 1
GetOps   == {"CREATE_TAG", "OPEN_TAG"}
CtlOps   == {"REMOVE_TAG", "AWAKE_ALL"}
Ops      == GetOps \cup CtlOps \cup {"send", "receive"}
Permissions == {"EVERYONE", "ONLY_OWNER"}
Users    == {EUID[t] : t \in Threads}

\* Owners of a mutex besides the threads.
FREE == "free"      \* nobody holds it
RCU  == "rcu"       \* handed over to an RCU callback, which will unlock it

ASSUME SizeAssumption ==
  /\ MAX_TAG_SERVICES \in Nat \ {0}
  /\ MAX_LEVELS \in Nat \ {0}
  /\ WORD \in Nat \ {0, 1}
  /\ MAX_TAG_SERVICES < WORD
ASSUME DataAssumption ==
  /\ Keys \subseteq Int
  /\ LongMessages \subseteq Messages
  /\ TORN \notin Messages
  /\ NULL \notin Blocks
  /\ Recycle \in BOOLEAN
ASSUME ThreadAssumption ==
  /\ FREE \notin Threads
  /\ RCU \notin Threads
  /\ Program \in [Threads -> SUBSET Ops]
  /\ Interruptible \subseteq Threads

VARIABLES
  \* struct my_ts_management
  all_tag_services, first_free_entry, remaining_entries, access_lock,
  \* the heap: blocks in use, and the bytes of every block (a freed block
  \* keeps its bytes until kzalloc hands it out again)
  allocated, svc, level,
  callbacks,         \* RCU callbacks queued by call_rcu and not yet run
  asleep,            \* threads sleeping on the_queue
  signalled,         \* threads with a pending signal
  \* per thread: program counter, the local variable ts, the other locals
  \* and arguments, the result of the last system call
  pc, ts, local, ret

tsm        == <<all_tag_services, first_free_entry, remaining_entries>>
heap       == <<allocated, svc, level>>
kernelVars == <<tsm, access_lock, heap, callbacks>>
threadVars == <<asleep, signalled, pc, ts, local, ret>>
vars       == <<kernelVars, threadVars>>

-----------------------------------------------------------------------------
\* The locals of a thread that is not inside a system call.
NoLocals == [op |-> "none", key |-> IPC_PRIVATE, tag |-> 0, level |-> 0,
             permission |-> "EVERYONE", buffer |-> ZERO, lock |-> 0,
             i |-> 0, awakened |-> 0]

NoService == [tag |-> 0, key |-> IPC_PRIVATE, permission |-> "EVERYONE",
              owner_euid |-> NULL, lazy_deleted |-> FALSE,
              awake_request |-> FALSE, thread_waiting_message_count |-> 0]

NoLevel == [message_ready |-> FALSE, message |-> ZERO, thread_waiting |-> 0]

Init ==
  /\ all_tag_services = [x \in Tags |-> NULL]
  /\ first_free_entry = 0
  /\ remaining_entries = MAX_TAG_SERVICES
  /\ access_lock = [x \in Tags |-> FREE]
  /\ allocated = {}
  /\ svc = [b \in Blocks |-> NoService]
  /\ level = [b \in Blocks |-> [l \in Levels |-> NoLevel]]
  /\ callbacks = {}
  /\ asleep = {}
  /\ signalled = {}
  /\ pc = [t \in Threads |-> "idle"]
  /\ ts = [t \in Threads |-> NULL]
  /\ local = [t \in Threads |-> NoLocals]
  /\ ret = [t \in Threads |-> "none"]

-----------------------------------------------------------------------------
\* The helpers of tag_service.c.

is_entry_available(x) == all_tag_services[x] = NULL

no_more_tag_service == remaining_entries = 0

\* C's % truncates towards zero: a negative key gives a tag that is not
\* positive.
hash_function(key) == IF key >= 0 THEN key % MAX_TAG_SERVICES
                                  ELSE -((-key) % MAX_TAG_SERVICES)

\* The caller is neither the owner nor covered by the permission.
Denied(t) == /\ svc[ts[t]].owner_euid # EUID[t]
             /\ svc[ts[t]].permission = "ONLY_OWNER"

\* The condition of wait_event_interruptible in tag_receive.
Awaited(t) == \/ level[ts[t]][local[t].level].message_ready
              \/ svc[ts[t]].awake_request

-----------------------------------------------------------------------------
\* Kernel primitives.

\* mutex_unlock does not look at who locked it.
Unlock(x) == access_lock' = [access_lock EXCEPT ![x] = FREE]

\* wake_up_all(&the_queue): one queue for every tag and level.
WakeUpAll == asleep' = {}

\* Threads between rcu_read_lock and rcu_read_unlock.
ReadSection == {"recv_rcu", "recv_copy", "recv_rest", "recv_unlock"}
Readers == {t \in Threads : pc[t] \in ReadSection}

\* call_rcu: the callback runs once every reader of this moment has left.
CallRcu(f, b, l) ==
  callbacks' = callbacks \cup {[fn |-> f, block |-> b, level |-> l,
                                readers |-> Readers]}

\* rcu_read_unlock: no pending callback waits for t any longer.
ReadUnlock(t) ==
  callbacks' = {[cb EXCEPT !.readers = @ \ {t}] : cb \in callbacks}

\* Blocks kzalloc may return.  A block with a queued callback is never
\* returned; one a thread still points to only when Recycle says so.
FreshBlocks == {b \in Blocks \ allocated :
                  /\ \A cb \in callbacks : cb.block # b
                  /\ Recycle \/ \A t \in Threads : ts[t] # b}

-----------------------------------------------------------------------------
\* Steps of a thread.

At(t, label) == pc[t] = label

\* Go to another statement of the same system call.
Goto(t, label) == /\ pc' = [pc EXCEPT ![t] = label]
                  /\ UNCHANGED <<asleep, signalled, ts, local, ret>>

\* Enter a system call, with its arguments and the service it found.
Enter(t, label, args, b) ==
  /\ pc' = [pc EXCEPT ![t] = label]
  /\ local' = [local EXCEPT ![t] = args]
  /\ ts' = [ts EXCEPT ![t] = b]
  /\ ret' = [ret EXCEPT ![t] = "none"]
  /\ UNCHANGED <<asleep, signalled>>

\* Refuse a system call before it has touched shared state.
Refuse(t, code) ==
  /\ ret' = [ret EXCEPT ![t] = code]
  /\ UNCHANGED <<asleep, signalled, pc, ts, local>>

\* Leave the system call; the signal is handled on the way to user mode.
Return(t, code) ==
  /\ pc' = [pc EXCEPT ![t] = "idle"]
  /\ ts' = [ts EXCEPT ![t] = NULL]
  /\ local' = [local EXCEPT ![t] = NoLocals]
  /\ ret' = [ret EXCEPT ![t] = code]
  /\ signalled' = signalled \ {t}
  /\ UNCHANGED asleep

\* A null dereference or an access outside an array: the thread is lost and
\* keeps the mutexes it holds.
Oops(t) == Goto(t, "oops")

=============================================================================
