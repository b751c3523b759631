------------------------------ MODULE TagSafety ------------------------------
(***************************************************************************)
(* What the locks, the RCU callbacks and the table of TagService promise.  *)
(***************************************************************************)
EXTENDS TagService

-----------------------------------------------------------------------------
\* Groups of statements.

\* Statements run with a mutex held, by tag_get and tag_send ...
TagCS == {"get_cs", "open_load", "open_check", "send_cs", "send_copy",
          "send_size", "send_ready", "send_test", "send_wake", "send_rcu",
          "send_discard"}
\* ... and by tag_ctl.
CtlCS == {"ctl_cs", "rm_mark", "aw_set", "aw_wake", "aw_rcu", "aw_reset"}

\* Statements of tag_send after the checks, and those with the message READY.
Posting == {"send_copy", "send_size", "send_ready", "send_test", "send_wake",
            "send_rcu", "send_discard"}
Posted  == {"send_test", "send_wake", "send_rcu", "send_discard"}
\* Statements of AWAKE_ALL after the checks, and those with the request set.
Awaking == {"aw_set", "aw_wake", "aw_rcu", "aw_reset"}
Asked   == {"aw_wake", "aw_rcu", "aw_reset"}

\* find_first_entry_available, with no lock held.
Finding == {"find_test", "find_full", "find_scan", "find_ret"}

\* REMOVE_TAG after the unlock: everything, and what follows the emptying of
\* the table entry.
Removing(t) == \/ pc[t] \in {"rm_null", "rm_inc", "rm_free"}
               \/ pc[t] \in Finding /\ local[t].op = "REMOVE_TAG"
Unlinked(t) == Removing(t) /\ pc[t] # "rm_null"

\* Receivers between the increment and the decrement of the counter.
Counted == {"recv_wait", "recv_lock", "recv_rcu", "recv_copy", "recv_rest",
            "recv_unlock", "recv_dec"}

Labels == {"idle", "oops", "get_lock", "send_lock", "ctl_lock", "get_dec",
           "get_dev", "dev_fill", "ctl_addr", "recv_check", "recv_enter",
           "recv_dec_level", "rm_null", "rm_inc", "rm_free"}
          \cup TagCS \cup CtlCS \cup Finding \cup Counted

Codes == {"none", "OK", "EINVAL", "ENOMEM", "EFAULT", "ENOKEY", "EBADR",
          "EACCES", "EBADF", "EMSGSIZE", "EINTR", "EBUSY"}

-----------------------------------------------------------------------------
\* Types.

Locals == [op : Ops \cup {"none"}, key : Keys \cup {IPC_PRIVATE}, tag : Int,
           level : Int, permission : Permissions,
           buffer : Messages \cup {ZERO, TORN}, lock : Tags, i : Tags,
           awakened : Counter]

Services == [tag : Tags, key : Keys \cup {IPC_PRIVATE, -1},
             permission : Permissions,
             owner_euid : Users \cup {NULL}, lazy_deleted : BOOLEAN,
             awake_request : BOOLEAN, thread_waiting_message_count : Counter]

LevelStates == [message_ready : BOOLEAN,
                message : Messages \cup {ZERO, TORN},
                thread_waiting : Counter]

CallbackFns == {"free_after_send", "reset_awake_condition"}
Callbacks == [fn : CallbackFns, block : Blocks, level : Levels,
              readers : SUBSET Threads]

KernelTypeOK ==
  /\ all_tag_services \in [Tags -> Blocks \cup {NULL}]
  /\ first_free_entry \in Tags
  /\ remaining_entries \in Counter
  /\ access_lock \in [Tags -> Threads \cup {FREE, RCU}]
  /\ allocated \subseteq Blocks
  /\ svc \in [Blocks -> Services]
  /\ level \in [Blocks -> [Levels -> LevelStates]]
  /\ callbacks \subseteq Callbacks

ThreadTypeOK ==
  /\ asleep \subseteq Threads
  /\ signalled \subseteq Threads
  /\ pc \in [Threads -> Labels]
  /\ ts \in [Threads -> Blocks \cup {NULL}]
  /\ local \in [Threads -> Locals]
  /\ ret \in [Threads -> Codes]

\* Every variable has its type; in particular a counter never leaves the
\* machine word and the loop index of find_first_entry_available never leaves
\* the table.
TypeOK == KernelTypeOK /\ ThreadTypeOK

-----------------------------------------------------------------------------
\* Mutexes.

InCS(t) == pc[t] \in TagCS \cup CtlCS
Held(t) == IF pc[t] \in CtlCS THEN local[t].lock ELSE local[t].tag
CallbackTag(cb) == svc[cb.block].tag

\* A mutex is locked exactly by the thread inside its critical section or
\* for the one callback that will unlock it: the hand-over from tag_send and
\* AWAKE_ALL to RCU never leaves a tag with two writers, a writer without the
\* mutex, or a mutex nobody will unlock (a lost thread excepted).
LockHandOver ==
  /\ \A t \in Threads : InCS(t) => access_lock[Held(t)] = t
  /\ \A cb \in callbacks : access_lock[CallbackTag(cb)] = RCU
  /\ \A cb, c2 \in callbacks : CallbackTag(cb) = CallbackTag(c2) => cb = c2
  /\ \A x \in Tags :
       \/ access_lock[x] = FREE
       \/ access_lock[x] = RCU /\ \E cb \in callbacks : CallbackTag(cb) = x
       \/ \E t \in Threads : /\ access_lock[x] = t
                             /\ (InCS(t) /\ Held(t) = x) \/ At(t, "oops")

\* tag_get takes the mutex of an entry of access_lock, whatever the search for a
\* free entry returns, in two cases only not: OPEN_TAG with IPC_PRIVATE on a
\* full table locks entry -1, and a negative key may hash to a negative tag.
LockInBounds ==
  \A t \in Threads : WaitsForLock(t) /\ LockIndex(t) \notin Tags =>
    \/ local[t].key < 0 /\ At(t, "get_lock")
    \/ /\ local[t].op = "OPEN_TAG" /\ local[t].key = IPC_PRIVATE
       /\ LockIndex(t) = -1

-----------------------------------------------------------------------------
\* Exchange of messages.

\* A message is READY, or an AWAKE_ALL is pending, only while the call that
\* asked for it or its callback is under way on that very service: nothing a
\* later receiver finds is left over from an exchange that is finished.
ExchangeWindow ==
  \A b \in Blocks :
    /\ \A l \in Levels : level[b][l].message_ready =>
         \/ \E t \in Threads : /\ pc[t] \in Posted
                               /\ ts[t] = b /\ local[t].level = l
         \/ \E cb \in callbacks : /\ cb.fn = "free_after_send"
                                  /\ cb.block = b /\ cb.level = l
    /\ svc[b].awake_request =>
         \/ \E t \in Threads : pc[t] \in Asked /\ ts[t] = b
         \/ \E cb \in callbacks : /\ cb.fn = "reset_awake_condition"
                                  /\ cb.block = b

\* While free_after_send waits for its grace period, neither a sender nor another
\* callback takes the message or its READY flag away.  What a reader gets from
\* it is said in TagRefinement.
ReaderProtected ==
  \A cb \in callbacks : cb.fn = "free_after_send" =>
    /\ level[cb.block][cb.level].message_ready
    /\ level[cb.block][cb.level].message \in Messages

\* thread_waiting_message_count, which decides between EBUSY and removal and
\* between the callback and an immediate reset, counts the receivers.
CountedOn(b) == {t \in Threads : pc[t] \in Counted /\ ts[t] = b}

CountExact ==
  \A b \in Blocks :
    svc[b].thread_waiting_message_count = Cardinality(CountedOn(b)) % WORD

\* Where a block is freed under its receivers and given out again, they count
\* themselves out of a service they never entered, and CountExact is lost.  But
\* that is the only way: no other step of any call, on any path out of
\* tag_receive, brings the counter and the receivers of a block apart.
Miscount(b) ==
  (svc[b].thread_waiting_message_count - Cardinality(CountedOn(b))) % WORD
CountKept ==
  [][\A b \in Blocks :
       b \in allocated \/ b \notin allocated' => Miscount(b)' = Miscount(b)]_vars

\* A posted message is never overwritten: it is replaced only after the flag
\* has been taken back.
MessageStable ==
  [][\A b \in Blocks, l \in Levels :
       level[b][l].message_ready /\ level'[b][l].message_ready
         => level'[b][l].message = level[b][l].message]_vars

-----------------------------------------------------------------------------
\* Life of a service.

\* The table points to allocated services at their own tag, and a service is
\* never lost: it stays in the table until the thread that deletes it has
\* taken it out.
TableIntegrity ==
  /\ \A x \in Tags : all_tag_services[x] # NULL =>
       /\ all_tag_services[x] \in allocated
       /\ svc[all_tag_services[x]].tag = x
  /\ \A b \in allocated :
       \/ all_tag_services[svc[b].tag] = b
       \/ \E t \in Threads : Unlinked(t) /\ ts[t] = b

\* Two threads never delete the same service, so none is freed twice, and
\* nobody frees a service that the table still offers.
RemovalExclusive ==
  /\ \A t, u \in Threads :
       Removing(t) /\ Removing(u) /\ t # u => ts[t] # ts[u]
  /\ \A t \in Threads : Removing(t) => /\ ts[t] \in allocated
                                       /\ svc[ts[t]].lazy_deleted
  /\ \A t \in Threads, x \in Tags : Unlinked(t) => all_tag_services[x] # ts[t]

\* The table offers the service, and nobody has begun to delete it.
Live(b) == /\ b \in allocated
           /\ ~svc[b].lazy_deleted
           /\ all_tag_services[svc[b].tag] = b

\* After the lazy_deleted test, under the lock and until the callback has run,
\* the service an exchange works on is not deleted, unlinked or freed.
DeferredWorkOnLiveService ==
  /\ \A t \in Threads : pc[t] \in Posting \cup Awaking => Live(ts[t])
  /\ \A cb \in callbacks : Live(cb.block)

\* remaining_entries is the number of empty entries, but for the creations
\* and deletions that have changed the table and not yet the counter.
RemainingExact ==
  remaining_entries =
    ( Cardinality({x \in Tags : all_tag_services[x] = NULL})
      + Cardinality({t \in Threads : pc[t] = "get_dec"})
      - Cardinality({t \in Threads : Unlinked(t) /\ pc[t] # "rm_free"})
    ) % WORD

\* The permission of the service as it is now, not as it was before the lock
\* was taken, covers the user who posts, deletes or awakes: even if the
\* service was deleted and created again, in the same memory, while the
\* caller waited for the lock.
PermissionUnderLock ==
  \A t \in Threads :
    pc[t] \in Posting \cup Awaking \cup {"rm_mark"} => ~Denied(t)
=============================================================================
