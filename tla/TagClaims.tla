------------------------------ MODULE TagClaims ------------------------------
(***************************************************************************)
(* Progress of the system calls, and what the README and the comments of   *)
(* the repository claim about them.                                        *)
(***************************************************************************)
EXTENDS TagRefinement

-----------------------------------------------------------------------------
\* Fairness.  The scheduler runs every thread that can run (WF of its steps);
\* a kernel mutex queues its waiters and hands itself over to a starving one
\* (SF of MutexLock); once the readers it waits for have left, a callback is
\* run (WF, per tag).  New calls and signals are up to user space: no fairness.
CallbackOf(x) == \E cb \in callbacks : CallbackTag(cb) = x /\ Callback(cb)

Fairness ==
  /\ \A t \in Threads : WF_vars(Step(t)) /\ SF_vars(MutexLock(t))
  /\ \A x \in Tags : WF_vars(CallbackOf(x))

LiveSpec == Spec /\ Fairness

-----------------------------------------------------------------------------
\* Progress.

\* A thread in tag_receive that gets a signal leaves the call, whatever the
\* senders of its level and the callbacks do in the meantime.
SignalledReceiverReturns ==
  \A t \in Threads : t \in signalled ~> At(t, "idle")

\* Every tag_send ends: it never waits for its own receivers, and whoever has
\* the mutex, thread or callback, gives it back.
SendReturns ==
  \A t \in Threads : local[t].op = "send" ~> At(t, "idle")

\* The same for tag_ctl, which waits for the same mutex.
CtlReturns ==
  \A t \in Threads : local[t].op \in CtlOps ~> At(t, "idle")

\* Exchanges do not stay open: the next sender finds the mutex free again.
LockReleased ==
  \A x \in Tags : access_lock[x] # FREE ~> access_lock[x] = FREE

-----------------------------------------------------------------------------
\* Claims of the documentation.

\* A receiver asleep on (tag, level) when a sender on (tag, level) wakes the
\* queue does not go on waiting for ever.
WokenBySend(t) ==
  /\ t \in asleep
  /\ \E u \in Threads : /\ At(u, "send_wake")
                        /\ ts[u] = ts[t] /\ local[u].level = local[t].level
SendReachesWaiters ==
  \A t \in Threads : WokenBySend(t) ~> ~At(t, "recv_wait")

\* A receiver that has been counted keeps its service: REMOVE_TAG fails.
CountedServiceKept ==
  \A t \in Threads : pc[t] \in Counted =>
    ts[t] \in allocated /\ ~svc[ts[t]].lazy_deleted

\* OPEN_TAG, which holds the mutex of the tag, finds the service it has seen.
OpenKeepsService ==
  \A t \in Threads : At(t, "open_check") => ts[t] # NULL
=============================================================================
