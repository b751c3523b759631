--------------------------- MODULE TagRefinement ----------------------------
(***************************************************************************)
(* TagService implements MessageExchange.                                  *)
(***************************************************************************)
EXTENDS TagSafety

Ready(b) == {l \in Levels : level[b][l].message_ready}

\* The callback that will withdraw the message of b, if its sender is done.
SealOf(b) == {cb \in callbacks : cb.fn = "free_after_send" /\ cb.block = b}

\* The flags of the service tell what it is being used for.
StageOf(b) ==
  IF b \notin allocated THEN "absent"
  ELSE IF svc[b].lazy_deleted THEN "removed"
  ELSE IF Ready(b) # {} THEN IF SealOf(b) = {} THEN "posted" ELSE "sealed"
  ELSE IF svc[b].awake_request THEN "asked" ELSE "idle"

PostOf(b) == IF Ready(b) = {} THEN NULL
             ELSE LET l == CHOOSE l \in Ready(b) : TRUE
                  IN <<l, level[b][l].message>>

\* What t has read or will read while it is in its section: the message of its
\* level, whole, or nothing for a signal.  Only a thread that came to read
\* before the message was posted has read something else.
WillGet(t) ==
  LET message == level[ts[t]][local[t].level].message
  IN  \/ pc[t] \in {"recv_rcu", "recv_copy"}
      \/ At(t, "recv_rest") /\ local[t].buffer = message
      \/ At(t, "recv_unlock") /\ ret[t] = "OK" /\ local[t].buffer = message
      \/ At(t, "recv_unlock") /\ ret[t] = "EINTR" /\ t \in signalled

\* The readers of the posted level that will get its message: those of them that
\* free_after_send waits for, once the sender has called call_rcu.
DueOf(b) ==
  {t \in Readers :
     /\ ts[t] = b /\ local[t].level \in Ready(b)
     /\ \A cb \in SealOf(b) : t \in cb.readers
     /\ WillGet(t)}

ReadingOf(t) == IF t \in Readers THEN <<ts[t], local[t].level>> ELSE NULL

GotOf(t) == IF pc[t] \notin {"recv_dec", "recv_dec_level"} THEN NULL
            ELSE IF ret[t] = "OK" THEN local[t].buffer ELSE "none"

\* The null pointer, which stands for "no message", "no place" and "no result",
\* is none of these.
ASSUME NullAssumption ==
  /\ NULL \notin Messages \cup {ZERO, TORN, "none"}
  /\ \A b \in Blocks, l \in Levels : NULL # <<b, l>>

Exchange ==
  INSTANCE MessageExchange
    WITH Services <- Blocks, Receivers <- Threads,
         BLANK <- ZERO, NONE <- NULL,
         stage <- [b \in Blocks |-> StageOf(b)],
         post <- [b \in Blocks |-> PostOf(b)],
         due <- [b \in Blocks |-> DueOf(b)],
         reading <- [t \in Threads |-> ReadingOf(t)],
         got <- [t \in Threads |-> GotOf(t)]

\* tag_send, tag_receive, tag_ctl and the two callbacks implement the exchange:
\* no message, awakening or removal overlaps another on the same service, and
\* a receiver that enters its read section after the READY flag is set and
\* before call_rcu leaves with exactly that sender's message, whole, unless a
\* signal has come.  A reader that is left over from an earlier exchange is
\* there too, and gets no such promise.
ImplementsExchange == Exchange!Spec
=============================================================================
