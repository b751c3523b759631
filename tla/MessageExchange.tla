-------------------------- MODULE MessageExchange ---------------------------
(***************************************************************************)
(* What a tag service promises to its senders and receivers, without the   *)
(* mutexes, the flags, the grace periods and the table that bring it about *)
(* (TagRefinement shows that TagService implements it):                    *)
(*   - one exchange, awakening or removal at a time per service;           *)
(*   - a receiver that comes to read while a message is posted and its      *)
(*     sender is not done yet gets exactly that message, or nothing if a    *)
(*     signal came, and the message stays until it has left - unless the    *)
(*     sender discards the message at once;                                 *)
(*   - a receiver that was reading before, or comes later, has no such      *)
(*     promise: it may get nothing, an older message, or parts of two.      *)
(***************************************************************************)
CONSTANTS
  Services, Levels, Receivers, Messages,
  Interruptible,   \* the receivers that a signal may reach
  BLANK,           \* a buffer without a message
  TORN,            \* a buffer with parts of two
  NONE             \* no message, no place, no result

VARIABLES
  stage,           \* per service: what it is being used for
  post,            \* per service: level and message of the exchange
  due,             \* per service: the receivers the message is promised to
  reading,         \* per receiver: the service and level it is reading
  got              \* per receiver: what it is about to return to its caller

vars == <<stage, post, due, reading, got>>

Results == Messages \cup {BLANK, TORN}

Init ==
  /\ stage = [s \in Services |-> "absent"]
  /\ post = [s \in Services |-> NONE]
  /\ due = [s \in Services |-> {}]
  /\ reading = [r \in Receivers |-> NONE]
  /\ got = [r \in Receivers |-> NONE]

-----------------------------------------------------------------------------
\* The service.

Becomes(s, from, to) == stage[s] = from /\ stage' = [stage EXCEPT ![s] = to]

Turn(s, from, to) ==
  Becomes(s, from, to) /\ UNCHANGED <<post, due, reading, got>>

Create(s) == Turn(s, "absent", "idle")
Remove(s) == Turn(s, "idle", "removed")
Free(s)   == Turn(s, "removed", "absent")
Ask(s)    == Turn(s, "idle", "asked")
Reset(s)  == Turn(s, "asked", "idle")

\* Those who are already reading may still get the message, or part of it.
Post(s, l, m) ==
  /\ Becomes(s, "idle", "posted")
  /\ post' = [post EXCEPT ![s] = <<l, m>>]
  /\ \E R \in SUBSET {r \in Receivers : reading[r] = <<s, l>>} :
       due' = [due EXCEPT ![s] = R]
  /\ UNCHANGED <<reading, got>>

\* The sender is done: nobody joins those the message is kept for.
Seal(s) == Turn(s, "posted", "sealed")

Close(s, from) ==
  /\ Becomes(s, from, "idle")
  /\ post' = [post EXCEPT ![s] = NONE]
  /\ due' = [due EXCEPT ![s] = {}]
  /\ UNCHANGED <<reading, got>>

\* Nobody was waiting: the sender takes the message back.
Discard(s) == Close(s, "posted")

\* All who were promised the message have left.
Withdraw(s) == due[s] = {} /\ Close(s, "sealed")

-----------------------------------------------------------------------------
\* The receivers.

Open(s, l) == stage[s] = "posted" /\ post[s][1] = l

Arrive(r, s, l) ==
  /\ reading[r] = NONE /\ got[r] = NONE
  /\ reading' = [reading EXCEPT ![r] = <<s, l>>]
  /\ due' = IF Open(s, l) THEN [due EXCEPT ![s] = @ \cup {r}] ELSE due
  /\ UNCHANGED <<stage, post, got>>

\* What r may get on service s: the message if it is due, and else whatever its
\* buffer holds; in both cases the result "none" as well, which in the first
\* takes a signal.
Offer(r, s) ==
  IF r \in due[s]
  THEN {post[s][2]} \cup (IF r \in Interruptible THEN {"none"} ELSE {})
  ELSE Results \cup {"none"}

Leave(r) ==
  /\ reading[r] # NONE
  /\ \E v \in Offer(r, reading[r][1]) : got' = [got EXCEPT ![r] = v]
  /\ reading' = [reading EXCEPT ![r] = NONE]
  /\ due' = [s \in Services |-> due[s] \ {r}]
  /\ UNCHANGED <<stage, post>>

Return(r) ==
  /\ got[r] # NONE
  /\ got' = [got EXCEPT ![r] = NONE]
  /\ UNCHANGED <<stage, post, due, reading>>

Next ==
  \/ \E s \in Services : \/ Create(s) \/ Remove(s) \/ Free(s) \/ Ask(s)
                         \/ Reset(s) \/ Seal(s) \/ Discard(s) \/ Withdraw(s)
                         \/ \E l \in Levels, m \in Messages : Post(s, l, m)
  \/ \E r \in Receivers : \/ Leave(r) \/ Return(r)
                          \/ \E s \in Services, l \in Levels : Arrive(r, s, l)

Spec == Init /\ [][Next]_vars
=============================================================================
