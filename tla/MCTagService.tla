---------------------------- MODULE MCTagService ----------------------------
(* Instances of TagService for TLC: who may call what in each run. *)
EXTENDS TagClaims, TLC
CONSTANTS t1, t2, t3

OneUser  == [t \in Threads |-> "u1"]
\* t2 belongs to another user.
TwoUsers == [t \in Threads |-> IF t = t2 THEN "u2" ELSE "u1"]

\* Blocks are interchangeable, and so are messages of the same length.
BlockSymmetry == Permutations(Blocks)

\* Two states are alike if they differ only in the results of finished calls,
\* in the bytes of blocks that are neither allocated nor pointed to, in the
\* key of a service or, with a single user, in permissions: no later step
\* depends on any of these (kzalloc and tag_get write every byte of a block
\* again).
InUse(b) == \/ b \in allocated
            \/ \E t \in Threads : ts[t] = b
            \/ \E cb \in callbacks : cb.block = b
Blur(r)  == IF Cardinality(Users) = 1
            THEN [r EXCEPT !.permission = "EVERYONE"] ELSE r
BlurKey(r) == [r EXCEPT !.key = IPC_PRIVATE]
Relevant ==
  <<tsm, access_lock, allocated, callbacks, asleep, signalled, pc, ts,
    [t \in Threads |-> Blur(local[t])],
    [t \in Threads |-> IF pc[t] = "idle" THEN "none" ELSE ret[t]],
    [b \in Blocks |-> IF InUse(b) THEN <<Blur(BlurKey(svc[b])), level[b]>>
                               ELSE <<>>]>>

\* A sender, a receiver, and a thread that receives, sends and awakes.
ExchangeProgram  == (t1 :> {"CREATE_TAG", "send"}) @@ (t2 :> {"receive"})
                    @@ (t3 :> {"receive", "send", "AWAKE_ALL"})
\* Everything that creates or deletes, against every user of a service.
LifecycleProgram == (t1 :> {"CREATE_TAG", "REMOVE_TAG", "receive"})
                    @@ (t2 :> {"send", "AWAKE_ALL", "REMOVE_TAG"})
                    @@ (t3 :> {"OPEN_TAG", "receive", "CREATE_TAG"})
TableProgram     == (t1 :> {"CREATE_TAG", "REMOVE_TAG"})
                    @@ (t2 :> {"CREATE_TAG", "REMOVE_TAG"})
                    @@ (t3 :> {"OPEN_TAG"})
\* Steps towards progress: no deletion, no lost thread.
LiveProgram      == (t1 :> {"CREATE_TAG", "send"}) @@ (t2 :> {"receive"})
                    @@ (t3 :> {"send", "AWAKE_ALL"})
\* Keys for every branch of tag_get: -1 % 2 is -1 in C.
SignedKeys       == {-1, IPC_PRIVATE, 1}
\* The smallest casts for the claims of the documentation.
DeliveryProgram  == (t1 :> {"CREATE_TAG", "send"}) @@ (t2 :> {"receive"})
                    @@ (t3 :> {"receive"})
RemoveProgram    == (t1 :> {"CREATE_TAG", "REMOVE_TAG"})
                    @@ (t2 :> {"receive"}) @@ (t3 :> {"OPEN_TAG"})
=============================================================================
