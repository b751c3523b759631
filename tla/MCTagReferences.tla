--------------------------- MODULE MCTagReferences --------------------------
(* Instance of TagReferences for TLC: two users who may call everything. *)
EXTENDS TagReferences, TLC
CONSTANTS t1, t2

Everything    == [t \in Threads |-> Ops]
TwoUsers      == (t1 :> "u1") @@ (t2 :> "u2")
BlockSymmetry == Permutations(Blocks)

\* What later steps depend on: the results of finished calls, the key of a
\* service and the bytes of a block that nobody points to are left out.
InUse(b) == \/ b \in allocated
            \/ \E t \in Threads : ts[t] = b
            \/ \E cb \in callbacks : cb.block = b
Relevant ==
  <<tsm, access_lock, allocated, callbacks, asleep, signalled, pc, ts, local,
    [t \in Threads |-> IF pc[t] = "idle" THEN "none" ELSE ret[t]],
    [b \in Blocks |-> IF InUse(b)
                      THEN <<[svc[b] EXCEPT !.key = IPC_PRIVATE], level[b]>>
                      ELSE <<>>],
    refcnt, leaked>>
=============================================================================
