---------------------------- MODULE MCTagModule -----------------------------
(* The instance of TagModule for TLC. *)
EXTENDS TagModule
CONSTANTS f, get, send, receive, ctl

TheCalls == <<get, send, receive, ctl>>
Pattern  == <<2, 3, 4, 5>>

\* Memory full of f, with the table at word a, of which the entry after the
\* pattern is free too; and the words D, in front of the table or in it,
\* hold v.
Memory(a, D, v) ==
  [x \in Addresses |-> IF x \in D THEN v
                       ELSE IF x - a \in Range(Pattern) \cup {6} THEN NI
                       ELSE f]

\* The pattern ends with page 1, and the entry after it is in page 2; or it
\* begins with page 2.  Up to four words before repeat the pattern, spoil it or
\* hold junk.
Memories == {Memory(a, D, v) : a \in {8, 12}, v \in {NI, JUNK},
                               D \in UNION {kSubset(i, 0 .. 11) : i \in 0 .. 4}}

\* Pages 0 and 1 share a directory entry, and then maybe a large page; page 2
\* has the next one, and nothing is behind it.
Pair(x, y)  == [i \in Indices |-> IF i = 0 THEN x ELSE y]
None        == Pair(INVALID, INVALID)
Walk(top, middle, dirs, p01, p2) ==
  [pml4 |-> top,
   pdp  |-> Pair(middle, INVALID),
   pde  |-> Pair(dirs, None),
   pte  |-> Pair(Pair(p01, Pair(p2, INVALID)), Pair(None, None))]
Bit   == {INVALID, VALID}
Plain == Walk(VALID, VALID, Pair(VALID, VALID), Pair(VALID, VALID), VALID)
Walks ==
  {Walk(INVALID, VALID, None, None, INVALID),
   Walk(VALID, INVALID, None, None, INVALID)}
  \cup {Walk(VALID, VALID, Pair(c, d), None, p2) :
          c \in {INVALID, LARGE}, d \in Bit, p2 \in Bit}
  \cup {Walk(VALID, VALID, Pair(VALID, d), Pair(p0, p1), p2) :
          d \in Bit, p0 \in Bit, p1 \in Bit, p2 \in Bit}

SmallWorld == Walks \X Memories

\* Everything is explored on one machine, the search alone on the others.
Explored ==
  \/ step \in {"none", "find", "alloc", "oops"} /\ FOREIGN \notin Range(memory)
  \/ walk = Plain /\ \A x \in 0 .. 11 : memory[x] = f
=============================================================================
