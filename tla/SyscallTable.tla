---------------------------- MODULE SyscallTable ----------------------------
(***************************************************************************)
(* src/lib/usctm.c: the search for the table of the system calls, by the   *)
(* pattern of entries that point to sys_ni_syscall, and the entries of the *)
(* table that are free.  Addresses are words; the range that is searched   *)
(* starts at word 0.  Pages and the indices of the pattern are scaled      *)
(* down, in the same order.                                                *)
(***************************************************************************)
EXTENDS PageWalk, Sequences, FiniteSets, FiniteSetsExt, SequencesExt

CONSTANTS
  PAGE_SIZE,             \* in words
  NiSyscalls,            \* FIRST_NI_SYSCALL .. SEVENTH_NI_SYSCALL, ascending
  ENTRIES_TO_EXPLORE,
  MAX_FREE,
  NI,                    \* the address of sys_ni_syscall
  Functions,             \* other addresses of kernel functions
  JUNK                   \* a value that is null, unaligned or not the kernel's

ASSUME SyscallTableAssumption ==
  /\ PAGE_SIZE \in Nat \ {0}
  /\ NiSyscalls \in Seq(Nat \ {0}) /\ Len(NiSyscalls) > 1
  /\ \A i, j \in DOMAIN NiSyscalls : i < j => NiSyscalls[i] < NiSyscalls[j]
  /\ Last(NiSyscalls) < ENTRIES_TO_EXPLORE /\ ENTRIES_TO_EXPLORE <= PAGE_SIZE
  /\ ENTRIES_TO_EXPLORE \in Nat /\ MAX_FREE \in Nat
  /\ NI # JUNK /\ {NI, JUNK} \cap Functions = {}

FIRST_NI_SYSCALL  == NiSyscalls[1]
SECOND_NI_SYSCALL == NiSyscalls[2]

Word      == Functions \cup {NI, JUNK}
Addresses == {a \in 0 .. (Cardinality(Pages) * PAGE_SIZE) - 1 :
                a \div PAGE_SIZE \in Pages}
PageOf(a) == a \div PAGE_SIZE

-----------------------------------------------------------------------------
\* The test of one address: entries that must be equal are read from left to
\* right, and the first that differs ends the test.
Value(m, a) == IF a \in DOMAIN m THEN m[a] ELSE JUNK

\* The entries of the pattern that are read at address a.
ReadAt(m, a) ==
  {i \in DOMAIN NiSyscalls :
     /\ i > 1 => Value(m, a + FIRST_NI_SYSCALL) # JUNK
     /\ \A j \in 2 .. i - 1 :
          Value(m, a + NiSyscalls[j]) = Value(m, a + FIRST_NI_SYSCALL)}

good_area(m, a) == \A i \in 1 .. FIRST_NI_SYSCALL - 1 :
                     Value(m, a + i) # Value(m, a + FIRST_NI_SYSCALL)

Matches(m, a) ==
  /\ Value(m, a + FIRST_NI_SYSCALL) # JUNK
  /\ \A i \in DOMAIN NiSyscalls :
       Value(m, a + NiSyscalls[i]) = Value(m, a + FIRST_NI_SYSCALL)
  /\ good_area(m, a)

\* One of these reads is in a page without a frame.
Faults(w, m, a) ==
  \E i \in ReadAt(m, a) : ~HasFrame(w, PageOf(a + NiSyscalls[i]))

\* validate_page stops where the second entry is in the next page and that page
\* has no frame.
Stops(w, a) ==
  /\ PageOf(a + SECOND_NI_SYSCALL) = PageOf(a) + 1
  /\ vtpmo(w, PageOf(a) + 1) = NO_MAP

\* The loops of syscall_table_finder and validate_page: the first address, in
\* a page that has a frame and before the place where the page is given up, at
\* which there is a fault or a match.
Candidates(w) ==
  {a \in Addresses :
     /\ vtpmo(w, PageOf(a)) # NO_MAP
     /\ \A b \in (PageOf(a) * PAGE_SIZE) .. a : ~Stops(w, b)}
Hits(w, m) == {a \in Candidates(w) : Faults(w, m, a) \/ Matches(m, a)}

\* The outcome: an address, or none.
NOT_FOUND == -1
FAULT     == -2
syscall_table_finder(w, m) ==
  IF Hits(w, m) = {} THEN NOT_FOUND
  ELSE LET a == Min(Hits(w, m)) IN IF Faults(w, m, a) THEN FAULT ELSE a

\* The entries equal to that of FIRST_NI_SYSCALL, and the j-th of them.
Free(m, tbl) == {i \in 0 .. ENTRIES_TO_EXPLORE - 1 :
                   Value(m, tbl + i) = Value(m, tbl + FIRST_NI_SYSCALL)}
Nth(S, j)    == CHOOSE i \in S : Cardinality({e \in S : e < i}) = j - 1

\* Wrong version: the array is not bounded.
FreeEntriesUnbounded(m, tbl) ==
  [j \in 1 .. Cardinality(Free(m, tbl)) |-> Nth(Free(m, tbl), j)]
\* Wrong version: j is not incremented.
FreeEntriesOverwritten(m, tbl) ==
  [j \in 1 .. 1 |-> Nth(Free(m, tbl), Min({MAX_FREE, Cardinality(Free(m, tbl))}))]
FreeEntries(m, tbl) ==
  [j \in 1 .. Min({MAX_FREE, Cardinality(Free(m, tbl))}) |->
     Nth(Free(m, tbl), j)]

\* The entries are read in ascending order until the array is full, in pages
\* that nobody has asked for.
Scanned(m, tbl) ==
  {i \in 0 .. ENTRIES_TO_EXPLORE - 1 :
     Cardinality({e \in Free(m, tbl) : e < i}) < MAX_FREE}
ScanFaults(w, m, tbl) ==
  \E i \in Scanned(m, tbl) : ~HasFrame(w, PageOf(tbl + i))

-----------------------------------------------------------------------------
\* Every table that could be meant: the words of the pattern are in pages that
\* have a frame.
Tables(w, m) ==
  {a \in Addresses :
     /\ HasFrame(w, PageOf(a)) /\ HasFrame(w, PageOf(a + Last(NiSyscalls)))
     /\ Matches(m, a)}

\* Where the search may run into a page without a frame: the second entry of
\* the pattern is still in the page that was asked for, the last one is not.
Overhang(w, a) ==
  /\ HasFrame(w, PageOf(a)) /\ PageOf(a + SECOND_NI_SYSCALL) = PageOf(a)
  /\ ~HasFrame(w, PageOf(a + Last(NiSyscalls)))

\* Where the scan of the entries may: the first entries of the table do not
\* fill the array, and the others are in a page without a frame.
ShortOfEntries(w, m, a) ==
  /\ ~HasFrame(w, PageOf(a + ENTRIES_TO_EXPLORE - 1))
  /\ Cardinality({i \in Free(m, a) : HasFrame(w, PageOf(a + i))}) < MAX_FREE
=============================================================================
