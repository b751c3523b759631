---------------------------- MODULE TagModuleProofs ----------------------------
(***************************************************************************)
(* Proofs about the module: the search for the table of the system calls   *)
(* returns the first table that can be read or faults in one of two places,*)
(* and start and end leave no entry of theirs behind.  They hold for any   *)
(* page size, page tables, pattern and memory that ModuleAssumption and    *)
(* SyscallTableAssumption allow.                                           *)
(***************************************************************************)
EXTENDS TagModule, FiniteSetTheorems, SequenceTheorems, TLAPS

-----------------------------------------------------------------------------
\* The least number principle, without induction: 0 .. y is a proper subset
\* of 0 .. x if y < x, and that order on finite sets is well-founded.
LEMMA Least ==
  ASSUME NEW S \in SUBSET Nat, S # {}
  PROVE  \E x \in S : \A y \in S : x <= y
  <1> DEFINE Below == {0 .. x : x \in S}
  <1>1. Below \subseteq FiniteSubsetsOf(Nat)
    <2>1. \A x \in S : IsFiniteSet(0 .. x) /\ 0 .. x \in SUBSET Nat
      BY FS_Interval
    <2> QED
      BY <2>1 DEF FiniteSubsetsOf
  <1>2. Below # {}
    OBVIOUS
  <1>3. IsWellFoundedOn(StrictSubsetOrdering(Nat), FiniteSubsetsOf(Nat))
    BY FS_StrictSubsetOrderingWellFounded
  <1> HIDE DEF Below
  <1>4. \E U \in Below : \A V \in Below :
          <<V, U>> \notin StrictSubsetOrdering(Nat)
    BY <1>1, <1>2, <1>3, WFMin
  <1>5. PICK x \in S : \A y \in S :
          <<0 .. y, 0 .. x>> \notin StrictSubsetOrdering(Nat)
    BY <1>4 DEF Below
  <1>6. ASSUME NEW y \in S, y < x PROVE FALSE
    <2>1. 0 .. y \subseteq 0 .. x /\ 0 .. y # 0 .. x
      BY <1>6
    <2>2. 0 .. y \in SUBSET Nat /\ 0 .. x \in SUBSET Nat
      OBVIOUS
    <2> QED
      BY <1>5, <2>1, <2>2 DEF StrictSubsetOrdering
  <1> QED
    BY <1>6

LEMMA MinOf ==
  ASSUME NEW S \in SUBSET Nat, S # {}
  PROVE  Min(S) \in S /\ \A y \in S : Min(S) <= y
  BY Least DEF Min

-----------------------------------------------------------------------------
\* Pages.

LEMMA PageSplit ==
  ASSUME NEW a \in Nat
  PROVE  /\ PageOf(a) \in Nat
         /\ PAGE_SIZE * PageOf(a) <= a
         /\ a < PAGE_SIZE * PageOf(a) + PAGE_SIZE
  BY SyscallTableAssumption DEF PageOf

LEMMA PageUnique ==
  ASSUME NEW a \in Nat, NEW q \in Nat, NEW r \in 0 .. PAGE_SIZE - 1,
         a = PAGE_SIZE * q + r
  PROVE  PageOf(a) = q
  BY SyscallTableAssumption DEF PageOf

LEMMA NextPage ==
  ASSUME NEW a \in Nat PROVE PageOf(a + PAGE_SIZE) = PageOf(a) + 1
  <1> DEFINE q == PageOf(a)
             r == a - PAGE_SIZE * q
  <1>1. PAGE_SIZE \in Nat /\ q \in Nat /\ PAGE_SIZE * q \in Nat
    <2>1. PAGE_SIZE \in Nat /\ q \in Nat
      BY SyscallTableAssumption, PageSplit
    <2> HIDE DEF q
    <2> QED
      BY <2>1
  <1>2. r \in 0 .. PAGE_SIZE - 1
    <2>1. PAGE_SIZE * q <= a /\ a < PAGE_SIZE * q + PAGE_SIZE
      BY PageSplit
    <2> HIDE DEF q
    <2> QED
      BY <1>1, <2>1
  <1>3. a + PAGE_SIZE = PAGE_SIZE * (q + 1) + r
    <2>1. PAGE_SIZE * (q + 1) = PAGE_SIZE * q + PAGE_SIZE
      BY <1>1
    <2> QED
      BY <1>1, <2>1
  <1>4. a + PAGE_SIZE \in Nat /\ q + 1 \in Nat
    BY <1>1
  <1> HIDE DEF q, r
  <1>5. PageOf(a + PAGE_SIZE) = q + 1
    BY <1>2, <1>3, <1>4, PageUnique
  <1> QED
    BY <1>5 DEF q

LEMMA AddressType == Addresses \subseteq Nat
  BY DEF Addresses

LEMMA PageOrder ==
  ASSUME NEW a \in Nat, NEW b \in Nat, a <= b
  PROVE  PageOf(a) <= PageOf(b)
  <1> DEFINE p == PageOf(a)
             q == PageOf(b)
  <1>1. p \in Nat /\ q \in Nat /\ PAGE_SIZE \in Nat
    BY PageSplit, SyscallTableAssumption
  <1>2. PAGE_SIZE * p < PAGE_SIZE * q + PAGE_SIZE
    BY PageSplit, <1>1
  <1> HIDE DEF p, q
  <1>3. ASSUME p > q PROVE FALSE
    <2>1. PICK d \in Nat : p = q + 1 + d
      <3>1. p - q - 1 \in Nat /\ p = q + 1 + (p - q - 1)
        BY <1>1, <1>3
      <3> QED
        BY <3>1
    <2>2. PAGE_SIZE * p = PAGE_SIZE * q + PAGE_SIZE + PAGE_SIZE * d
      BY <1>1, <2>1
    <2>3. PAGE_SIZE * d \in Nat /\ PAGE_SIZE * q \in Nat
      BY <1>1
    <2> QED
      BY <1>1, <1>2, <2>2, <2>3
  <1>4. p <= q
    BY <1>1, <1>3
  <1> QED
    BY <1>4 DEF p, q

\* Two words less than a page apart are in the same page or in the next.
LEMMA PageNear ==
  ASSUME NEW a \in Nat, NEW d \in 0 .. PAGE_SIZE - 1
  PROVE  PageOf(a + d) \in {PageOf(a), PageOf(a) + 1}
  <1>1. PAGE_SIZE \in Nat /\ a + d \in Nat /\ a + d <= a + PAGE_SIZE
    BY SyscallTableAssumption
  <1>2. PageOf(a + PAGE_SIZE) = PageOf(a) + 1
    BY NextPage
  <1>3. PageOf(a) <= PageOf(a + d) /\ PageOf(a + d) <= PageOf(a) + 1
    BY <1>1, <1>2, PageOrder
  <1>4. PageOf(a) \in Nat /\ PageOf(a + d) \in Nat
    BY <1>1, PageSplit
  <1> QED
    BY <1>3, <1>4

\* The walk of vtpmo agrees with the processor.
LEMMA WalkExact ==
  ASSUME NEW w \in PageTables, NEW p \in Nat
  PROVE  vtpmo(w, p) # NO_MAP <=> HasFrame(w, p)
  <1>1. TABLE * TABLE \in Nat \ {0}
    BY PagesAssumption
  <1>2. /\ PDP_indexof(p) \in Indices /\ PDE_indexof(p) \in Indices
        /\ PTE_indexof(p) \in Indices
    <2>1. p \div TABLE \in Nat /\ p \div (TABLE * TABLE) \in Nat
      BY <1>1, PagesAssumption
    <2> QED
      BY <2>1, PagesAssumption
         DEF PDP_indexof, PDE_indexof, PTE_indexof, Indices
  <1>3. /\ w.pml4 \in {INVALID, VALID}
        /\ w.pdp[PDP_indexof(p)] \in {INVALID, VALID}
        /\ PdeOf(w, p) \in {INVALID, VALID, LARGE}
        /\ PteOf(w, p) \in {INVALID, VALID}
    BY <1>2 DEF PageTables, PdeOf, PteOf
  <1> QED
    BY <1>3 DEF vtpmo, HasFrame, NO_MAP, INVALID, VALID, LARGE

\* The entries of the pattern are less than a page apart.
LEMMA Pattern ==
  /\ FIRST_NI_SYSCALL \in 1 .. PAGE_SIZE - 1
  /\ \A i \in DOMAIN NiSyscalls :
       /\ NiSyscalls[i] \in 1 .. PAGE_SIZE - 1
       /\ NiSyscalls[i] <= Last(NiSyscalls)
       /\ i > 1 => NiSyscalls[i] >= SECOND_NI_SYSCALL
  /\ Last(NiSyscalls) \in 1 .. PAGE_SIZE - 1
  /\ SECOND_NI_SYSCALL \in FIRST_NI_SYSCALL + 1 .. Last(NiSyscalls)
  /\ \E n \in DOMAIN NiSyscalls : Last(NiSyscalls) = NiSyscalls[n]
  <1> DEFINE n == Len(NiSyscalls)
  <1>1. /\ n \in Nat /\ n > 1 /\ DOMAIN NiSyscalls = 1 .. n
        /\ \A i \in 1 .. n : NiSyscalls[i] \in Nat \ {0}
    BY SyscallTableAssumption
  <1>2. Last(NiSyscalls) = NiSyscalls[n]
    BY DEF Last
  <1>3. \A i \in 1 .. n : NiSyscalls[i] <= NiSyscalls[n]
    BY <1>1, SyscallTableAssumption
  <1>4. NiSyscalls[n] < PAGE_SIZE /\ PAGE_SIZE \in Nat /\ n \in DOMAIN NiSyscalls
    BY <1>1, <1>2, SyscallTableAssumption
  <1>5. \A i \in 1 .. n : i > 1 => NiSyscalls[i] >= NiSyscalls[2]
    BY <1>1, SyscallTableAssumption
  <1>6. NiSyscalls[1] < NiSyscalls[2] /\ 1 \in 1 .. n /\ 2 \in 1 .. n
    BY <1>1, SyscallTableAssumption
  <1> HIDE DEF n
  <1> QED
    BY <1>1, <1>2, <1>3, <1>4, <1>5, <1>6
       DEF FIRST_NI_SYSCALL, SECOND_NI_SYSCALL

\* The code reads the pattern at address a without leaving the frames that
\* the table has, or finds out at its second entry.
LEMMA Readable ==
  ASSUME NEW w \in PageTables, NEW m, NEW a \in Addresses, Matches(m, a),
         HasFrame(w, PageOf(a)), ~Faults(w, m, a)
  PROVE  HasFrame(w, PageOf(a + Last(NiSyscalls)))
  <1>1. PICK n \in DOMAIN NiSyscalls : Last(NiSyscalls) = NiSyscalls[n]
    BY Pattern
  <1>2. n \in ReadAt(m, a)
    BY SyscallTableAssumption DEF Matches, ReadAt
  <1> QED
    BY <1>1, <1>2 DEF Faults

LEMMA NoFault ==
  ASSUME NEW w \in PageTables, NEW m, NEW a \in Addresses,
         HasFrame(w, PageOf(a)), HasFrame(w, PageOf(a + Last(NiSyscalls)))
  PROVE  ~Faults(w, m, a)
  <1> SUFFICES ASSUME NEW i \in DOMAIN NiSyscalls
               PROVE  HasFrame(w, PageOf(a + NiSyscalls[i]))
    BY DEF Faults, ReadAt
  <1>1. /\ a \in Nat /\ PAGE_SIZE \in Nat
        /\ NiSyscalls[i] \in 0 .. PAGE_SIZE - 1
        /\ Last(NiSyscalls) \in 0 .. PAGE_SIZE - 1
        /\ a + NiSyscalls[i] <= a + Last(NiSyscalls)
    BY Pattern, AddressType, SyscallTableAssumption
  <1>2. PageOf(a + NiSyscalls[i]) \in {PageOf(a), PageOf(a) + 1}
    BY <1>1, PageNear
  <1>3. PageOf(a + Last(NiSyscalls)) \in {PageOf(a), PageOf(a) + 1}
    BY <1>1, PageNear
  <1>4. PageOf(a + NiSyscalls[i]) <= PageOf(a + Last(NiSyscalls))
    BY <1>1, PageOrder
  <1>5. PageOf(a) \in Nat
    BY <1>1, PageSplit
  <1> QED
    BY <1>2, <1>3, <1>4, <1>5

\* Where a table begins that can be read, the search has not given up the page.
LEMMA TablesAreHits ==
  ASSUME NEW w \in PageTables, NEW m
  PROVE  Tables(w, m) \subseteq Hits(w, m)
  <1> SUFFICES ASSUME NEW a \in Tables(w, m) PROVE a \in Hits(w, m)
    OBVIOUS
  <1>1. /\ a \in Addresses /\ a \in Nat /\ PAGE_SIZE \in Nat
        /\ HasFrame(w, PageOf(a)) /\ HasFrame(w, PageOf(a + Last(NiSyscalls)))
        /\ Matches(m, a) /\ PageOf(a) \in Nat
    BY SyscallTableAssumption, AddressType, PageSplit DEF Tables
  <1>2. ASSUME NEW b \in (PageOf(a) * PAGE_SIZE) .. a, Stops(w, b) PROVE FALSE
    <2>1. /\ b \in Nat /\ b <= a /\ PageOf(b) = PageOf(a)
      <3>1. PageOf(a) * PAGE_SIZE \in Nat
        BY <1>1
      <3>2. b \in Nat /\ PageOf(b) \in Nat /\ PageOf(b) <= PageOf(a)
        BY <1>1, <3>1, PageSplit, PageOrder
      <3>3. PageOf(PageOf(a) * PAGE_SIZE) = PageOf(a)
        BY <1>1, SyscallTableAssumption DEF PageOf
      <3>4. PageOf(a) <= PageOf(b)
        BY <1>1, <3>1, <3>2, <3>3, PageOrder
      <3> QED
        BY <1>1, <3>2, <3>4
    <2>2. /\ PageOf(b + SECOND_NI_SYSCALL) = PageOf(a) + 1
          /\ ~HasFrame(w, PageOf(a) + 1)
      BY <1>1, <1>2, <2>1, WalkExact DEF Stops
    <2>3. /\ SECOND_NI_SYSCALL \in Nat /\ SECOND_NI_SYSCALL <= Last(NiSyscalls)
          /\ Last(NiSyscalls) \in 0 .. PAGE_SIZE - 1
      BY <1>1, Pattern
    <2>4. PageOf(a + Last(NiSyscalls)) \in {PageOf(a), PageOf(a) + 1}
      BY <1>1, <2>3, PageNear
    <2>5. PageOf(b + SECOND_NI_SYSCALL) <= PageOf(a + Last(NiSyscalls))
      BY <1>1, <2>1, <2>3, PageOrder
    <2> QED
      BY <1>1, <2>2, <2>4, <2>5
  <1>3. vtpmo(w, PageOf(a)) # NO_MAP
    BY <1>1, WalkExact
  <1> QED
    BY <1>1, <1>2, <1>3 DEF Hits, Candidates

\* Where it faults, the second entry of the pattern is in the page that was
\* asked for, the last one is in a page without a frame.
LEMMA FaultOverhangs ==
  ASSUME NEW w \in PageTables, NEW m, NEW a \in Candidates(w), Faults(w, m, a)
  PROVE  Overhang(w, a)
  <1>1. /\ a \in Addresses /\ a \in Nat /\ PAGE_SIZE \in Nat
        /\ HasFrame(w, PageOf(a)) /\ PageOf(a) \in Nat
    BY SyscallTableAssumption, AddressType, PageSplit, WalkExact DEF Candidates
  <1>2. ~HasFrame(w, PageOf(a + Last(NiSyscalls)))
    BY <1>1, NoFault
  <1>3. ~Stops(w, a)
    <2>1. PageOf(a) * PAGE_SIZE \in Nat /\ PageOf(a) * PAGE_SIZE <= a
      BY <1>1, PageSplit
    <2> QED
      BY <1>1, <2>1 DEF Candidates
  <1>4. /\ SECOND_NI_SYSCALL \in 0 .. PAGE_SIZE - 1
        /\ Last(NiSyscalls) \in 0 .. PAGE_SIZE - 1
    BY <1>1, Pattern
  <1>5. PageOf(a + Last(NiSyscalls)) = PageOf(a) + 1
    BY <1>1, <1>2, <1>4, PageNear
  <1>6. PageOf(a + SECOND_NI_SYSCALL) # PageOf(a) + 1
    BY <1>1, <1>2, <1>3, <1>5, WalkExact DEF Stops
  <1>7. PageOf(a + SECOND_NI_SYSCALL) = PageOf(a)
    BY <1>1, <1>4, <1>6, PageNear
  <1> QED
    BY <1>1, <1>2, <1>7 DEF Overhang

\* What syscall_table_finder returns.
LEMMA FinderResult ==
  ASSUME NEW w \in PageTables, NEW m
  PROVE  LET found == syscall_table_finder(w, m)
         IN  \/ /\ found = FAULT
                /\ \E a \in Addresses :
                     /\ Overhang(w, a) /\ Faults(w, m, a)
                     /\ \A b \in Tables(w, m) : a < b
             \/ found = NOT_FOUND /\ Tables(w, m) = {}
             \/ /\ found \in Addresses /\ found \in Tables(w, m)
                /\ found = Min(Tables(w, m))
  <1>1. Addresses \subseteq Nat
    BY AddressType
  <1>2. /\ Hits(w, m) \subseteq Candidates(w) /\ Candidates(w) \subseteq Addresses
        /\ Tables(w, m) \subseteq Addresses
    BY DEF Hits, Candidates, Tables
  <1>3. Tables(w, m) \subseteq Hits(w, m)
    BY TablesAreHits
  <1>4. CASE Hits(w, m) = {}
    BY <1>3, <1>4 DEF syscall_table_finder
  <1>5. CASE Hits(w, m) # {}
    <2> DEFINE a == Min(Hits(w, m))
    <2>1. a \in Hits(w, m) /\ \A b \in Hits(w, m) : a <= b
      <3>1. Hits(w, m) \in SUBSET Nat
        BY <1>1, <1>2
      <3> QED
        BY <1>5, <3>1, MinOf
    <2> HIDE DEF a
    <2>2. a \in Candidates(w) /\ a \in Addresses /\ a \in Nat
      BY <1>1, <1>2, <2>1
    <2>3. CASE Faults(w, m, a)
      <3>1. Overhang(w, a)
        BY <2>2, <2>3, FaultOverhangs
      <3>2. a \notin Tables(w, m)
        BY <3>1 DEF Overhang, Tables
      <3>3. ASSUME NEW b \in Tables(w, m) PROVE a < b
        <4>1. b \in Nat /\ a <= b /\ a # b
          BY <1>1, <1>2, <1>3, <2>1, <3>2
        <4> QED
          BY <2>2, <4>1
      <3>4. syscall_table_finder(w, m) = FAULT
        BY <1>5, <2>3 DEF syscall_table_finder, a
      <3> QED
        BY <2>2, <2>3, <3>1, <3>3, <3>4
    <2>4. CASE ~Faults(w, m, a)
      <3>1. Matches(m, a) /\ HasFrame(w, PageOf(a))
        <4>1. PageOf(a) \in Nat
          BY <2>2, PageSplit
        <4> QED
          BY <2>1, <2>2, <2>4, <4>1, WalkExact DEF Hits, Candidates
      <3>2. a \in Tables(w, m)
        BY <2>2, <2>4, <3>1, Readable DEF Tables
      <3>3. Min(Tables(w, m)) = a
        <4>1. Tables(w, m) \in SUBSET Nat /\ Tables(w, m) # {}
          BY <1>1, <1>2, <3>2
        <4>2. /\ Min(Tables(w, m)) \in Tables(w, m)
              /\ Min(Tables(w, m)) <= a
          BY <3>2, <4>1, MinOf
        <4>3. Min(Tables(w, m)) \in Nat /\ a <= Min(Tables(w, m))
          BY <1>3, <2>1, <4>1, <4>2
        <4> QED
          BY <2>2, <4>2, <4>3
      <3>4. syscall_table_finder(w, m) = a
        BY <1>5, <2>4 DEF syscall_table_finder, a
      <3> QED
        BY <2>2, <3>2, <3>3, <3>4
    <2> QED
      BY <2>3, <2>4
  <1> QED
    BY <1>4, <1>5

-----------------------------------------------------------------------------
\* The free entries of a table.

Under(S, x) == {e \in S : e < x}
Rank(S, x)  == Cardinality(Under(S, x))

LEMMA RankType ==
  ASSUME NEW n \in Nat, NEW S \in SUBSET (0 .. n - 1), NEW x
  PROVE  /\ IsFiniteSet(S) /\ Cardinality(S) \in Nat
         /\ IsFiniteSet(Under(S, x)) /\ Rank(S, x) \in Nat
  <1>1. IsFiniteSet(0 .. n - 1)
    BY FS_Interval
  <1>2. IsFiniteSet(S)
    BY <1>1, FS_Subset
  <1>3. IsFiniteSet(Under(S, x))
    <2>1. Under(S, x) \in SUBSET S
      BY DEF Under
    <2> QED
      BY <1>2, <2>1, FS_Subset
  <1> QED
    BY <1>2, <1>3, FS_CardinalityType DEF Rank

\* A number has one element of the set below it more than the number before,
\* or as many.
LEMMA RankNext ==
  ASSUME NEW n \in Nat, NEW S \in SUBSET (0 .. n - 1), NEW x \in Nat
  PROVE  Rank(S, x + 1) = Rank(S, x) + IF x \in S THEN 1 ELSE 0
  <1> DEFINE B == Under(S, x)
  <1>1. IsFiniteSet(B) /\ Cardinality(B) \in Nat
    BY RankType DEF Rank
  <1>2. x \notin B
    BY DEF Under
  <1>3. CASE x \in S
    <2>1. Under(S, x + 1) = B \cup {x}
      <3>1. \A e \in S : e < x + 1 <=> (e < x \/ e = x)
        OBVIOUS
      <3> QED
        BY <1>3, <3>1 DEF Under
    <2> HIDE DEF B
    <2>2. Cardinality(B \cup {x}) = Cardinality(B) + 1
      BY <1>1, <1>2, FS_AddElement
    <2> QED
      BY <1>3, <2>1, <2>2 DEF Rank, B
  <1>4. CASE x \notin S
    <2>1. Under(S, x + 1) = B
      <3>1. \A e \in S : e < x + 1 <=> e < x
        BY <1>4
      <3> QED
        BY <3>1 DEF Under
    <2> QED
      BY <1>1, <1>4, <2>1 DEF Rank
  <1> QED
    BY <1>3, <1>4

LEMMA NthElement ==
  ASSUME NEW n \in Nat, NEW S \in SUBSET (0 .. n - 1),
         NEW j \in 1 .. Cardinality(S)
  PROVE  Nth(S, j) \in S /\ Rank(S, Nth(S, j)) = j - 1
  <1> DEFINE G == {x \in Nat : Rank(S, x) >= j}
  <1>0. Cardinality(S) \in Nat /\ \A x \in Nat : Rank(S, x) \in Nat
    BY RankType
  <1>1. n \in G
    <2>1. Under(S, n) = S
      <3>1. \A e \in S : e < n
        OBVIOUS
      <3> QED
        BY <3>1 DEF Under
    <2> QED
      BY <1>0, <2>1 DEF Rank
  <1>2. 0 \notin G
    <2>1. Under(S, 0) = {}
      <3>1. \A e \in S : ~(e < 0)
        OBVIOUS
      <3> QED
        BY <3>1 DEF Under
    <2> QED
      BY <2>1, FS_EmptySet DEF Rank
  <1>3. PICK x \in G : \A y \in G : x <= y
    <2>1. G \in SUBSET Nat /\ G # {}
      BY <1>1
    <2> HIDE DEF G
    <2> QED
      BY <2>1, Least
  <1>4. x - 1 \in Nat /\ x - 1 \notin G
    BY <1>2, <1>3
  <1>5. Rank(S, x) = Rank(S, x - 1) + IF x - 1 \in S THEN 1 ELSE 0
    <2>1. (x - 1) + 1 = x
      BY <1>3
    <2>2. Rank(S, (x - 1) + 1) = Rank(S, x - 1) + IF x - 1 \in S THEN 1 ELSE 0
      BY <1>4, RankNext
    <2> QED
      BY <2>1, <2>2
  <1>6. x - 1 \in S /\ Rank(S, x - 1) = j - 1
    <2>1. Rank(S, x) >= j /\ ~(Rank(S, x - 1) >= j)
      BY <1>3, <1>4
    <2>2. Rank(S, x) \in Nat /\ Rank(S, x - 1) \in Nat
      BY <1>0, <1>3, <1>4
    <2> QED
      BY <1>5, <2>1, <2>2
  <1> QED
    BY <1>6 DEF Nth, Rank, Under

LEMMA NthOrder ==
  ASSUME NEW n \in Nat, NEW S \in SUBSET (0 .. n - 1),
         NEW j \in 1 .. Cardinality(S), NEW i \in 1 .. Cardinality(S), i < j
  PROVE  Nth(S, i) < Nth(S, j)
  <1> DEFINE x == Nth(S, i)
             y == Nth(S, j)
  <1>1. x \in S /\ Rank(S, x) = i - 1
    BY NthElement
  <1>2. y \in S /\ Rank(S, y) = j - 1
    BY NthElement
  <1> HIDE DEF x, y
  <1>3. ASSUME y <= x PROVE FALSE
    <2>1. Under(S, y) \in SUBSET Under(S, x)
      <3>1. x \in Int /\ y \in Int
        BY <1>1, <1>2
      <3>2. \A e \in S : e < y => e < x
        BY <1>3, <3>1
      <3> QED
        BY <3>2 DEF Under
    <2>2. IsFiniteSet(Under(S, x)) /\ Rank(S, x) \in Nat /\ Rank(S, y) \in Nat
      BY RankType
    <2>3. Rank(S, y) <= Rank(S, x)
      BY <2>1, <2>2, FS_Subset DEF Rank
    <2>4. Cardinality(S) \in Nat
      BY RankType
    <2> QED
      BY <1>1, <1>2, <2>3, <2>4
  <1>4. x \in Int /\ y \in Int
    BY <1>1, <1>2
  <1>5. x < y
    BY <1>3, <1>4
  <1> QED
    BY <1>5 DEF x, y

\* The pattern itself is free, so there are as many free entries as it has.
LEMMA PatternIsFree ==
  ASSUME NEW m, NEW a \in Tables(walk, m)
  PROVE  /\ Free(m, a) \in SUBSET (0 .. ENTRIES_TO_EXPLORE - 1)
         /\ Cardinality(Free(m, a)) >= Len(NiSyscalls)
         /\ \A i \in Free(m, a) : a + i \in DOMAIN m
  <1> DEFINE n == Len(NiSyscalls)
             P == {NiSyscalls[i] : i \in 1 .. n}
  <1>1. /\ n \in Nat /\ DOMAIN NiSyscalls = 1 .. n
        /\ \A i \in 1 .. n : NiSyscalls[i] \in Nat
        /\ \A i, j \in 1 .. n : i < j => NiSyscalls[i] < NiSyscalls[j]
        /\ ENTRIES_TO_EXPLORE \in Nat
    BY SyscallTableAssumption
  <1>2. Matches(m, a)
    BY DEF Tables
  <1>3. P \subseteq Free(m, a)
    <2>1. \A i \in 1 .. n : NiSyscalls[i] <= Last(NiSyscalls)
      BY <1>1, Pattern
    <2>2. Last(NiSyscalls) < ENTRIES_TO_EXPLORE /\ Last(NiSyscalls) \in Nat
      BY SyscallTableAssumption, Pattern
    <2>3. \A i \in 1 .. n : NiSyscalls[i] \in 0 .. ENTRIES_TO_EXPLORE - 1
      BY <1>1, <2>1, <2>2
    <2>4. \A i \in 1 .. n :
            Value(m, a + NiSyscalls[i]) = Value(m, a + FIRST_NI_SYSCALL)
      BY <1>1, <1>2 DEF Matches
    <2> QED
      BY <2>3, <2>4 DEF Free
  <1>4. Cardinality(P) = n
    <2> DEFINE g == [i \in 1 .. n |-> NiSyscalls[i]]
    <2>1. g \in Bijection(1 .. n, P)
      <3>1. \A i, j \in 1 .. n : g[i] = g[j] => i = j
        BY <1>1
      <3>2. g \in [1 .. n -> P]
        OBVIOUS
      <3>3. \A y \in P : \E i \in 1 .. n : g[i] = y
        OBVIOUS
      <3> HIDE DEF g, P
      <3> QED
        BY <3>1, <3>2, <3>3
           DEF Bijection, Injection, Surjection, IsInjective
    <2> HIDE DEF g, P
    <2>2. ExistsBijection(1 .. n, P)
      BY <2>1 DEF ExistsBijection
    <2> QED
      BY <1>1, <2>2, FS_CountingElements
  <1>5. Free(m, a) \in SUBSET (0 .. ENTRIES_TO_EXPLORE - 1)
    BY DEF Free
  <1>6. Cardinality(P) <= Cardinality(Free(m, a))
    <2>1. IsFiniteSet(Free(m, a))
      BY <1>1, <1>5, RankType
    <2> HIDE DEF P
    <2> QED
      BY <1>3, <2>1, FS_Subset
  <1>7. \A i \in Free(m, a) : Value(m, a + i) # JUNK
    BY <1>2 DEF Matches, Free
  <1> QED
    BY <1>1, <1>4, <1>5, <1>6, <1>7, RankType DEF Value

\* Where the scan of the entries faults, it has left the page of the table and
\* has not filled the array there.
LEMMA ScanShort ==
  ASSUME NEW w \in PageTables, NEW m, NEW a \in Tables(w, m), ScanFaults(w, m, a)
  PROVE  ShortOfEntries(w, m, a)
  <1> DEFINE S == Free(m, a)
             last == ENTRIES_TO_EXPLORE - 1
             R == {e \in S : HasFrame(w, PageOf(a + e))}
  <1>1. PICK i \in 0 .. last : /\ Cardinality({e \in S : e < i}) < MAX_FREE
                               /\ ~HasFrame(w, PageOf(a + i))
    BY DEF ScanFaults, Scanned
  <1>2. /\ ENTRIES_TO_EXPLORE \in Nat /\ PAGE_SIZE \in Nat /\ MAX_FREE \in Nat
        /\ ENTRIES_TO_EXPLORE <= PAGE_SIZE
        /\ a \in Nat /\ PageOf(a) \in Nat /\ HasFrame(w, PageOf(a))
    BY SyscallTableAssumption, AddressType, PageSplit DEF Tables
  <1>3. ASSUME NEW e \in 0 .. last, i <= e PROVE PageOf(a + e) = PageOf(a) + 1
    <2>1. /\ i \in 0 .. PAGE_SIZE - 1 /\ e \in 0 .. PAGE_SIZE - 1
          /\ a + i \in Nat /\ a + e \in Nat /\ a + i <= a + e
      BY <1>1, <1>2, <1>3
    <2>2. PageOf(a + i) = PageOf(a) + 1
      BY <1>1, <1>2, <2>1, PageNear
    <2>3. PageOf(a + e) \in {PageOf(a), PageOf(a) + 1}
      BY <1>2, <2>1, PageNear
    <2>4. PageOf(a + i) <= PageOf(a + e)
      BY <2>1, PageOrder
    <2> QED
      BY <1>2, <2>2, <2>3, <2>4
  <1>4. ~HasFrame(w, PageOf(a) + 1)
    BY <1>1, <1>3
  <1>5. ~HasFrame(w, PageOf(a + last))
    BY <1>1, <1>2, <1>3, <1>4
  <1>6. S \in SUBSET (0 .. last)
    BY DEF Free
  <1>7. R \in SUBSET Under(S, i)
    <2>1. ASSUME NEW e \in R PROVE e < i
      <3>1. e \in 0 .. last /\ HasFrame(w, PageOf(a + e))
        BY <1>6
      <3> QED
        BY <1>1, <1>2, <1>3, <1>4, <3>1
    <2> QED
      BY <2>1 DEF Under
  <1>8. Cardinality(R) < MAX_FREE
    <2>1. IsFiniteSet(Under(S, i)) /\ Rank(S, i) \in Nat
      BY <1>2, <1>6, RankType
    <2>2. Rank(S, i) < MAX_FREE
      BY <1>1 DEF Rank, Under
    <2> HIDE DEF R
    <2>3. IsFiniteSet(R) /\ Cardinality(R) <= Cardinality(Under(S, i))
      BY <1>7, <2>1, FS_Subset
    <2>4. Cardinality(R) \in Nat
      BY <2>3, FS_CardinalityType
    <2> QED
      BY <1>2, <2>1, <2>2, <2>3, <2>4 DEF Rank
  <1> QED
    BY <1>2, <1>5, <1>8 DEF ShortOfEntries

\* The entries that start takes: within their array, in ascending order, and
\* one for each call in the memory that was searched.
LEMMA FreeEntriesOf ==
  ASSUME NEW m, NEW a \in Tables(walk, m)
  PROVE  LET f == FreeEntries(m, a)
         IN  /\ f \in Seq(0 .. ENTRIES_TO_EXPLORE - 1)
             /\ Len(f) <= MAX_FREE
             /\ \A i \in 1 .. 4 : i \in DOMAIN f /\ a + f[i] \in DOMAIN m
             /\ \A i, j \in 1 .. 4 : i < j => f[i] < f[j]
  <1> DEFINE S == Free(m, a)
             c == Cardinality(S)
             L == Min({MAX_FREE, c})
             f == FreeEntries(m, a)
  <1>1. /\ S \in SUBSET (0 .. ENTRIES_TO_EXPLORE - 1) /\ c >= Len(NiSyscalls)
        /\ \A i \in S : a + i \in DOMAIN m
    BY PatternIsFree
  <1>2. /\ ENTRIES_TO_EXPLORE \in Nat /\ MAX_FREE \in Nat
        /\ Len(NiSyscalls) \in Nat /\ 4 <= Len(NiSyscalls) /\ 4 <= MAX_FREE
    BY SyscallTableAssumption, ModuleAssumption
  <1>3. c \in Nat
    BY <1>1, <1>2, RankType
  <1>4. f = [j \in 1 .. L |-> Nth(S, j)]
    BY DEF FreeEntries
  <1> HIDE DEF f, S, c
  <1>5. L \in Nat /\ L <= MAX_FREE /\ L <= c /\ 4 <= L
    <2>1. /\ {MAX_FREE, c} \in SUBSET Nat /\ {MAX_FREE, c} # {}
      BY <1>2, <1>3
    <2>2. L \in {MAX_FREE, c} /\ \A y \in {MAX_FREE, c} : L <= y
      BY <2>1, MinOf
    <2> HIDE DEF L
    <2> QED
      BY <1>1, <1>2, <1>3, <2>2
  <1> HIDE DEF L
  <1>6. ASSUME NEW i \in 1 .. L PROVE i \in 1 .. c /\ f[i] = Nth(S, i) /\ f[i] \in S
    <2>1. i \in 1 .. c /\ f[i] = Nth(S, i)
      BY <1>3, <1>4, <1>5
    <2>2. Nth(S, i) \in S
      BY <1>1, <1>2, <2>1, NthElement DEF c
    <2> QED
      BY <2>1, <2>2
  <1>7. /\ DOMAIN f = 1 .. L
        /\ f \in Seq(0 .. ENTRIES_TO_EXPLORE - 1) /\ Len(f) = L
    <2>1. f \in [1 .. L -> 0 .. ENTRIES_TO_EXPLORE - 1]
      <3>1. \A i \in 1 .. L : Nth(S, i) \in 0 .. ENTRIES_TO_EXPLORE - 1
        BY <1>1, <1>6
      <3> QED
        BY <1>4, <3>1
    <2>2. f \in Seq(0 .. ENTRIES_TO_EXPLORE - 1)
      BY <1>5, <2>1, SeqDef
    <2>3. Len(f) \in Nat /\ DOMAIN f = 1 .. Len(f)
      BY <2>2, LenProperties
    <2> QED
      BY <1>5, <2>1, <2>2, <2>3
  <1>8. ASSUME NEW i \in 1 .. 4, NEW j \in 1 .. 4, i < j PROVE f[i] < f[j]
    <2>1. i \in 1 .. L /\ j \in 1 .. L
      BY <1>5
    <2>2. i \in 1 .. c /\ j \in 1 .. c
      BY <1>6, <2>1
    <2>3. Nth(S, i) < Nth(S, j)
      BY <1>1, <1>2, <1>8, <2>2, NthOrder DEF c
    <2> QED
      BY <1>6, <2>1, <2>3
  <1>9. ASSUME NEW i \in 1 .. 4 PROVE i \in DOMAIN f /\ a + f[i] \in DOMAIN m
    <2>1. i \in 1 .. L
      BY <1>5
    <2>2. f[i] \in S
      BY <1>6, <2>1
    <2> QED
      BY <1>1, <1>7, <2>1, <2>2
  <1>10. Len(f) <= MAX_FREE
    BY <1>5, <1>7
  <1> QED
    BY <1>7, <1>8, <1>9, <1>10 DEF f

-----------------------------------------------------------------------------
\* start and end, and the entries they write.

LoaderOK ==
  /\ walk \in PageTables /\ memory \in [Addresses -> Word]
  /\ \/ mod \in {"unloaded", "live"} /\ step = "none"
     \/ mod = "coming" /\ step \in {"find", "alloc", "install", "install_write",
                                    "driver", "oops"}
     \/ mod = "going" /\ step \in {"free", "uninstall", "uninstall_write", "done"}
  /\ k \in 1 .. 4
  /\ step \notin {"install", "install_write", "uninstall", "uninstall_write"}
       => k = 1

\* Where start has a table, and end still needs it.
Patched == \/ mod = "coming" /\ step \in {"install", "install_write", "driver"}
           \/ mod \in {"live", "going"}

TableFound ==
  /\ mod = "unloaded" \/ step = "find" => tbl = NONE
  /\ Patched => tbl # NONE
  /\ tbl # NONE => ni \in Word \ Ours

\* The j-th call may be in the table: start has come to its entry, and end has
\* not.
Installed(j) ==
  \/ mod = "coming" /\ \/ step = "driver"
                       \/ step \in {"install", "install_write"} /\ j < k
  \/ mod = "live"
  \/ mod = "going" /\ \/ step = "free"
                      \/ step \in {"uninstall", "uninstall_write"} /\ j >= k

\* Every entry that points into the module is one that end will come to.
OurEntries ==
  \A a \in Addresses : memory[a] \in Ours =>
    \E j \in 1 .. 4 : /\ a = tbl + free_entries[j] /\ memory[a] = Calls[j]
                      /\ Installed(j)

LoaderInv == LoaderOK /\ TableFound /\ OurEntries

\* The values of the words.
LEMMA Values ==
  /\ Len(Calls) = 4 /\ DOMAIN Calls = 1 .. 4
  /\ \A j \in 1 .. 4 : Calls[j] \in Ours /\ Calls[j] \in Word
  /\ \A f \in Ours : f \in Word /\ f # NI /\ f # JUNK /\ f # FOREIGN
  /\ FOREIGN \in Word /\ FOREIGN # NI /\ NI \in Word
  <1>1. /\ Len(Calls) = 4 /\ DOMAIN Calls = 1 .. 4
        /\ \A j \in 1 .. 4 : Calls[j] \in Functions
    BY ModuleAssumption, ElementOfSeq
  <1>2. Ours = {Calls[j] : j \in 1 .. 4}
    BY <1>1 DEF Ours, Range
  <1>3. FOREIGN \in Functions /\ FOREIGN \notin Ours
    BY ModuleAssumption
  <1>4. NI \notin Functions /\ JUNK \notin Functions
    BY SyscallTableAssumption
  <1> QED
    BY <1>1, <1>2, <1>3, <1>4 DEF Word

LEMMA LoaderInit == Init => LoaderInv
  <1> SUFFICES ASSUME Init PROVE LoaderInv
    OBVIOUS
  <1>1. PICK w \in World : walk = w[1] /\ memory = w[2]
    BY DEF Init
  <1>2. walk \in PageTables /\ memory \in [Addresses -> Word \ (Ours \cup {FOREIGN})]
    BY <1>1, ModuleAssumption
  <1>3. LoaderOK /\ TableFound
    <2>1. mod = "unloaded" /\ step = "none" /\ k = 1 /\ tbl = NONE
      BY DEF Init
    <2>2. memory \in [Addresses -> Word] /\ k \in 1 .. 4
      BY <1>2, <2>1
    <2> QED
      BY <1>2, <2>1, <2>2 DEF LoaderOK, Patched, TableFound
  <1>4. OurEntries
    BY <1>2 DEF OurEntries
  <1> QED
    BY <1>3, <1>4 DEF LoaderInv

\* What is behind the pattern of a table that matches is in the memory.
LEMMA PatternValue ==
  ASSUME LoaderInv, NEW a \in Tables(walk, memory)
  PROVE  /\ a + FIRST_NI_SYSCALL \in Addresses
         /\ memory[a + FIRST_NI_SYSCALL] \in Word \ {JUNK}
  <1>1. /\ Value(memory, a + FIRST_NI_SYSCALL) # JUNK
        /\ memory \in [Addresses -> Word]
    BY DEF Tables, Matches, LoaderInv, LoaderOK
  <1> QED
    BY <1>1 DEF Value

\* The two outcomes of Find.
LEMMA FindOutcome ==
  ASSUME LoaderInv, Find
  PROVE  LET found == syscall_table_finder(walk, memory)
         IN  \/ /\ found \in Tables(walk, memory) /\ found \in Addresses
                /\ found = Min(Tables(walk, memory))
                /\ ~ScanFaults(walk, memory, found)
                /\ step' = "alloc" /\ tbl' = found
                /\ ni' = memory[found + FIRST_NI_SYSCALL]
                /\ free_entries' = FreeEntries(memory, found)
             \/ /\ UNCHANGED <<tbl, ni, free_entries>>
                /\ \/ /\ step' = "oops"
                      /\ \E a \in Addresses :
                           /\ Overhang(walk, a) /\ Faults(walk, memory, a)
                           /\ \A b \in Tables(walk, memory) : a < b
                   \/ /\ step' = "oops" /\ found \in Tables(walk, memory)
                      /\ found = Min(Tables(walk, memory))
                      /\ ScanFaults(walk, memory, found)
                   \/ step' = "alloc" /\ Tables(walk, memory) = {}
  <1> DEFINE found == syscall_table_finder(walk, memory)
             lost  == \/ found = FAULT
                      \/ found # NOT_FOUND /\ ScanFaults(walk, memory, found)
  <1>1. \/ /\ found = FAULT
           /\ \E a \in Addresses :
                /\ Overhang(walk, a) /\ Faults(walk, memory, a)
                /\ \A b \in Tables(walk, memory) : a < b
        \/ found = NOT_FOUND /\ Tables(walk, memory) = {}
        \/ /\ found \in Addresses /\ found \in Tables(walk, memory)
           /\ found = Min(Tables(walk, memory))
    BY FinderResult DEF LoaderInv, LoaderOK
  <1>2. IF found = NOT_FOUND \/ lost
        THEN /\ step' = IF lost THEN "oops" ELSE "alloc"
             /\ UNCHANGED <<tbl, ni, free_entries>>
        ELSE /\ step' = "alloc" /\ tbl' = found
             /\ ni' = memory[found + FIRST_NI_SYSCALL]
             /\ free_entries' = FreeEntries(memory, found)
    BY DEF Find, table
  <1>3. FAULT \notin Addresses /\ NOT_FOUND \notin Addresses /\ FAULT # NOT_FOUND
    BY AddressType DEF FAULT, NOT_FOUND
  <1>4. CASE found = FAULT
    BY <1>1, <1>2, <1>3, <1>4, SMT
  <1>5. CASE found = NOT_FOUND
    BY <1>1, <1>2, <1>3, <1>5
  <1>6. CASE found \in Addresses
    BY <1>1, <1>2, <1>3, <1>6
  <1> QED
    BY <1>1, <1>4, <1>5, <1>6

LEMMA FindFound ==
  ASSUME LoaderInv, Find PROVE LoaderInv'
  <1>1. /\ walk \in PageTables /\ tbl = NONE /\ mod = "coming" /\ step = "find"
    BY DEF LoaderInv, LoaderOK, TableFound, Find
  <1>2. \A x \in Addresses : memory[x] \notin Ours
    BY <1>1 DEF LoaderInv, OurEntries, Installed
  <1>3. UNCHANGED <<walk, memory, mod, k>>
    BY DEF Find, machine
  <1>4. /\ step' \in {"oops", "alloc"}
        /\ tbl' # NONE => ni' \in Word \ Ours
    BY <1>1, <1>2, FindOutcome, PatternValue
  <1>5. LoaderOK' /\ TableFound'
    BY <1>1, <1>3, <1>4 DEF LoaderInv, LoaderOK, Patched, TableFound
  <1>6. OurEntries'
    BY <1>2, <1>3 DEF OurEntries
  <1> QED
    BY <1>5, <1>6 DEF LoaderInv

\* The entries, one after the other.
LEMMA NextEntryOf ==
  ASSUME k \in 1 .. 4, NEW this, NEW after, NextEntry(this, after)
  PROVE  \/ k < 4 /\ k' = k + 1 /\ step' = this
         \/ k = 4 /\ k' = 1 /\ step' = after
  BY Values DEF NextEntry

LEMMA InstallTestEntries ==
  ASSUME LoaderInv, InstallTest PROVE LoaderInv'
  <1>1. /\ mod = "coming" /\ step = "install" /\ k \in 1 .. 4
        /\ UNCHANGED <<walk, memory, mod, tbl, ni, free_entries>>
    BY DEF InstallTest, LoaderInv, LoaderOK, machine, table
  <1>2. \/ step' = "install_write" /\ k' = k
        \/ k < 4 /\ k' = k + 1 /\ step' = "install"
        \/ k = 4 /\ k' = 1 /\ step' = "driver"
    BY <1>1, NextEntryOf DEF InstallTest
  <1>3. LoaderOK' /\ TableFound'
    BY <1>1, <1>2 DEF LoaderInv, LoaderOK, TableFound, Patched
  <1>4. ASSUME NEW j \in 1 .. 4, Installed(j) PROVE Installed(j)'
    BY <1>1, <1>2, <1>4 DEF Installed
  <1>5. OurEntries'
    BY <1>1, <1>4 DEF LoaderInv, OurEntries
  <1> QED
    BY <1>3, <1>5 DEF LoaderInv

LEMMA InstallWriteEntries ==
  ASSUME LoaderInv, InstallWrite PROVE LoaderInv'
  <1>1. /\ mod = "coming" /\ step = "install_write" /\ k \in 1 .. 4
        /\ memory \in [Addresses -> Word]
        /\ UNCHANGED <<walk, mod, tbl, ni, free_entries>>
    BY DEF InstallWrite, LoaderInv, LoaderOK, table
  <1>2. \/ k < 4 /\ k' = k + 1 /\ step' = "install"
        \/ k = 4 /\ k' = 1 /\ step' = "driver"
    BY <1>1, NextEntryOf DEF InstallWrite
  <1>3. /\ memory' \in [Addresses -> Word]
        /\ \A a \in Addresses : \/ memory'[a] = memory[a]
                                \/ a = Entry /\ memory'[a] = Calls[k]
    BY <1>1, Values DEF InstallWrite
  <1>4. LoaderOK' /\ TableFound'
    BY <1>1, <1>2, <1>3 DEF LoaderInv, LoaderOK, TableFound, Patched
  <1>5. ASSUME NEW a \in Addresses, memory'[a] \in Ours
        PROVE  \E j \in 1 .. 4 : /\ a = tbl' + free_entries'[j]
                                 /\ memory'[a] = Calls[j] /\ Installed(j)'
    <2>1. CASE memory'[a] = memory[a]
      <3>1. PICK j \in 1 .. 4 : /\ a = tbl + free_entries[j]
                                /\ memory[a] = Calls[j] /\ Installed(j)
        BY <1>5, <2>1 DEF LoaderInv, OurEntries
      <3>2. Installed(j)'
        BY <1>1, <1>2, <3>1 DEF Installed
      <3> QED
        BY <1>1, <2>1, <3>1, <3>2
    <2>2. CASE a = Entry /\ memory'[a] = Calls[k]
      <3>1. PICK j \in 1 .. 4 : j = k
        BY <1>1
      <3>2. Installed(j)'
        BY <1>1, <1>2, <3>1 DEF Installed
      <3> QED
        BY <1>1, <2>2, <3>1, <3>2 DEF Entry
    <2> QED
      BY <1>3, <2>1, <2>2
  <1> QED
    BY <1>4, <1>5 DEF LoaderInv, OurEntries

LEMMA UninstallTestEntries ==
  ASSUME LoaderInv, UninstallTest PROVE LoaderInv'
  <1>1. /\ mod = "going" /\ step = "uninstall" /\ k \in 1 .. 4
        /\ UNCHANGED <<walk, memory, mod, tbl, ni, free_entries>>
    BY DEF UninstallTest, LoaderInv, LoaderOK, machine, table
  <1>2. \/ step' = "uninstall_write" /\ k' = k
        \/ /\ memory[Entry] # Calls[k]
           /\ \/ k < 4 /\ k' = k + 1 /\ step' = "uninstall"
              \/ k = 4 /\ k' = 1 /\ step' = "done"
    BY <1>1, NextEntryOf DEF UninstallTest
  <1>3. LoaderOK' /\ TableFound'
    BY <1>1, <1>2 DEF LoaderInv, LoaderOK, TableFound, Patched
  <1>4. ASSUME NEW a \in Addresses, memory[a] \in Ours
        PROVE  \E j \in 1 .. 4 : /\ a = tbl + free_entries[j]
                                 /\ memory[a] = Calls[j] /\ Installed(j)'
    <2>1. PICK j \in 1 .. 4 : /\ a = tbl + free_entries[j]
                              /\ memory[a] = Calls[j] /\ Installed(j)
      BY <1>4 DEF LoaderInv, OurEntries
    <2>2. CASE step' = "uninstall_write" /\ k' = k
      BY <1>1, <2>1, <2>2 DEF Installed
    <2>3. CASE ~(step' = "uninstall_write" /\ k' = k)
      <3>1. j # k
        BY <1>2, <2>1, <2>3 DEF Entry
      <3> QED
        BY <1>1, <1>2, <2>1, <2>3, <3>1 DEF Installed
    <2> QED
      BY <2>2, <2>3
  <1>5. OurEntries'
    BY <1>1, <1>4 DEF OurEntries
  <1> QED
    BY <1>3, <1>5 DEF LoaderInv

LEMMA UninstallWriteEntries ==
  ASSUME LoaderInv, UninstallWrite PROVE LoaderInv'
  <1>1. /\ mod = "going" /\ step = "uninstall_write" /\ k \in 1 .. 4
        /\ memory \in [Addresses -> Word] /\ ni \in Word \ Ours
        /\ UNCHANGED <<walk, mod, tbl, ni, free_entries>>
    BY DEF UninstallWrite, LoaderInv, LoaderOK, TableFound, Patched, table
  <1>2. \/ k < 4 /\ k' = k + 1 /\ step' = "uninstall"
        \/ k = 4 /\ k' = 1 /\ step' = "done"
    BY <1>1, NextEntryOf DEF UninstallWrite
  <1>3. /\ memory' \in [Addresses -> Word]
        /\ \A a \in Addresses : memory'[a] = IF a = Entry THEN ni ELSE memory[a]
    BY <1>1 DEF UninstallWrite
  <1>4. LoaderOK' /\ TableFound'
    BY <1>1, <1>2, <1>3 DEF LoaderInv, LoaderOK, TableFound, Patched
  <1>5. ASSUME NEW a \in Addresses, memory'[a] \in Ours
        PROVE  \E j \in 1 .. 4 : /\ a = tbl' + free_entries'[j]
                                 /\ memory'[a] = Calls[j] /\ Installed(j)'
    <2>1. memory'[a] = memory[a] /\ a # Entry
      BY <1>1, <1>3, <1>5
    <2>2. PICK j \in 1 .. 4 : /\ a = tbl + free_entries[j]
                              /\ memory[a] = Calls[j] /\ Installed(j)
      BY <1>5, <2>1 DEF LoaderInv, OurEntries
    <2>3. j # k
      BY <2>1, <2>2 DEF Entry
    <2>4. Installed(j)'
      BY <1>1, <1>2, <2>2, <2>3 DEF Installed
    <2> QED
      BY <1>1, <2>1, <2>2, <2>4
  <1> QED
    BY <1>4, <1>5 DEF LoaderInv, OurEntries

\* Another module writes no pointer into this one.
LEMMA OtherEntries ==
  ASSUME LoaderInv, NEW a \in Addresses, OtherInstall(a) \/ OtherUninstall(a)
  PROVE  LoaderInv'
  <1>1. /\ UNCHANGED <<walk, mod, step, k, tbl, ni, free_entries>>
        /\ memory \in [Addresses -> Word]
        /\ \/ memory' = [memory EXCEPT ![a] = FOREIGN]
           \/ memory' = [memory EXCEPT ![a] = NI]
    BY DEF OtherInstall, OtherUninstall, LoaderInv, LoaderOK, loader, table
  <1>2. /\ memory' \in [Addresses -> Word]
        /\ \A x \in Addresses : memory'[x] \in Ours => memory'[x] = memory[x]
    BY <1>1, Values
  <1>3. LoaderOK' /\ TableFound'
    BY <1>1, <1>2 DEF LoaderInv, LoaderOK, TableFound, Patched
  <1>4. OurEntries'
    BY <1>1, <1>2 DEF LoaderInv, OurEntries, Installed
  <1> QED
    BY <1>3, <1>4 DEF LoaderInv

\* The other steps of start and end leave the memory alone.
LEMMA LoaderSteps ==
  ASSUME LoaderInv,
         \/ Load \/ StartFails \/ Alloc \/ init_device_driver \/ Unload
         \/ FreeServices \/ Unloaded
  PROVE  LoaderInv'
  <1>0. LoaderOK /\ TableFound
    BY DEF LoaderInv
  <1>1. LoaderOK' /\ TableFound'
    <2> USE <1>0 DEF LoaderOK, TableFound, Patched, machine, table
    <2>1. CASE Load
      BY <2>1 DEF Load
    <2>2. CASE StartFails
      BY <2>2 DEF StartFails
    <2>3. CASE Alloc
      BY <2>3 DEF Alloc
    <2>4. CASE init_device_driver
      BY <2>4 DEF init_device_driver
    <2>5. CASE Unload
      BY <2>5 DEF Unload
    <2>6. CASE FreeServices
      BY <2>6 DEF FreeServices
    <2>7. CASE Unloaded
      BY <2>7 DEF Unloaded
    <2> QED
      BY <2>1, <2>2, <2>3, <2>4, <2>5, <2>6, <2>7
  <1>2. memory' = memory
    BY DEF Load, StartFails, Alloc, init_device_driver, Unload, FreeServices,
       Unloaded, machine
  <1>3. ASSUME NEW j \in 1 .. 4, Installed(j)
        PROVE  Installed(j)' /\ UNCHANGED <<tbl, free_entries>>
    BY <1>0, <1>3 DEF Load, StartFails, Alloc, init_device_driver, Unload,
       FreeServices, Unloaded, Installed, LoaderOK, table
  <1>4. OurEntries'
    BY <1>2, <1>3 DEF LoaderInv, OurEntries
  <1> QED
    BY <1>1, <1>4 DEF LoaderInv

LEMMA LoaderStep == ASSUME LoaderInv, [Next]_vars PROVE LoaderInv'
  <1>1. CASE UNCHANGED vars
    BY <1>1 DEF vars, machine, loader, table, LoaderInv, LoaderOK, TableFound,
       Patched, OurEntries, Installed
  <1> QED
    BY <1>1, FindFound, InstallTestEntries, InstallWriteEntries,
       UninstallTestEntries, UninstallWriteEntries, OtherEntries, LoaderSteps
       DEF Next, Lifecycle, install_syscall, uninstall_syscall

LEMMA LoaderAlways == Spec => []LoaderInv
  BY LoaderInit, LoaderStep, PTL DEF Spec

\* end finds every entry that start has written, whatever other modules have
\* done to the table in the meantime.
THEOREM EntriesRemoved == Spec => []TableRestored
  <1>1. LoaderInv => TableRestored
    BY DEF LoaderInv, LoaderOK, OurEntries, Installed, TableRestored, Loaded
  <1> QED
    BY <1>1, LoaderAlways, PTL

\* syscall_table_finder returns the first table that can be read.  start faults
\* only before it, where the pattern hangs over into a page without a frame, or
\* where the scan of its entries does.
THEOREM FinderReturnsFirst == Spec => FinderExact
  <1> DEFINE Exact ==
        step = "find" /\ step' # "find" =>
          LET tables == Tables(walk, memory)
          IN IF step' = "oops"
             THEN \/ \E a \in Addresses :
                       /\ Overhang(walk, a) /\ Faults(walk, memory, a)
                       /\ \A b \in tables : a < b
                  \/ /\ tables # {}
                     /\ ShortOfEntries(walk, memory, Min(tables))
             ELSE tbl' = IF tables = {} THEN NONE ELSE Min(tables)
  <1>1. LoaderInv /\ [Next]_vars => [Exact]_vars
    <2> SUFFICES ASSUME LoaderInv, Next, step = "find", step' # "find"
                 PROVE  Exact
      OBVIOUS
    <2>1. Find
      BY DEF Next, Lifecycle, Load, StartFails, Alloc, install_syscall,
         InstallTest, InstallWrite, init_device_driver, Unload, FreeServices,
         uninstall_syscall, UninstallTest, UninstallWrite, Unloaded,
         OtherInstall, OtherUninstall, loader, LoaderInv, LoaderOK
    <2>2. tbl = NONE /\ walk \in PageTables
      BY DEF LoaderInv, LoaderOK, TableFound
    <2> DEFINE found == syscall_table_finder(walk, memory)
    <2>3. found \in Tables(walk, memory) /\ ScanFaults(walk, memory, found)
            => ShortOfEntries(walk, memory, found)
      BY <2>2, ScanShort
    <2> HIDE DEF found
    <2> QED
      BY <2>1, <2>2, <2>3, FindOutcome DEF found
  <1> QED
    BY <1>1, LoaderAlways, PTL DEF Spec, FinderExact

-----------------------------------------------------------------------------
\* The types of the variables, and the entries that start reserves.

TableTypes ==
  /\ tbl \in Addresses \cup {NONE} /\ ni \in Functions \cup {NI, NONE}
  /\ free_entries \in Seq(0 .. ENTRIES_TO_EXPLORE - 1)
  /\ Len(free_entries) <= MAX_FREE
  /\ EntriesReserved

TypesInv == LoaderInv /\ TableTypes

LEMMA FindTypes ==
  ASSUME TypesInv, Find PROVE TableTypes'
  <1> DEFINE found == syscall_table_finder(walk, memory)
  <1>1. walk \in PageTables /\ memory \in [Addresses -> Word]
    BY DEF TypesInv, LoaderInv, LoaderOK
  <1>2. \/ UNCHANGED <<tbl, ni, free_entries>>
        \/ /\ found \in Tables(walk, memory) /\ found \in Addresses
           /\ tbl' = found /\ ni' = memory[found + FIRST_NI_SYSCALL]
           /\ free_entries' = FreeEntries(memory, found)
    BY FindOutcome DEF TypesInv
  <1> HIDE DEF found
  <1>3. CASE UNCHANGED <<tbl, ni, free_entries>>
    BY <1>3 DEF TypesInv, TableTypes, EntriesReserved
  <1>4. CASE /\ found \in Addresses /\ found \in Tables(walk, memory)
             /\ tbl' = found /\ ni' = memory[found + FIRST_NI_SYSCALL]
             /\ free_entries' = FreeEntries(memory, found)
    <2>1. ni' \in Functions \cup {NI, NONE}
      BY <1>4, PatternValue DEF TypesInv, Word
    <2>2. /\ free_entries' \in Seq(0 .. ENTRIES_TO_EXPLORE - 1)
          /\ Len(free_entries') <= MAX_FREE
          /\ \A i \in 1 .. 4 : /\ i \in DOMAIN (free_entries')
                               /\ found + free_entries'[i] \in DOMAIN memory
          /\ \A i, j \in 1 .. 4 : i < j => free_entries'[i] < free_entries'[j]
      BY <1>4, FreeEntriesOf
    <2>3. EntriesReserved'
      BY <1>1, <1>4, <2>2, Values DEF EntriesReserved
    <2> QED
      BY <1>4, <2>1, <2>2, <2>3 DEF TableTypes
  <1> QED
    BY <1>2, <1>3, <1>4

LEMMA TableTypesStep == ASSUME TypesInv, [Next]_vars PROVE TableTypes'
  <1>1. CASE UNCHANGED table
    BY <1>1 DEF TypesInv, TableTypes, EntriesReserved, table
  <1>2. CASE StartFails \/ Unloaded
    <2>1. tbl' = NONE /\ ni' = NONE /\ free_entries' = << >>
      BY <1>2 DEF StartFails, Unloaded
    <2> QED
      BY <2>1, SyscallTableAssumption, EmptySeq DEF TableTypes, EntriesReserved
  <1>3. CASE Find
    BY <1>3, FindTypes
  <1>4. UNCHANGED table \/ StartFails \/ Unloaded \/ Find
    BY DEF Next, Lifecycle, Load, Alloc, install_syscall, InstallTest,
       InstallWrite, init_device_driver, Unload, FreeServices,
       uninstall_syscall, UninstallTest, UninstallWrite, OtherInstall,
       OtherUninstall, loader, vars
  <1> QED
    BY <1>1, <1>2, <1>3, <1>4

LEMMA TypesAlways == Spec => []TypesInv
  <1>1. Init => TypesInv
    <2>1. Init => TableTypes
      BY SyscallTableAssumption, EmptySeq
         DEF Init, TableTypes, EntriesReserved
    <2> QED
      BY <2>1, LoaderInit DEF TypesInv
  <1>2. TypesInv /\ [Next]_vars => TypesInv'
    BY LoaderStep, TableTypesStep DEF TypesInv
  <1> QED
    BY <1>1, <1>2, PTL DEF Spec

\* Every variable has its type; in particular the free entries that were found
\* fit into their array.
THEOREM ModuleTypes == Spec => []TypeOK
  <1>1. TypesInv => TypeOK
    BY Values DEF TypesInv, TableTypes, LoaderInv, LoaderOK, TypeOK
  <1> QED
    BY <1>1, TypesAlways, PTL

\* Whatever table start finds has an entry for each of the four calls, in the
\* memory that was searched, although start does not ask how many were found.
THEOREM EntriesForEach == Spec => []EntriesReserved
  <1>1. TypesInv => EntriesReserved
    BY DEF TypesInv, TableTypes
  <1> QED
    BY <1>1, TypesAlways, PTL
=============================================================================
