------------------------------ MODULE PageWalk ------------------------------
(***************************************************************************)
(* vtpmo (src/lib/vtpm.c): does a virtual page have a frame?  The module   *)
(* asks before it touches a page while it looks for the table of the       *)
(* system calls.  The indices of an address keep their order but are       *)
(* scaled down: TABLE entries per page table instead of 512.               *)
(***************************************************************************)
EXTENDS Integers

CONSTANTS
  Pages,           \* page numbers, from 0, of the range that is searched
  TABLE            \* entries of a page table

ASSUME PagesAssumption == Pages \subseteq Nat /\ TABLE \in Nat \ {0}

\* An entry: without the bit VALID, with it, or with LH_MAPPING as well.
INVALID == "invalid"
VALID   == "valid"
LARGE   == "large"

NO_MAP == "no map"

PTE_indexof(p) == p % TABLE
PDE_indexof(p) == (p \div TABLE) % TABLE
PDP_indexof(p) == (p \div (TABLE * TABLE)) % TABLE
Indices == 0 .. TABLE - 1

\* The page tables below the PML4 entry of the range.
PageTables ==
  [pml4 : {INVALID, VALID},
   pdp  : [Indices -> {INVALID, VALID}],
   pde  : [Indices -> [Indices -> {INVALID, VALID, LARGE}]],
   pte  : [Indices -> [Indices -> [Indices -> {INVALID, VALID}]]]]

PdeOf(w, p) == w.pde[PDP_indexof(p)][PDE_indexof(p)]
PteOf(w, p) == w.pte[PDP_indexof(p)][PDE_indexof(p)][PTE_indexof(p)]

\* Wrong version: large pages are not recognised.
VtpmoSmallPages(w, p) ==
  IF \/ w.pml4 = INVALID
     \/ w.pdp[PDP_indexof(p)] = INVALID
     \/ PdeOf(w, p) = INVALID
     \/ PteOf(w, p) = INVALID
  THEN NO_MAP ELSE "frame"

\* The frame number itself is never used.  The walk reads cr3 and the tables
\* while nobody else of this module runs; a PDP entry with LH_MAPPING (1 GB
\* pages), for which the code has no test, is left out.
vtpmo(w, p) ==
  IF \/ w.pml4 = INVALID
     \/ w.pdp[PDP_indexof(p)] = INVALID
     \/ PdeOf(w, p) = INVALID
     \/ PdeOf(w, p) # LARGE /\ PteOf(w, p) = INVALID
  THEN NO_MAP ELSE "frame"

\* What the processor reads with these tables.
HasFrame(w, p) ==
  /\ {w.pml4, w.pdp[PDP_indexof(p)]} = {VALID}
  /\ \/ PdeOf(w, p) = LARGE
     \/ PdeOf(w, p) = VALID /\ PteOf(w, p) = VALID
=============================================================================
