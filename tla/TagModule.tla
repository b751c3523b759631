----------------------------- MODULE TagModule ------------------------------
(***************************************************************************)
(* The life of the kernel module, start and end in src/tag_service.c with  *)
(* install_syscall and uninstall_syscall, as far as the table of the       *)
(* system calls goes: which table is found, and what is in its entries     *)
(* while other modules patch it too.  What the calls do is TagService,     *)
(* what they do to the reference count TagReferences.                      *)
(***************************************************************************)
EXTENDS SyscallTable

CONSTANTS
  Calls,             \* the four functions, in the order of their installation
  FOREIGN,           \* a function of another module
  World,             \* page tables and memory: the states start() may meet
  NONE

Ours == Range(Calls)

ASSUME ModuleAssumption ==
  /\ Calls \in Seq(Functions) /\ Len(Calls) = 4 /\ FOREIGN \in Functions \ Ours
  /\ World \subseteq PageTables \X [Addresses -> Word \ (Ours \cup {FOREIGN})]
  /\ NONE \notin Addresses
  /\ Len(Calls) <= Len(NiSyscalls) /\ Len(Calls) <= MAX_FREE

VARIABLES
  walk, memory,    \* page tables; words of the range that is searched
  mod, step, k,    \* state of the module; statement of start or end, entry
  tbl, ni,         \* hacked_syscall_tbl, hacked_ni_syscall
  free_entries     \* indices of the entries that were free

machine == <<walk, memory>>
table   == <<tbl, ni, free_entries>>
loader  == <<mod, step, k, table>>
vars    == <<machine, loader>>

Init ==
  /\ \E w \in World : walk = w[1] /\ memory = w[2]
  /\ mod = "unloaded" /\ step = "none" /\ k = 1
  /\ tbl = NONE /\ ni = NONE /\ free_entries = << >>

Loaded == mod # "unloaded"
Entry  == tbl + free_entries[k]

\* The entries are installed, and uninstalled, one after the other.
NextEntry(this, after) ==
  IF k < Len(Calls) THEN k' = k + 1 /\ step' = this ELSE k' = 1 /\ step' = after

-----------------------------------------------------------------------------
\* start().

Load ==
  /\ mod = "unloaded"
  /\ mod' = "coming" /\ step' = "find"
  /\ UNCHANGED <<machine, k, table>>

\* A page fault ends it: in the search, or in the scan of the entries of the
\* table that was found.
Find ==
  /\ mod = "coming" /\ step = "find"
  /\ LET found == syscall_table_finder(walk, memory)
         lost  == \/ found = FAULT
                  \/ found # NOT_FOUND /\ ScanFaults(walk, memory, found)
     IN IF found = NOT_FOUND \/ lost
        THEN /\ step' = IF lost THEN "oops" ELSE "alloc"
             /\ UNCHANGED table
        ELSE /\ step' = "alloc"
             /\ tbl' = found
             /\ ni' = memory[found + FIRST_NI_SYSCALL]
             /\ free_entries' = FreeEntries(memory, found)
  /\ UNCHANGED <<machine, mod, k>>

\* No table, or no memory: MOUNT_FAILURE.
StartFails ==
  /\ mod = "coming" /\ step = "alloc"
  /\ mod' = "unloaded" /\ step' = "none"
  /\ tbl' = NONE /\ ni' = NONE /\ free_entries' = << >>
  /\ UNCHANGED <<machine, k>>

Alloc ==
  /\ mod = "coming" /\ step = "alloc" /\ tbl # NONE
  /\ step' = "install"
  /\ UNCHANGED <<machine, mod, k, table>>

\* install_syscall tests the entry; start() ignores that it fails ...
InstallTest ==
  /\ mod = "coming" /\ step = "install"
  /\ IF memory[Entry] = ni
     THEN step' = "install_write" /\ UNCHANGED k
     ELSE NextEntry("install", "driver")
  /\ UNCHANGED <<machine, mod, table>>

\* ... and writes it, whatever another processor has put there meanwhile.
InstallWrite ==
  /\ mod = "coming" /\ step = "install_write"
  /\ memory' = [memory EXCEPT ![Entry] = Calls[k]]
  /\ NextEntry("install", "driver")
  /\ UNCHANGED <<walk, mod, table>>

install_syscall == InstallTest \/ InstallWrite

\* A failure of init_device_driver is ignored too.
init_device_driver ==
  /\ mod = "coming" /\ step = "driver"
  /\ mod' = "live" /\ step' = "none"
  /\ UNCHANGED <<machine, k, table>>

-----------------------------------------------------------------------------
\* end(), which the kernel calls when nobody holds a reference.

Unload ==
  /\ mod = "live"
  /\ mod' = "going" /\ step' = "free"
  /\ UNCHANGED <<machine, k, table>>

\* The devices, the services, their array and the mutexes.
FreeServices ==
  /\ mod = "going" /\ step = "free"
  /\ step' = "uninstall"
  /\ UNCHANGED <<machine, mod, k, table>>

\* Wrong version: the entries are searched in the opposite order.
UninstallTestReversed ==
  /\ mod = "going" /\ step = "uninstall"
  /\ IF memory[tbl + free_entries[Len(Calls) + 1 - k]] = Calls[k]
     THEN step' = "uninstall_write" /\ UNCHANGED k
     ELSE NextEntry("uninstall", "done")
  /\ UNCHANGED <<machine, mod, table>>

\* uninstall_syscall, in the same two steps.
UninstallTest ==
  /\ mod = "going" /\ step = "uninstall"
  /\ IF memory[Entry] = Calls[k]
     THEN step' = "uninstall_write" /\ UNCHANGED k
     ELSE NextEntry("uninstall", "done")
  /\ UNCHANGED <<machine, mod, table>>

UninstallWrite ==
  /\ mod = "going" /\ step = "uninstall_write"
  /\ memory' = [memory EXCEPT ![Entry] = ni]
  /\ NextEntry("uninstall", "done")
  /\ UNCHANGED <<walk, mod, table>>

uninstall_syscall == UninstallTest \/ UninstallWrite

\* end() has returned: the code and the data of the module are gone.
Unloaded ==
  /\ mod = "going" /\ step = "done"
  /\ mod' = "unloaded" /\ step' = "none"
  /\ tbl' = NONE /\ ni' = NONE /\ free_entries' = << >>
  /\ UNCHANGED <<machine, k>>

Lifecycle == \/ Load \/ Find \/ StartFails \/ Alloc \/ install_syscall
             \/ init_device_driver \/ Unload \/ FreeServices
             \/ uninstall_syscall \/ Unloaded

-----------------------------------------------------------------------------
\* Another module takes an entry and gives it back.  It may test and write as
\* this one does, and so write over an entry that was free when it looked.

OtherInstall(a) ==
  /\ memory[a] \in Ours \cup {NI} /\ FOREIGN \notin Range(memory)
  /\ memory' = [memory EXCEPT ![a] = FOREIGN]
  /\ UNCHANGED <<walk, loader>>

OtherUninstall(a) ==
  /\ memory[a] \in Ours \cup {FOREIGN}
  /\ memory' = [memory EXCEPT ![a] = NI]
  /\ UNCHANGED <<walk, loader>>

Next ==
  \/ Lifecycle
  \/ \E a \in Addresses : OtherInstall(a) \/ OtherUninstall(a)

Spec == Init /\ [][Next]_vars

-----------------------------------------------------------------------------
\* Every variable has its type; in particular the free entries fit into their
\* array.
TypeOK ==
  /\ walk \in PageTables
  /\ memory \in [Addresses -> Word]
  /\ mod \in {"unloaded", "coming", "live", "going"}
  /\ step \in {"none", "find", "alloc", "install", "install_write", "driver",
               "free", "uninstall", "uninstall_write", "done", "oops"}
  /\ k \in DOMAIN Calls
  /\ tbl \in Addresses \cup {NONE} /\ ni \in Functions \cup {NI, NONE}
  /\ free_entries \in Seq(0 .. ENTRIES_TO_EXPLORE - 1)
  /\ Len(free_entries) <= MAX_FREE

\* start() installs into the first four free entries without asking how many
\* were found: whatever table is found has them, one for each call, in the
\* memory that was searched.
EntriesReserved ==
  tbl # NONE =>
    /\ \A i \in DOMAIN Calls : /\ i \in DOMAIN free_entries
                               /\ tbl + free_entries[i] \in Addresses
    /\ \A i, j \in DOMAIN Calls : i < j => free_entries[i] < free_entries[j]

\* syscall_table_finder skips the pages without a frame and gives a page up
\* where the table would reach into one: it returns the first table whose
\* pattern can be read.  It faults in two cases only: before it has found it,
\* in a page without a frame that begins after the second entry of the pattern
\* and before the last one; or, once it has the table, in one that begins
\* before the last entry to be explored, if the entries before that page do not
\* fill the array.
FinderExact ==
  [][step = "find" /\ step' # "find" =>
       LET tables == Tables(walk, memory)
       IN IF step' = "oops"
          THEN \/ \E a \in Addresses :
                    /\ Overhang(walk, a) /\ Faults(walk, memory, a)
                    /\ \A b \in tables : a < b
               \/ /\ tables # {}
                  /\ ShortOfEntries(walk, memory, Min(tables))
          ELSE tbl' = IF tables = {} THEN NONE ELSE Min(tables)]_vars

\* The entry of a system call never outlives the code it points to: end()
\* finds every entry that start() has written, though other modules take free
\* entries and write over those of this one, between the test of an entry and
\* the write too.
TableRestored == ~Loaded => \A a \in Addresses : memory[a] \notin Ours
=============================================================================
