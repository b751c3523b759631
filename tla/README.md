# TLA+ model of the TAG-based message exchange

The repository is a Linux kernel module (`src/tag_service.c`, `src/tag_device_driver.c`,
`src/lib/`) that adds four system calls: `tag_get` creates or opens a *TAG service*, `tag_send`
delivers a message to the threads waiting on a level of the service, `tag_receive` waits for one,
`tag_ctl` removes a service or awakes all its waiters.  This directory holds a TLA+ model of it,
the TLC configurations that check it and TLAPS proofs about it.

## 1. The system

### Components, state, operations

| component | state | operations |
|---|---|---|
| **Table of TAG services** (`tag_service.c`) | `tsm.all_tag_services[]`, `first_free_entry`, `remaining_entries`, one mutex per tag `access_lock[]` | `tag_get` (CREATE_TAG, OPEN_TAG), `find_first_entry_available`, `hash_function` |
| **Exchange** (`tag_service.c`) | per service: `thread_waiting_message_count`, `awake_request`, `lazy_deleted`; per level: `message_ready`, `message`, `thread_waiting`; one wait queue `the_queue` | `tag_send`, `tag_receive`, RCU callback `free_after_send` |
| **Control** (`tag_service.c`) | the same | `tag_ctl` (REMOVE_TAG, AWAKE_ALL), RCU callback `reset_awake_condition` |
| **Char device driver** (`tag_device_driver.c`) | per tag: the text `dm->content[]`, `device_lock[]`, `cdev[]`; open file sessions | `ts_create_char_device_file`, `ts_destroy_char_device_file`, `update_chrdev`, `ts_open`, `ts_read` |
| **Module lifecycle** (`tag_service.c`) | the module reference count, everything above | `start`, `end`; `try_module_get` and `module_put` in the four calls |
| **System call table** (`lib/usctm.c`) | the table, the free entries, CR0.WP | `syscall_table_finder`, `install_syscall`, `uninstall_syscall` |
| **Page walk** (`lib/vtpm.c`) | none | `vtpmo` |
| **User programs and tests** (`user/`) | none of the kernel's | clients of the four system calls |

### How they interact

* `tag_get`, `tag_send` and `tag_ctl` exclude each other through `access_lock[tag]`.
  `tag_receive` takes no lock at all: it counts itself with atomic operations, sleeps on
  `the_queue`, and reads the message inside an RCU read section.
* `tag_send` and AWAKE_ALL **return with the mutex locked** when receivers are waiting: the RCU
  callback they queue withdraws the message (or the request) after the grace period and unlocks.
* REMOVE_TAG marks the service deleted under the lock, *unlocks*, and only then destroys the device,
  empties the table entry, searches a free entry, increments the counter and frees the service.
* Callers load the pointer of the service from the table *before* they wait for the lock.
* `tag_get` and `tag_ctl` call the device driver to create and destroy the device of a tag,
  `tag_receive` to rewrite the number of waiting threads in its text.

### What is hard

The order of wake-up, test of the condition, entry into the read section and grace period; the
mutex that changes hands; the window between the unlock and the end of a removal; pointers that
are older than the lock; a lock-free counter that decides about removal; a search for a free entry
without a lock; failing allocations; signals; a full table; keys of either sign; the tag 512, which
two of the four calls accept.  `PROJECT.json` lists each hazard at its line, with the properties
that watch it.

### What makes each component correct

* *Table*: points to live services at their own tag, loses none, the count of free entries is
  exact (`TableIntegrity`, `RemainingExact`).
* *Locks*: exactly one owner, thread or callback, always given back (`LockHandOver`,
  `LockReleased`).
* *Exchange*: what is READY belongs to an exchange in progress, stays unchanged while it is,
  and stays for the readers that come to it (`ExchangeWindow`, `MessageStable`, `ReaderProtected`);
  the count that decides about removal is exact (`CountExact`), or wrong by the reuse of memory alone
  (`CountKept`).
* *Control*: a service is removed once, never under an exchange or a pending callback, and only by
  somebody the permission covers (`RemovalExclusive`, `DeferredWorkOnLiveService`,
  `PermissionUnderLock`).
* *Progress*: calls end (`SendReturns`, `CtlReturns`, `SignalledReceiverReturns`).
* *All of it, as a sender and a receiver see it*: `MessageExchange`, which `TagService` implements
  (`ImplementsExchange`).
* *Device*: no update is lost, the text is the one the service would be formatted to, buffers are
  neither lost nor published unwritten, `device_lock` is given back (`LineExact`, `TextExact`,
  `LinesKept`, `NoBufferLeak`, `ContentPublished`, `DeviceLockReleased`).
* *Lifecycle*: every call gives back the reference it took, on each of its exits but the one that
  is known not to (`RefsExact`).
* *System call table*: the table that is found is the first one and has an entry for each call, end()
  restores it (`FinderExact`, `EntriesReserved`, `TableRestored`).

## 2. Modules

| module | content |
|---|---|
| `TagState` | constants and assumptions, variables, `Init`, the C helpers, the kernel primitives, the forms of a thread's step |
| `TagService` | one action per access to shared state of the four system calls and the two callbacks; `Next`, `Spec`; before some actions, a wrong version of it that the specification does not use |
| `TagSafety` | groups of statements, `TypeOK`, safety invariants and action properties |
| `MessageExchange` | the abstract exchange: posts, awakenings and removals of a service one at a time, what a reader is promised |
| `TagRefinement` | the mapping from `TagService` to `MessageExchange` |
| `TagClaims` | fairness, progress properties, and claims of the README and the comments |
| `MCTagService` | who calls what in each run, symmetry and view |
| `TagServiceProofs` | proofs: types and control of the system calls |
| `TagLockProofs`, `TagLifeProofs` | proofs: the locks, the table and the life of the services; the counters of receivers and of free entries |
| `TagExchangeProofs`, `TagRefinementProofs` | proofs: flags and messages; `TagService` implements `MessageExchange` |
| `TagDevice`, `DeviceSafety`, `MCTagDevice` | the char device of one tag against the calls that create, update, read and destroy it; its properties; its instances |
| `TagDeviceProofs` | proofs: types, buffers and lines of the device |
| `DeviceText`, `MCDeviceText` | the characters of the device: formatting and splicing; its instance |
| `DeviceTextProofs` | proofs: what formatting and splicing leave in the device, after any updates |
| `PageWalk` | `vtpmo`, and what the processor reads with the same page tables |
| `SyscallTable` | the search for the system call table and its free entries |
| `TagModule`, `MCTagModule` | `start`, `end`, the table under other modules; its instance |
| `TagModuleProofs` | proofs: the search, the free entries, the table restored |
| `TagReferences`, `MCTagReferences` | the module's reference count: the exits of the four calls with a `module_put`; its instance |

`TagState`, `TagService`, `TagSafety`, `TagRefinement`, `TagClaims`, `MCTagService` each extend the one
before; the proof modules of the exchange extend `TagSafety`, `TagRefinementProofs` also
`TagRefinement`, and the others the model they are about.  `PageWalk`, `SyscallTable`, `TagModule` are
such a chain too, and `TagReferences` extends `TagService`.  The models of the exchange, of the device,
of its text and of the module's life are cut where the code couples them least: the device reads of a
service only its count per level, the text is one count per level to the device, and the system call
table knows nothing of the calls but the addresses of their functions.

### State of the exchange

| variable | code |
|---|---|
| `all_tag_services`, `first_free_entry`, `remaining_entries` | fields of `tsm` |
| `access_lock[x]` | owner of the mutex: `FREE`, a thread, or `RCU` once `tag_send` or AWAKE_ALL returned with it locked (the kernel's mutex keeps no such mark: it only says who has to unlock) |
| `allocated`, `svc`, `level` | the heap blocks of `struct my_tag_service` and their bytes, levels included |
| `callbacks` | queued `rcu_head`s: function, service, level, the readers still waited for |
| `asleep`, `signalled` | `the_queue`, pending signals |
| `pc`, `ts`, `local`, `ret` | per thread: statement, the variable `ts`, other locals and arguments, result |

### Actions of the exchange

The label of `pc` names the statement about to run: `get_`, `find_`, `open_`, `dev_` in `tag_get`,
`send_`, `recv_`, `ctl_`, `rm_` (REMOVE_TAG) and `aw_` (AWAKE_ALL).  A step is one access to shared
state, or several that no other thread can tell apart.  What is together in one step, and why:

* `CreatePublish`: the new block is private until the pointer is stored, and the mutex is held until
  the end; lock-free readers see only the pointer.
* the tests of `lazy_deleted` and permission in `SendRefused`, `SendAccepted`, `CtlRefused`,
  `CtlAccepted`: both fields change only under the same mutex (or when the block is reused).  In
  `tag_receive` the two tests and the count are three separate reads in the code; `ReceiveAccepted`
  joins the tests, `ReceiveEnter` comes later on its own.
* `ReceiveEnter` increments both counters: `thread_waiting` is read only by the device driver.
* `RemoveMark`: whoever waits for the mutex sees the mark.
* `SendDiscard`: the flag is cleared before the bytes; a reader that found READY earlier and copies
  later may get the old or the zeroed bytes, which is what a copy before or after the step gives.
  The same holds of `free_after_send`.

Copies of messages are two steps.  `SendCopy` makes the bytes `TORN` and `SendSize` makes them the
message. `ReceiveCopy` takes what it finds and `ReceiveRest` takes the rest: the message, if that is
still what is there, and `TORN` otherwise.  The test of READY (`ReceiveMessage`, `ReceiveNothing`), the
copy and `rcu_read_unlock` (`ReceiveUnlock`) are steps of their own, so that a reader of one exchange
may still be in its section when the next message is posted and `call_rcu` is called.  The device is
`TagDevice`'s; in this module it contributes `DeviceLoad` and `DeviceFill`, its second read of the
table.

### The abstract exchange

`MessageExchange` knows neither mutexes nor flags nor grace periods.  A service is absent, idle, posted,
asked (AWAKE_ALL) or removed, and goes from idle to one of the others and back: posts, awakenings and
removals exclude each other.  Whoever comes to read between `Post` and `Seal` (the store of READY and
`call_rcu`) is *due* the message: he leaves with that message, whole, or with nothing if a signal may
have come, and `Withdraw` waits for him.  A receiver that was reading already when the message was
posted, left over from an earlier exchange or awakened for nothing, may get the old message, parts of
two, or EINTR; `Post` chooses which of them will get the new one.  Who comes to read after `call_rcu`,
or on a removed service, may get anything.  That is as much as the code gives.  `TagRefinement` reads
the stage off `allocated`, `lazy_deleted`, `message_ready` and `awake_request`, the post off the level
that is READY, the receivers due off the readers of the queued `free_after_send` and off what they have
copied so far (`WillGet`), and the results off the threads between `rcu_read_unlock` and the return.
Sleepers are not in it: that they are reached is what `claim_send_reaches_waiters` refutes.

### The device

`TagDevice` has one tag (minors share nothing but the class).  `content` is `dm->content[minor]`,
`buffers` the text buffers allocated, `text` what is written in them, as one count per level and the
service they describe, `junk` the buffers with other bytes.  `mk_` labels are
`ts_create_char_device_file`, `up_` is `update_chrdev`, `rm_` REMOVE_TAG with
`ts_destroy_char_device_file`, `rc_` what `tag_receive` does around the updates, `rd_` `ts_read`. The
read of the count (`UpdateRead`) and of the table (`UpdateLoad`) come before the lock, as in the code;
building the new text and freeing the old one under it.  Threads that follow a null or freed pointer are
lost (`oops`) with the lock they hold; `DeviceLockReleased` exempts that (`NoOops`), the invariants do
not.  `LineExact` speaks of a device that was created for the service of the entry, while every counted
receiver is counted on that service (`Settled`): between its test of `lazy_deleted` and its count a
receiver may be overtaken by a removal, and then publishes the count of the removed service in the text
of the next one; and a creation that is overtaken leaves a device that the next `tag_get` inherits.
`kzalloc` does not reuse a service that a thread points to or a text describes: reuse is the subject of
`TagService`.  `InitOnAlloc` says whether `kmalloc` returns zeroed memory, which the driver does not ask
for: without it the first text and, through `strncat`, every update append to whatever the buffer holds;
`device` runs with it, so that `LineExact` has a text to speak of.  `update_chrdev` also waits for
`device_lock`: that wait is here, not in `TagService`.

`DeviceText` refines that text to characters: a digit is itself, the header's letters are all alike, and
so are tab, newline and minus.  `FirstText` formats a service as `ts_create_char_device_file` does, each
line cut by the size given to `snprintf`; `Splice` is `update_chrdev`: count newlines, go back to the
last tab, replace what is between.  At creation the code reads the count of a level twice, for the width
and for the line (lines 351 and 354); here it is read once.  Its reference is `Document`, the text the
README describes.  `WidthAssumption` says that a count fits into `waiting[10]` and the text into the
half buffers: with 512 tags, 32 levels and 4096 bytes it takes at most 961 of 2048 bytes for any key and
user, and no number of threads has ten digits.  A line that snprintf cut may keep no tab at all
(`TabKept` is false): with eleven characters of a negative key (`hash_function` gives tag 0 for a
negative multiple of 512) and a user id of one digit.  Then `update_chrdev` finds the last tab in the
header, whose end it overwrites, newline included; `LinesKept` holds in all other cases.

### The module's life

`TagModule` starts in any of a set of worlds, a world being page tables and the words of the range that
is searched.  Each statement of `start` and `end` that others can see is an action: search, allocation,
four installations, driver; devices and services, four entries, gone.  Installing an entry and taking it
out are two steps each, the test and the write.  Another module may at any time take an entry that is
free or holds one of the four functions, as its own test and write may overlap these in the same way,
and give it back as free.

`TagReferences` adds the reference count to `TagService`.  Each exit of the four calls has a `module_put` of
its own; the module lists them, by the statement they leave from and the result (`tag_get_puts`,
`tag_send_puts`, `tag_receive_puts`, `tag_ctl_puts`), and a step that ends a call gives a reference back
only if it is in the list.  `SendBadTag`, the exit of `tag_send` that has none, leaks.  Striking out any
of the 32 entries makes `RefsExact` fail in the run.

`SyscallTable` abstracts words to `NI` (the address of `sys_ni_syscall`), other functions, and junk
(null, not aligned, or not in the kernel).  `Faults` follows the order of the comparisons: a word behind
the first difference is not read.  `ScanFaults` is the second place where the search may fault: the scan
of the free entries reads on behind the pattern until the array is full, in pages nobody asked for.
`PageWalk` keeps the order of the tests of `vtpmo`; the frame number is not used by anybody.

### Abstractions

* Messages are model values; `LongMessages` stands for those that exceed `MAX_MESSAGE_SIZE - 1`
  (truncated, `EMSGSIZE`).  Sizes, user-memory faults and logging are left out.
* A freed block keeps its bytes until `kzalloc` returns it.  `Recycle` says whether that may happen
  while a thread still points to it: `FALSE` separates the protocol's own flaws from those of
  use after free, `TRUE` (run `lifecycle`) lets both happen.  A block with a queued
  callback is not reused.  The levels of a service have the identity of their service.
* A null dereference or an index outside `access_lock` ends the thread (`oops`), which keeps its
  mutexes.  `Entry` reads `NULL` right after the table: `start` allocates `sizeof(tag_service)`
  per entry where a pointer is stored.
* Arguments just outside their range stand for all invalid ones; `tag_receive` refuses a null buffer
  with the code of a missing permission (`ReceiveRefused`).
* Counters are modulo `WORD`.  `EUID` is a constant of the thread.
* Signals reach a thread inside `tag_receive` up to its `signal_pending` test; elsewhere the code
  does not look at them.

## 3. Runs

The first four are in module `MCTagService`; each run's cast is its `Program`, the set of operations
of each thread.  Every thread repeats its operations for ever, with every argument.

| run | instance | shows |
|---|---|---|
| `exchange` | 1 tag, 2 levels, 2 messages (one long), 3 threads, signals | `LockHandOver`, `ExchangeWindow`, `ReaderProtected`, `CountExact`, `MessageStable`, `ImplementsExchange` |
| `lifecycle` | 1 tag, 1 level, 2 users, 2 blocks, `Recycle` | `TypeOK`, `LockHandOver`, `TableIntegrity`, `RemovalExclusive`, `DeferredWorkOnLiveService`, `PermissionUnderLock`, `CountKept`, `ImplementsExchange` |
| `table` | 2 tags, keys 0 (IPC_PRIVATE), 1 and -1, 4 blocks | `RemainingExact`, `TableIntegrity`, `LockHandOver`, `LockInBounds` |
| `progress` | 1 tag, 1 level, signals, `LiveSpec` | `SignalledReceiverReturns`, `SendReturns`, `CtlReturns`, `LockReleased` |
| `device` | creator, two receivers on two levels of which one reads and one removes, 2 services, 2 buffers | `TypeOK`, `LineExact`, `ContentPublished`, `NoBufferLeak`, `DeviceLockReleased` |
| `text` | 12 levels, keys of 1 to 11 characters, counts of 1 to 3 digits | `TypeOK`, `TextExact`, `LinesKept` |
| `module` | 3 pages of 7 words, 26 sets of page tables, memories with repeated, spoiled and junk patterns | `TypeOK`, `FinderExact`, `EntriesReserved`, `TableRestored` |
| `references` | 2 threads of 2 users that may call everything, 1 tag, 1 level, 3 blocks, signals | `RefsExact` |

The bounds.  Three threads give every pair of conflicting calls and a third party; a tag's protocol
never looks at another tag except through the wait queue, the table search and memory reuse, which
have runs with two tags or two levels.  `table` needs two tags for a search that misses; it also reaches
the two ways to an index outside `access_lock` (`LockOutOfBounds`), and `LockInBounds` says that they
are the only ones: `OPEN_TAG` with IPC_PRIVATE on a
full table, and a negative key, of which `hash_function` keeps the sign.  Blocks outnumber the
services that can be allocated or pointed to at once, but for `lifecycle`, which wants them scarce,
so that they are reused; it has one tag, so a block is not reused under another.  Old messages are told from
new ones by `exchange`, which has two.
`WORD = 8` (4 with two threads) exceeds every count a run can reach.  `lifecycle`, `table` and
`references` do not check deadlock: a
thread lost in `OPEN_TAG`, in the creation of a device or at a bad index keeps its mutex, so the
rest may stop.

Symmetry permutes blocks, which no action tells apart; it is not used with temporal properties.
`VIEW Relevant` drops results of finished calls, bytes of blocks nobody can reach, keys of services
and, with one user, permissions.  It is used with invariants, action properties and the refinement,
never with liveness.  No guard, value of the refinement mapping, assignment that outlives the state
or invariant of those runs reads what it drops, with one exception: `TypeOK` types it too, and its
proof does not depend on the view.

`device`: two levels with one receiver each are what it takes for two updates of one text to race;
with two receivers on one level the older count may be published last, which `LineExact` does not
deny (`Quiet`).  A third service or buffer adds nothing: two services let a removed one be
followed by another, and an update holds one buffer besides the published one.  Deadlock is not checked: a
lost thread may have `device_lock`.  Signals, AWAKE_ALL and messages are one step, the end of the wait.

`text`: `BUFSIZE = 440` is the smallest buffer that satisfies `WidthAssumption` with twelve lines and
counts of three digits (`WAITING = 4`), in the place of the repository's 4096 and 10 for 32 levels;
levels 9 and 10 are where the level gets its second digit; the keys fill the field, exceed it by one and
more, and by so much that the line keeps no tab; a negative user id is what `%d` makes of one above
`INT_MAX`.  Three levels receive, the others keep 0.

`module`: pages, page tables and the indices of the pattern are scaled down in the same order (the first
entry of the pattern is followed by at least one in which a page boundary may fall, the last one by an
entry that is explored and may lie in the next page; `ENTRIES_TO_EXPLORE` does not exceed a page). The
pattern ends with a page, so that the scan of the free entries runs into the next one, or begins with
the page behind the first word of the table; that page may have no frame; large pages cover two pages;
nothing is behind the last page. `Explored` lets the search run on every world and the rest on one,
since after the search only the entries count.  Deadlock is not checked: after a fault nothing is left
to happen.

`references`: two threads are what the exits take that depend on somebody else (EBUSY, a service removed
between the check and the lock); three blocks: one in the table, and one
that each thread may still point to.  `MaxLeaked = 1` bounds the leaked references.

### Claims that do not hold

Each `claim_` run checks one sentence of the README or of a comment and TLC shows how the code
departs from it; `PROJECT.json` quotes the sentences.

| run | shows |
|---|---|
| `claim_send_reaches_waiters` | a sleeper woken by `tag_send` may look after `free_after_send` has run, and sleep on |
| `claim_counted_service_kept` | a receiver between its tests and its count is overtaken by a removal |
| `claim_open_keeps_service` | OPEN_TAG dereferences a null pointer, lock held |
| `claim_device_content` | `update_chrdev` frees the text while a reader copies it |

`claim_send_reaches_waiters` is refuted under the fairness below, by a behaviour in which every
thread and callback that can run does run.  AWAKE_ALL is built the same way: the sleeper it wakes may
look at `awake_request` after `reset_awake_condition` has taken it back.

Other sentences that the code does not keep, seen while modelling and without a run of their own: a
reader that enters its section after `call_rcu` may have the message cleared under it (the comment of
`free_after_send`, lines 88-89); a service created with IPC_PRIVATE is opened by any key with the same
residue (README, line 12), because OPEN_TAG compares tags; OPEN_TAG with IPC_PRIVATE on a full table and
a negative key lock outside the array (comments at lines 187 and 80; `LockInBounds` names both); a
reader left over from an earlier exchange may leave with parts of two messages, or with EINTR although a
message is READY; a line of the device loses its newline, and the next one continues it, with a key of
five characters or more, four on the levels from 10 on (README, line 60; `TextExact` and `LinesKept`
name the lines that fit); the first text of a device begins with the old bytes of its buffer unless the
kernel zeroes allocations (`src/tag_service.c`, line 260); an entry of the system call table that
another module takes between the test and the write is written over (`src/lib/usctm.c`, lines 131-137
and 149-155); with reused memory `tag_send` may change a service of another tag under the mutex of its
own (comment at line 391).

### Fairness

`Fairness` (in `TagClaims`) is what the kernel gives: a thread that can execute its next statement is
eventually scheduled (`WF` of `Step`); a kernel mutex queues its waiters and hands itself over to a
starving one (`SF` of `MutexLock`); a callback whose readers have left is eventually invoked (`WF` per
tag, of which at most one callback is pending).  `device` needs no more than that every thread that can
run does (`LiveSpec` of `TagDevice`, no assumption on who gets the mutex).  Nothing obliges user space
to call, or anybody to send a signal.  `progress` has neither removals nor lost threads: a lost thread
keeps its mutex for ever.

### Wrong versions

The models hold, for every property of a passing run, a version of one definition with a
plausible slip (a missing unlock, a missing test, an assignment in the wrong place); in place of the
action it makes the property fail under the same configuration (`PROJECT.json` pairs them).

## 4. Proofs

All theorems hold for every value of the constants that satisfies the named assumptions of the
modules.  Their further hypotheses are few:

* **`[][TagsKept]_vars`**: a block keeps its tag while it is allocated, some thread points to it or a
  callback is due to it.  `TagsAreKept` proves it from `NoForeignReuse`: `kzalloc` returns no block that
  somebody points to (`Recycle = FALSE`), or there is one tag.  Every run is such an instance.  In the
  code the premise may fail, since callers load a pointer before they own the lock and
  REMOVE_TAG frees without a grace period: then a thread may work on a service of another tag
  under the mutex of its own.  The theorems say that nothing else goes wrong.
  `SafeWithoutForeignReuse` and `ExchangeWithoutForeignReuse` restate them under `NoForeignReuse`; with one
  tag they hold however memory is reused.
* **`IsFiniteSet(Threads)`** where a set of threads is counted (`DeviceAssumption` has it too).
* `WidthAssumption` of `DeviceText` (section 2): `update_chrdev` tests no length, and with longer lines
  or counts the text would leave its buffers.

| theorem | states | hypotheses |
|---|---|---|
| `TypeCorrect` | `TypeOK` of the exchange | |
| `LocksOfTheArray` | `LockInBounds` | |
| `LocksHandedOver`, `TableConsistent`, `OneDeleter`, `WorkOnLiveServices`, `PermissionHolds` | `LockHandOver`, `TableIntegrity`, `RemovalExclusive`, `DeferredWorkOnLiveService`, `PermissionUnderLock` | `TagsKept` |
| `WindowsClose` | `ExchangeWindow` | |
| `ReadersProtected`, `MessagesStable` | `ReaderProtected`, `MessageStable` | `TagsKept` |
| `ExchangeImplemented` | `ImplementsExchange` | `TagsKept` |
| `ReceiversCounted` | `CountKept` | finite |
| `EntriesCounted` | `RemainingExact` | finite, `TagsKept` |
| `ModuleTypes`, `EntriesForEach` | `TypeOK`, `EntriesReserved` of the module | |
| `FinderReturnsFirst`, `EntriesRemoved` | `FinderExact`, `TableRestored` | |
| `DeviceTypes`, `BuffersKept`, `LinesAgree` | `TypeOK`, `NoBufferLeak`, `LineExact` of the device | |
| `ContentThere` | `ContentPublished` | |
| `CharsCounted` | `countCharsOfNumber` is the number of characters that `%d` writes | |
| `TextShapes` | the inductive invariant of the text | |
| `TextTypes`, `TextsExact`, `LinesStay` | `TypeOK`, `TextExact`, `LinesKept` of the text | |

### The exchange

`TypeOK` is not inductive: that `CreatePublish` stores at a tag of the table, or `SendCopy` into a
level that exists, depends on where the thread is.  **`TypeInv`** adds `ControlOK`: at each statement,
what the thread knows of `ts` and its locals (`Knows`).  One lemma for each way a step changes a
thread (`GotoStep`, `ReturnStep`, `EnterStep`, `RefuseStep`, from `ThreadStep`), then one lemma per
system call.  **`EntryInv`** adds what `tag_get` knows of the entry it searched.

`tag_send` unlocks, or leaves locked, the tag it was called with; the callbacks and `tag_ctl` unlock
the tag they read from the service.  These agree only because a service that somebody can reach
keeps the tag under which it was found.  **`LifeInv`** says so: the table points to allocated services
at their own tag (`TableOK`), threads that found a service at a tag know its tag (`TagKnown`), a
removed service is out of the table (`UnlinkedOK`).  **`SafeInv`** joins to it the locks (`LockHandOver`)
and `ServiceInv`: who is past the checks under the lock works on a live service with its
permission, a deleter finds its service in the entry it empties, and a thread
that loaded a pointer earlier finds the service allocated or marked deleted.  None of the three is
inductive without the others: the checks are worth something only while the lock excludes
removals, the lock is the right one only while tags are kept, and the table is consistent only
while one deleter works on it.

**`WindowInv`** (flags belong to a call or its callback; readers of a callback are readers; signals are
pending only where a thread can be interrupted) needs no lock and so no `TagsKept`.
**`ExchangeInv`** joins it with `SafeInv` and `PostInv`: from the store of READY to the withdrawal, by the sender or
by its callback, the level is READY with the sender's message, and a request to awake stands until
it is reset.

`ExchangeImplemented` maps every action under `ExchangeInv`: the store of READY is `Post` (due to those
of the readers under way that will get the message), `rcu_read_lock` is `Arrive`, `call_rcu` is `Seal`,
the store that withdraws the flag (the sender's or the callback's) is `Withdraw`, the unlock of the read
section `Leave`, and most statements are stutters.  `NullAssumption` sets the null pointer apart from
messages and places; `StageOf` and `GotOf` are read off the concrete state as in section 2.

`ReceiversCounted` and `EntriesCounted` follow from `TypeInv` and `SafeInv` as they stand; the proofs
are about sets that gain or lose one thread and counters that wrap.  `ReceiversCounted` speaks of steps
(`CountKept`): the difference between the counter and the receivers on a block, modulo the word, changes
only where `kzalloc` gives the block out again.  That the difference is 0 is `CountExact`, which holds
where no block is reused under a receiver (run `exchange`).

### The module

**`LoaderInv`**: what `start` and `end` have done at each statement (`LoaderOK`), what is known of the table
that was found (`TableFound`), and that every word that holds one of the four functions is at an entry that
`end` will still come to (`OurEntries`).  What other modules write keeps it, between a test and its
write too, since they write no function of this module.  The search theorem needs the
least address of a set of naturals (`Least`, from well-foundedness of the order of finite sets).
That walk and search may be compared at all rests on `WalkExact`: `vtpmo` finds a frame exactly where
the processor does.  The faults are those of `FaultOverhangs`, in the pattern, and of `ScanShort`, in the scan.
**`TypesInv`** adds the variables' types and `EntriesReserved`; the entries of a
table are counted by their rank (`NthElement`, `NthOrder`), and there are enough of them because the
pattern itself consists of free entries (`PatternIsFree`).

### The device

**`DeviceInv`**: `device_lock` has one owner (`LockOK`); the counters are the sets of threads counted
(`CountsOK`), so they never fall below zero; what is allocated is the content or held by the one update
that is replacing it, and the windows without content lie under the lock (`BuffersOK`); the same
for what is written (`JunkOK`).  **`LineInv`** adds the text that the update under the lock has
built (`TextsOK`), what the only receiver of a level read before it had the lock (`ReadOK`:
its own presence on the service of the entry), and that the shown text agrees with the counters
of every level at rest (`LinesOK`).  An update overwrites the lines of other levels with what it finds
under the lock, which is why those are not lost; its own line it read outside, which is why
`LineExact` asks for one receiver per level.

### The text

**`TextShape`** says what the text is after any updates.  Let `f` be the first level whose line snprintf
has cut, newline included (`FirstCut`; all later ones are cut too, since the level gets no shorter).
The text is *whole* (the exact lines below `f`, and behind them nothing with a tab), or *tailed* (the exact lines
below some `g <= f`, a stretch that ends with the last tab, and a field that every update of a level
from `g` on rewrites), or *headless* (a part of the header and one count).  `UpdateWhole`, `UpdateTailed`
and `UpdateHeadless` show that a splice keeps these shapes, with `g = f` where the cut lines keep a
tab (`TabKept`): an update below `f` replaces exactly its count, one from `f` on the last field of the text.
Each bounds its parts, so that the text stays below a half buffer and strncat cuts nothing
(`ShapeLength`).  Where `f` is the number of levels only the first shape is left, and
it is `Document`.

The definitions underneath are recursive functions: the digits of a number, the divisions of
`countCharsOfNumber`, the concatenation of the lines (`FlattenSeq`).  The induction theorems of the
library take an operator as parameter, which these provers cannot instantiate; here the facts are
about *sets* instead.  `Least` gives every set of naturals a least element, from the well-foundedness of
strict inclusion on finite sets; `Induction` follows for a set that holds each number whose predecessors
it holds; and `Recursion` shows that there is a function for each definition of a value by the values of
smaller arguments, so that `CHOOSE` finds it (`DigitsValue`, `DivisionsValue`, and likewise `FlattenValue`).
`LineEndFound` and `LastTabFound` say what
the two loops of `update_chrdev` stop at, `SpliceLine` and `SpliceEnd` what is between.

### Only model-checked

* Everything under fairness (`progress`, `DeviceLockReleased`, `claim_send_reaches_waiters`): liveness
  is out of the prover's reach.
* `CountExact` itself (see `ReceiversCounted`) and `RefsExact`.

## 5. Plan

* The refinement of the text of `TagDevice`, one count per level, by the characters of `DeviceText`.

## 6. Not modelled

* The user programs and tests: clients, whose part the runs play.  The build files and the report.
* In the driver: `ts_write` (changes nothing), `my_atoi` and
  `fastSommaDelleCifreDaZeroFinoIncluso` (called by nobody), and allocations that fail, which the code does not
  test: the thread would be lost as with any bad pointer.
* CR0.WP, which belongs to a processor, and its global copy; the preemption between its writes.  `free_entries` is a writable module parameter: nobody writes it here.
* 1 GB pages, for which `vtpmo` has no test, and page tables that change during the search.
* Threads inside the module without a reference (before `try_module_get`, after `module_put`), calls before
  `init_device_driver` or after `end` has freed the services, and callbacks that are pending when `end` runs
  without `rcu_barrier`: `TagModule` has no threads.
* The levels of a service as memory of their own (REMOVE_TAG does not free them).
* Memory ordering below the level of single reads and writes (the kernel's atomics, mutexes and RCU
  primitives are taken to order what they surround).
