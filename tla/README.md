# Swink: a TLA+ verification project

Swink is a small AArch64 kernel (`kernel/`, C and assembly) for the Raspberry Pi 3. This directory
holds TLA+ modules that model its state and operations, TLC configurations that check them on small
instances, and theorems about them whose proofs TLAPS checks. Paths below are relative to the root of
the repository; `pmap_pfa.c:587` is a line of `kernel/machine/pmap/pmap_pfa.c`.

## 1. The system

| component | code | state | operations |
|---|---|---|---|
| page-frame allocator (PFA) | `machine/pmap/pmap_pfa.[ch]` | a free list and a bitmap per buddy level, one metadata byte per page (the MDS), a lock | init, alloc_contig, free_contig, mds_get_metadata, mds_require_range_type |
| synchronization | `machine/synchronization/synchs.[ch]` | the value of a semaphore | semaphore down and up; a lock is a semaphore of one permit |
| list | `lib/list.[ch]` | doubly linked list with head and tail elements | insert, remove, push, pop, splice, reverse, sort, merge, unique |
| kernel pmap construction | `machine/pmap/pmap_init.c`, `pmap.c`, `pmap_asm.h` | three levels of page tables, an arena pointer, `physmap_vm_base` | map a contiguous range, build the kernel map, switch to it, start the PFA |
| VideoCore mailbox and property calls | `machine/io/vc/*` | the mailbox registers, a message | synchronous call, get memory region/board data, set LED |
| panic and assertions | `lib/debug.c`, `lib/assert.h` | the flag "LED tried" | print, try the LED, idle for ever |
| boot | `core/start/*` | registers, BSS, bootstrap tables | main: zero BSS, console, firmware queries, pmap, tests or shutdown |
| exceptions | `core/exception/*` | the saved register context | spill, handler (all panic), unspill |
| formatted output | `lib/stdio.c` | - | `__vprintf` and its conversions, `vsnprintf`, `hex_dump` |
| console, mini UART | `machine/io/console/console.c`, `machine/io/mini_uart/mini_uart.c` | the flag "UART initialised", the UART registers | init, print, send |
| strings | `lib/string.c` | the position of `strtok_r` | `mem*` and `str*` functions |
| power, routines | `io/pmc`, `routines.S` | the PM registers | reset, shutdown, idle |
| tests | `testing/` | - | simple_sweep, multi_sweep, oom_sweep of the PFA |

How they interact: `main` asks the mailbox for the size of RAM and calls `pmap_vm_init`, which builds
the kernel page tables out of an arena that grows from `bootstrap_pa_reserved`, switches to them, and
hands the arena's end to `pmap_pfa_init`. From then on the PFA owns physical memory. Its only shared
state with callers are the pages themselves; a core enters it through `PFA_LOCK`, a spin lock on the
semaphore of `synchs.c`, and links free pages with `list.c` through the kernel's physmap. Any failed
`ASSERT` ends in `debug_panic`, which calls the mailbox once more (panic LED) and idles.

At this commit one core runs: `start.S:103-107` parks the others in `wfe` ("TODO: Multi-core"), and exceptions end in
a panic. The allocator and the semaphore are nevertheless written for several: they are behind `PFA_LOCK` and built on
atomic exchanges. The runs and proofs with several cores or threads are about what that lock is for, once the parked
cores are started; those of one core are about what runs today.

What is hard in this code, and what would make each component correct:

* **PFA** - every call holds one lock, against cores that are still parked; an allocation splits a block and gives back its tail; a free merges
  page by page, trusting a bitmap to find list elements; callers may give back any part of what they
  hold. Correct means: no page has two owners, none is lost, bitmaps and lists agree, the lists are
  canonical (history does not fragment them), a refusal is justified, metadata is what the holder set,
  no assertion fails, every loop ends, the lock is always given back.
* **Semaphore** - another core runs between load and exchange, the exchange is weak, and the memory
  orders decide what the next owner sees. Correct means: down and up act atomically, a free permit is
  taken by someone, and what an owner wrote is published before the next one gets in.
* **pmap construction** - three indexes carried by hand, tables allocated on demand from memory nobody
  has reserved yet, two mappings that must not meet. Correct means: each page is mapped to its address
  and attributes exactly once, tables are disjoint from each other and from what is mapped, the arena is
  what the PFA later treats as reserved.
* **Mailbox** - two parties over a register, replies for other messages are dropped, no timeout, no lock.
  Correct means: one caller at a time gets the answer to its message; with two, it need not.
* **Panic** - may happen with the lock held, before BSS is zeroed, or inside a panic, while main prints or
  sets up the UART. Correct means: one attempt at the LED, what it says is on the line, the core idles.
* **List** - links are read after other links were written, loops walk over what they change. Correct
  means: both directions agree, each call does to the sequences what `list.h` says, equal keys keep their
  order, every loop ends.
* **Output** - sign, prefix, digits, commas and pads depend on six flags, width, precision and type; a
  buffer ends, a queue is full. Correct means: a number reads back, a buffer has a terminated prefix, the
  line has all characters in order.
* **Strings** - overlapping copies, sizes of 0 and 1, a position kept between calls. Correct means: copies
  arrive whole and terminated, searches find the first place, `strtok_r` returns each word once.

`PROJECT.json` lists every hazard at its line with the properties that cover it, or why none does.

## 2. Plan

In this order; what is done is marked.

1. `PFA`, `FrameAllocator`, `PFARefinement`, `PFA_proofs`, `PFAPromises_proofs`: the allocator, its abstract specification, its proofs. **Done**, every
   invariant that is checked is proved.
2. `Semaphore`, `Synchs`, `Synchs_proofs`: the lock. **Done.**
3. `PmapInit`, `AddressSpace`, `PmapInit_proofs`: the page-table builder, its arena, what it maps, the
   hand-over to the PFA. **Done**, every invariant and the refinement are proved.
4. `VCMailbox`, `Boot`, `Boot_proofs`: the mailbox with caller and firmware, and on top of it `main` and
   panics that interrupt each other. **Done**, every invariant is proved.
5. `List`, `ListSpec`, `ListRefinement`, `List_proofs`: the pointer-level list with splice, reverse, sort, merge,
   unique, shown to implement sequences. **Done**, every invariant and the refinement are proved.
6. `CString`, `CString_proofs`: `string.c` over a small memory. **Done**, every property is proved.
7. `Format`, `Console`, `Console_proofs`: conversions, `vsnprintf`, the printing path with panics. **Done**, the
   invariants of `Console` about the line and the buffers are proved.

Left, if the project grows: `PmapInit` followed by `PFA`'s init in one specification; the loops and bit
tricks of the size/level helpers against the closed forms `PFA` uses, with widths.

## 3. Modules

| module | models |
|---|---|
| `PFA` | `pmap_pfa.c`, all of it but the dump and the two test queries |
| `FrameAllocator` | what `pmap_pfa.h` promises a caller: ranges of frames change hands in one step |
| `PFARefinement` | `PFA` against `FrameAllocator` and, for its use of the lock, `Semaphore` |
| `MCPFA` | constants for TLC |
| `PFA_proofs` | lemmas about the helpers of `PFA`; the invariant and the theorems |
| `PFAPromises_proofs` | what callers rely on: that refusals, metadata, reads and the free lists are exact; that `PFA` implements `FrameAllocator` and uses its lock as a `Semaphore` |
| `Semaphore` | what `synchs.h` promises |
| `Synchs` | `synchs.c`, one memory access per action |
| `Synchs_proofs` | theorems about `Synchs` |
| `MCSynchs` | constants for TLC |
| `PmapInit` | `pmap_init.c`: `pmap_vm_init` up to the call of `pmap_pfa_init` |
| `AddressSpace` | what the builder owes the kernel, without tables |
| `MCPmapInit` | constants for TLC |
| `PmapInit_proofs` | theorems about `PmapInit`, and that it implements `AddressSpace` |
| `VCMailbox` | `vc_mailbox.c`, the message set-up of `vc_functions.c`, the firmware (external) |
| `Boot` | `start.c`'s `main`, `debug.c`, exceptions as its callers; extends `VCMailbox` |
| `Boot_proofs` | theorems about `Boot` and `VCMailbox` |
| `List` | `list.c`, pointer by pointer |
| `ListSpec` | what `list.h` promises: sequences |
| `ListRefinement` | `List` against `ListSpec` |
| `List_proofs` | theorems about `List`, and that it implements `ListSpec` |
| `MCList` | constants for TLC |
| `CString` | `string.c` |
| `MCCString` | constants for TLC |
| `CString_proofs` | theorems about `CString` |
| `Format` | the conversions of `stdio.c`, and what they mean to a reader |
| `Console` | `vsnprintf`, `console.c`, `mini_uart.c`, panics as printers; extends `Format` |
| `MCConsole` | constants for TLC |
| `Console_proofs` | theorems about `Console` |

Operators next to a definition that bear its name and a suffix (`WithBit_only_set`,
`InsertDone_early`) are slips of that definition. No specification uses them; each was put in the place
of the original to see that a property notices.

### PFA

One action is one iteration of a loop of the code or one straight-line section; `pc[c]` is where core
`c` is in its call, `frame[c]` its locals.

| code | action |
|---|---|
| `pmap_pfa_init` up to the insertion of free memory | `Init` |
| `buddy_insert_range_freed_locked`, one iteration; its end | `InsertRange`, `InsertDone` |
| the three metadata ranges at the end of init | `BootApply` |
| `pmap_pfa_alloc_contig`: entry | `AllocCall`; requests that are too large return before the lock and are not steps |
| `PFA_LOCK`, `PFA_UNLOCK` and return | `LockAcquire`, `Unlock` |
| search of the lists: nothing; a block, unlinked and marked | `OutOfMemory`, `TakeBlock` |
| `apply_metadata_range_locked` | `ApplyMetadata` |
| `pmap_pfa_free_contig`; one merge; end of the page's merges | `FreeCall`, `MergeUp`, `FreePage` |
| `pmap_pfa_mds_get_metadata` | `GetCall`, `GetMetadata` |
| `pmap_pfa_mds_require_range_type` | `RequireCall`, `RequireOutOfBounds`, `RequireRangeType`, `RequirePanic` |

* `buddy_lists[l]` is the sequence of root pages on the list of level `l`; an element lives in its page,
  so the page stands for it.
* `buddy_bitmaps[l]` is the set of slots whose bit is 1. The bytes of the top-level bitmap that the
  metadata array overlaps (see Findings) exist once, in `metadata`: `buddy_bitmap_set_bit_locked` writes
  there. The top-level bitmap is never read.
* `metadata[i]` is a set of bit numbers, so a byte written as a type and as eight bitmap slots is the
  same byte.
* `held[p]` is not in the program: it is what the callers know, the type a page was allocated with.
  `FreeCall` gives back a range the callers hold, all of an allocation or a part.
* An `ASSERT` is a guard. Where it would fail the core has no step, and `AssertionsHold` says that never
  happens. The two checks of `require_range_type` that a caller can fail are actions of their own.
* Levels are closed forms here (the largest level that divides, the first level that is long enough), in
  the code they are `ctz`, `clz` and a loop.

Layout facts it takes from the code, as assumptions: the memory reserved for the allocator's own
structures is already in `bootstrap_pa_reserved`, which is page aligned; the kernel image lies below it;
`PFA_SIZE` is at most the size of the top-level bitmap (264 bytes against 1024 for 1 GiB).

### Synchs

`Load`, `ExchangeSucceeds`, `ExchangeFails` and `Up` are the atomic accesses. `visible` and `published`
follow what a release publishes and an acquire takes over; a read-modify-write continues the release
sequence it overwrites. A load reads the newest value, so the model has fewer behaviours than the
architecture where stale loads are concerned: stale values make the exchange fail and are loaded again.

### PmapInit

The boot core is alone. One action is one table lookup (`LookupL2`, `LookupL3`), one entry written and the
indexes advanced (`WriteEntry`), the step to the next of the five calls of `vm_init_map_contiguous`
(`NextMapping`), the switch, or the hand-over. `tables` is memory that the arena has given out; an entry is
invalid or a frame with the template it was written with. Addresses are in pages. `Walk` is the MMU's
three-level walk. The `ASSERT` and the `panic` of `vm_init_map_contiguous` are guards, as in `PFA`.

It assumes of the board and the image (`BootAssumption`): RAM starts at 0 and ends below the devices, has
room for image and tables, and the image fits one table, which `vm_bootstrap.S:122` checks.

### VCMailbox and Boot

| code | action |
|---|---|
| `message_init`, `message_add_tag` | `SetUpMessage`, in `Ask` and `vc_functions_set_activity_led` |
| the two status loops, the write, the read of `vc_mailbox_call_sync` | `WaitWhileFull`, `WriteRequest`, `WaitWhileEmpty`, `ReadReply` |
| the checks of the answer in `vc_functions.c` | `TakeAnswer`, `RefuseAnswer`, `Idle` |
| `main` | `ZeroBss`, `Ask`, `pmap_vm_init`, `pmc_shutdown` |
| `debug_panic` | `TestMarker`, `SetMarker`, `vc_functions_set_activity_led`, `Idle` |
| an exception, a failed assertion | `Exception` |

`contexts` is the stack of what interrupts what; only the top runs and nothing returns from `debug_panic`.
The address of a message is the depth of its context, so consecutive calls reuse an address, which in the
program they may. The firmware is taken to reply in any order, to fail a request, to skip a tag and leave it
as it was, and to put words for nobody into the mailbox. The code reads both the FULL and the EMPTY bit from
one register; they are modelled as what the code takes them for, room to write and a word to read.
`pmap_vm_init` is one step here.

### List

`next` and `prev` are the links of every node: the elements, and a head and a tail per list. A call without
a loop is one action. In `list_reverse`, `list_insert_ordered`, `list_unique` and `list_sort` one action is
one iteration, `pc` the loop and `at` its locals; a sort goes through `BeginRun`, `FirstRun`,
`BeginSecondRun`, `SecondRun`, `BeginMerge`, `MergeKeeps`/`MergeMoves`, `EndMerge` and `NextPass` or
`SortEnd`. `is_sorted`, `list_size`, `list_max` and `list_min` only read and are functions
of the nodes that their loop visits (`Visits`). An `ASSERT` is a guard, so that
one that fails shows as a call that does not return. `list_remove` leaves the links of what it removes as they
were, and so does the model: removed elements come back with stale links.

`ListRefinement` keeps the sequences as they were before a loop began until it returns, which is when a caller
may look again.

### CString

The functions are functions of the memory. A loop that only looks for the place to stop at is `Up`, with the places
where its body breaks out; loops that write are recursive functions over their counter. Those that
write are also actions, so that the memory takes every content that they can produce. `strtok_r` has state of
its own (`save_ptr`); `original` and `tokens` are history. Sets of characters (delimiters, `strspn`'s skip) are
literals outside of the memory. Callers pass ranges inside the memory, strings that end in it, and, where the
code copies with `memcpy`, ranges that do not overlap. Return values that no property is about are left out;
one is not what its comment says: `memmove` returns `dst + size` when `dst < src` (`string.c:36`, against
`string.c:18` "Returns DST"). Nothing in the kernel uses it.

### Format and Console

`Format` has no state: `vprintf(format, args)` is the sequence of characters that `__vprintf` hands to its
output function. Integer types are 8, 12, 16 and 26 bits wide in the run, since TLC computes with 32; a double is
given in eighths, which are exact. The text of the refusals is one element. The last section is a reference:
`Spelled` writes a request down as a format, `Answers` and `ReadsAs` say how a person would read the result. They
share neither the order of computation nor the intermediate results with `format_integer`.

| code | action of `Console` |
|---|---|
| `vsnprintf`, `snprintf` | `Snprintf`, `SnprintfReturns` |
| `main`'s `memset` of the BSS | `ZeroBss` |
| `mini_uart_init`: transmitter off, on, the flag | `DisableUart`, `EnableUart`, `MarkInitialized` |
| `console_vprintf` | `BeginPrint`, `PrintFails` |
| `mini_uart_send_char`: the loop on the status register, the write, `\r` after `\n` | `SeeRoom`, `SendChar` |
| an exception or a failed assertion, its printing, its end | `Panic`, then the same actions, `Idle` |
| the UART (external) | `Transmit` |

`contexts` is a stack as in `Boot`. `TextsAssumption` says that every call passes the arguments its format takes (a
string for `%s`, a number for `%d`), so that what it prints is a text; C leaves the other calls undefined. What the status register says while the UART is not enabled is unknown, and a
character written then is lost. A panic's LED call is in `Boot` and not repeated here.

## 4. Runs

Small sizes stand for large ones: a page is 2 bytes, three buddy levels instead of six, so that the
lowest, a middle and the top level, which the code treats differently, all occur.

| run | instance | states | shows |
|---|---|---|---|
| `pfa_two_cores` | 2 cores, 8 pages of which 2 reserved, sizes 1, 2, 3, 6, 8 bytes | 256 k | `TypeOK`, `MutualExclusion`, `NoDoubleOwner`, `NoPageLost`, `ImplementsFrameAllocator`, `UsesLockCorrectly`, `LoopsEnd` |
| `pfa_one_core` | 1 core, 11 pages | 534 k | `BitmapMatchesLists`, `CountsDependOnlyOnFreePages`, `OutOfMemoryIsReal`, `AssertionsHold` |
| `pfa_metadata` | 2 cores, one reads too, 6 pages, two page types, size 0 too, range checks of 0, 1 and 2 pages | 1.8 M | `MetadataTracksType`, `ReadsAreExact` |
| `synchs_lock` | 3 threads, 1 permit, 4 downs, 1 spurious failure each | 11 k | `UnpublishedWriterIsInside`, `ImplementsSemaphore`, `SomeoneGetsIn` |
| `pmap_init` | 72 boards: tables of 4 entries, RAM of 24, 28, 29 pages, devices at 29..31, sections of 0 to 2 pages | 3.9 k | `MapsWhatWasAsked`, `TablesFormATree`, `SwitchIsSafe`, `HandOverCoversTables`, `ImplementsAddressSpace`, `BuildEnds` |
| `boot` | main and 3 panics, 2 words for requests, 2 for replies, 2 words for nobody | 242 k | `StatusIsCurrent`, `RequestsStayLive`, `AnswerIsForThisCall`, `AnswersAreToQuestions`, `OneLedAttempt`, `BootSettles` |
| `list` | 2 lists, 4 elements with the keys 3, 2, 2, 1, one removed at a time | 57 k | `WellLinked`, `QueriesAreExact`, `ImplementsListSpec`, `LoopsDoTheirJob`, `CallsReturn` |
| `strings` | 5 bytes of 0, 1 or 255, up to 4 tokens | 95 k | `CopiesAreExact`, `SearchesAreExact`, `TokensAreTheWords` |
| `output` | 64 sets of flags with widths, precisions, 8 types with their least and greatest numbers and 10 conversions, buffers of 0, 5 and 80 bytes; main and 2 panics, a queue of 2 | 65 k | `LineIsWhole`, `ConversionsReadBack`, `BufferHoldsPrefix`, `PanicIsHeard` |

Assertions have a property of their own in `PFA` (`AssertionsHold`). Elsewhere they are guards of steps that
must come: a failed one in `pmap_vm_init` breaks `BuildEnds`, one in a list call `CallsReturn`. `LoopsEnd` says
both that `pmap_pfa_init` completes and that the lock, once taken, is given back.

Why the bounds are enough: eight pages hold two top-level blocks, one of them partly reserved, so splits
and merges at every level, out of memory and merging up to the top are all reached; eleven pages add a
ragged end whose last block has no buddy. Two cores suffice for the lock: calls are serialised by it and
a third core adds only another waiter; the run with one core is the system as it boots today. Sizes cover less than a page, one page, a power of two, an odd
number of pages and the largest block. Three threads in `Synchs` let one take and return the permit while
a second is between load and exchange and a third waits. In `pmap_init` the ranges cross the ends of tables
at both levels, sections share a table, RAM ends inside the table the devices begin in, or right before
them, and a physmap takes two first-level entries. Three panics let one interrupt `main`, one interrupt that,
and one interrupt its LED call. Two words for replies let the replies to `main` and to a panic be in the mailbox
together, or two words for nobody fill it; two for requests, where the hardware has eight, are what `main` and the one
panic that calls need. With a single one the core could wait for the firmware to take `main`'s request while the
firmware waits for it to read words for nobody, so that `BootSettles` would fail; `NobodyWaitsForRoom` proves that two
are enough, however deep panics are nested. In `list`, four elements
make up to four runs, so a sort takes up to two passes and more than one merge in the first; the two equal keys show
stability and fill the second list of `unique`; splices move one or several elements within and between lists. Five
bytes let copies overlap both ways with a part that does not, and a string of two words end at the end of the
memory; 255 tells signed from unsigned characters. The values in `output` are 0, one digit group more or less, the
least and the greatest number of each of the eight types, signed and unsigned (`Limits`), and precisions beyond the buffer of `format_integer`.

`CHECK_DEADLOCK FALSE` is set only where the program stops: in `Synchs` once the bounded number of downs is
used up, in the metadata runs where `require_range_type` panics with the lock held, in `PmapInit` when
`pmap_vm_init` returns, in `Boot` and `Console` when the core idles.

Fairness: a core that is inside a call keeps executing, `WF(LockAcquire(c) \/ Run(c))` - the kernel has no
scheduler, a core is never preempted, and a waiting core spins. Nothing makes a core call. The lock is not
assumed fair, and it is not promised that one particular core gets in. `PmapInit` and `Boot` assume that the
one core executes. `Boot` also assumes that the firmware answers what it has taken once there is room for the reply,
and takes requests while there is room: the code waits for it without a timeout, so without that assumption a call need
not end. While the replies are full the firmware may leave requests where they are, so that the two could wait for each
other, and `BootSettles` says that they do not. Exceptions are not fair. `List` assumes that
a call that has begun goes on. `Console` assumes that the core executes and that an enabled UART sends what is in
its queue; of the status register of a UART that is not enabled nothing is assumed, which is why `PanicIsHeard`
would fail if the flag were set any earlier.

### Findings

Three runs show the code doing other than its documents say; each checks one property that quotes the line.

| run | code | says otherwise |
|---|---|---|
| `pfa_text_type` | `pmap_pfa.c:364` places the metadata `pfa_size` bytes too low, over the end of the bitmaps; kernel text loses its type | `pmap_pfa.c:360`, `pmap_pfa.h:36` |
| `pfa_power_of_two` | `pmap_pfa.c:173` starts one level too high for 2, 4, 8, 16 pages and refuses them when only blocks of exactly that size are left | `pmap_pfa.c:160`, `pmap_pfa.h:52` |
| `synchs_order` | `synchs.c:29` passes `__ATOMIC_RELEASE` | `synchs.c:28` "acquire-release" |

The models have these too, as the code has them, without a run of their own:

* `pmap_pfa.c:563` checks the first page `count` times, and line 557 refuses a range that ends with the last managed
  page, where `pmap_pfa.h:75` says "all pages in range". Nothing calls the function yet.
* `pmap_pfa.c:338` takes `ram_size` for an end address, where `pmap_pfa.h:32` manages `[ram_base, ram_base + ram_size)`.
  It makes no difference for a RAM base of 0, which is what the boards report.
* `string.c:36`: see CString above.
* `stdio.c:391`: a negative width from an argument sets `MINUS` after `ZERO` was settled, and both pads are written.
  `stdio.c:323`: the decimals of `%f` are padded to the width and grouped like its whole part. `FieldIsDefined`
  leaves these requests out.
* `start.c:60` reads the board's revision with the firmware's tag. `exception.S:97` writes `fpsr` twice and never
  restores `fpcr`; no handler returns.

The properties of the passing runs that are next to one of these leave exactly that case out and say so
(`OutOfMemoryIsReal` leaves out powers of two below the largest block, `MetadataTracksType` the shared
bytes, `ReadsAreExact` these and checks of more than one page).

## 5. Proofs

`PFA_proofs` proves, for every number of cores, pages and levels and every set of sizes and types:

| theorem | assumes | says |
|---|---|---|
| `OneCoreInside` | the constants' types | `Spec => []MutualExclusion` |
| `InductiveInvariant` | and `ram_base = 0` | `Spec => [](Mutex /\ IInv)` |
| `TypesKept`, `PagesHaveOneOwner`, `PagesAreKept`, `BitmapsAreExact`, `AssertionsNeverFail` | the same | `TypeOK`, `NoDoubleOwner`, `NoPageLost`, `BitmapMatchesLists`, `AssertionsHold` |

`main` passes the RAM base the firmware reports, which is 0 on the supported boards; for other values init
is not right (`pmap_pfa.c:338`), so the assumption is needed. The other assumptions are the named `ASSUME`s of
`PFA`: types of the constants, alignment of what is reserved, `LayoutAssumption`, and `PageCountAssumption`,
the facts about `1 << level` that the proofs use, since the provers know nothing of exponentiation. TLC
evaluates all of them in every run.

The argument. None of the properties is inductive: that a merge unlinks an element that is on the list
needs the bitmap to be exact, that the bitmap stays exact needs that blocks do not overlap, that blocks do
not overlap needs that what a call inserts is nobody else's. The invariant `IInv` is the conjunction of

* `StoreTyped`, `CallsTyped`: the types;
* `StoreInv`: blocks are aligned and inside the managed pages, each list is injective, blocks are disjoint,
  the bitmaps match;
* `CallState(c)`: what the locals of a call mean at each place it can be at;
* `Partition`: each managed page is exactly one of reserved, free, held or in flight, and in flight in one
  call only.

`Mutex` stands beside it. A step moves pages between these classes in one of five ways, and each way is a
lemma (`NothingMoves`, `TakesFree`, `GivesFree`, `TakesHeld`, `GivesHeld`). Its first part has the arithmetic of
buddies (`BuddyHalves`, `BuddyAndRoot`, `SlotsDiffer`, `AlignedBelow`), the facts about the chosen levels
(`InsertLevelFits`, `SearchLevelHolds`), and what adding and removing a block does to the store (`AddBlock`,
`DropBlock`). One lemma per action then shows the step.

`PFAPromises_proofs` proves the two refinements:

| theorem | assumes | says |
|---|---|---|
| `LockIsUsedAsALock` | the constants' types | `Spec => UsesLockCorrectly` |
| `BuddyAllocatorIsFrameAllocator` | and `ram_base = 0` | `Spec => ImplementsFrameAllocator` |

The first needs `Mutex` only. The second maps the entry of a free to `Return`, its unlock to `Reclaim`, the
unlock of an allocation that got pages to `Alloc`, and every other step to a stutter. `ReturnInv` is what it
adds to `IInv`: nobody holds the pages a free call gives back until it returns, and no two calls give back
the same page. That an allocation hands out none of them (`TakenIsFree`) follows from mutual exclusion: while
one core unlocks, every other free call still waits for the lock, where its pages are in flight, and
`Partition` keeps those apart from the allocation's.

It also proves, under the same assumptions, that what the allocator says is exact:

| theorem | says |
|---|---|
| `RefusalsAreReal` | `Spec => []OutOfMemoryIsReal` |
| `MetadataIsTrue` | `Spec => []MetadataTracksType` |
| `ReadsTellTheTruth` | `Spec => []ReadsAreExact` |
| `HistoryLeavesNoTrace` | `Spec => []CountsDependOnlyOnFreePages` |

All four rest on `Base`, which is `Mutex /\ IInv` and `BootAlone` (no core is in a call while the boot core
initialises the allocator, which callers wait for): with it at most one core is active, so that a step
which changes the store is the active core's, and what the invariants say of the others' calls is about pages and
bytes that step leaves alone. Then each has an invariant of its own:

* `RefusalsExact`: a call that is about to refuse found every list it may take from empty, and nobody has put a block
  on one since. A level it may not take from although the request would fit has the size of the request, a power of two
  of pages (`FitsBelowSearch`).
* `MetadataInv` adds to the property that the pages of an allocation which is about to return are marked
  (`GrantsMarked`); the step that returns makes them held. That marking touches no held page of anybody else is
  `Partition`; that setting a bit of the top-level bitmap, which overlaps the array, changes only shared bytes is
  `SetBitKeepsMetadata`; that nothing marks text is that the image is reserved (`ImageIsReserved`).
* `ReadsInv` needs that the page a read asks for is managed. What it has read stays the holder's type since the core
  has the lock until it returns, and a page can only become held in a step of the lock's owner.
* `CanonicalInv`: no two buddies below the top are on their list (`NoFreeBuddies`), and the block an insertion puts on
  a list next does not find its buddy there (`SplitState`): the buddy holds a page before the range, which is the
  request's or reserved, or a page behind the whole range. Then every aligned block of free pages lies in
  one free block (`FreeBlocksCover`): of a smallest one that does not, both halves are free blocks, and buddies. So
  the lists hold the maximal ones (`ListsAreCanonical`).

`Synchs_proofs` proves, for every number of threads and permits and any bounds:

| theorem | assumes | says |
|---|---|---|
| `DownAndUpAreAtomic` | the constants' types | `Spec => ImplementsSemaphore` |
| `PermitsAreConserved` | and finitely many threads | the value and the threads inside add up to `Permits`; never more are inside |
| `WritersPublishFirst` | the constants' types | `Spec => []UnpublishedWriterIsInside` |

`DownInv` says that an exchange is only tried with a loaded value above 0. With it, a successful exchange is
`Down`: the value compared equal, so it does not matter whether it changed and came back in between, which the
run with one permit cannot show. The conservation of permits follows from `Semaphore` alone.

`PmapInit_proofs` proves, for every size of table, every image and every size of RAM that `BootAssumption` allows:

| theorem | says |
|---|---|
| `InductiveInvariant` | `Spec => []IInv` |
| `ExactlyTheRangesAreMapped`, `TablesAreATree`, `TheSwitchIsSafe`, `TablesAreNeverHandedOut` | `MapsWhatWasAsked`, `TablesFormATree`, `SwitchIsSafe`, `HandOverCoversTables` |
| `AssertionsHold` | the `ASSERT` and the `panic` of `vm_init_map_contiguous` never fire (`WritesAreFresh`, which the run checks as `BuildEnds`) |
| `TablesAreAnAddressSpace` | `Spec => ImplementsAddressSpace` |

Besides `BootAssumption` it uses `InvalidAssumption`, that an invalid entry is not a valid one. `IInv` has six parts:
`Arena` (which pages are tables), `Tree` (an entry refers to a table one level down or maps a page; every table but
the root is referred to once), `Loop` (the three indexes are the digits of the page the loop has got to), `Room` (how
many tables have been taken, against the position of the loop), `Phases` (what the switch and the hand-over have seen)
and `MapsWhatWasAsked` itself. What they are for:

* A page is three digits to the base of a table's size (`DigitsOf`, `DigitsExist`, `DigitsOrder`), so that carrying
  the indexes by hand is counting pages, and two pages differ in the slot of some table.
* A write to one entry changes the walk of one page and no other only because no table is shared: `Tree` gives that
  (`WriteKeepsTree`), and a new table changes no walk at all since nothing referred to its page before.
* That the arena stays inside RAM and below what is handed out (`RoomGrows`, `RoomAhead`, `TablesFitRAM`): tables are
  only taken when the loop enters a new slot, so their number is bounded by the slots the ranges touch.
* The next page to be mapped is not mapped yet, since the five ranges are disjoint (`AskedNext`, `AskedGrows`); this is
  both `WritesAreFresh` and the freshness of `Map` in `AddressSpace`.

The refinement then maps `WriteEntry` to `Map`, the switch to `Activate` and the rest to stutters (`SpaceKept`).

`Boot_proofs` proves, for every depth of nested panics, every mailbox and every number of words for nobody:

| theorem | says |
|---|---|
| `InductiveInvariant` | `Spec => []IInv` |
| `StatusStaysCurrent`, `MessagesOutliveRequests`, `CallsGetTheirAnswers` | `StatusIsCurrent`, `RequestsStayLive`, `AnswerIsForThisCall` |
| `MainKnowsWhatItAsked`, `OnePanicAsksForLed` | `AnswersAreToQuestions`, `OneLedAttempt` |
| `NobodyWaitsForRoom` | with two words or more for requests a call never finds the mailbox full |

It assumes the constants' types and, in `Boot`, that the tags it asks for are tags (`BootAssumption`). None of these
but the first is inductive. The invariant `Mail` follows the address of a message: it is in the requests, with the firmware or in the
replies, in one of them and once, and only while the frame it points to waits for it, with the message's type telling
which. A panic on top never touches a frame below, so that what waits keeps waiting; that is why a reply to
an interrupted call, dropped by the panic's call, harms nobody. `Asking` ties the message on the stack to the question
`main` is at, which makes a message the firmware skipped recognisable. `Led` says of the marker that it is set before
anybody asks, and that whoever can still ask is on top of nobody who has. `Calling`, that a panic in a call has asked
for the LED, then makes `main` the only other one whose request can be in the mailbox (`AtMostMainsRequest`).

`List_proofs` proves, for any number of lists and elements and any keys:

| theorem | says |
|---|---|
| `InductiveInvariant` | `Spec => []IInv` |
| `LinksAgree` | `Spec => []WellLinked` |
| `QueriesAnswerRight` | `Spec => []QueriesAreExact` |
| `HistoryHolds` | `HistorySpec => []HistoryInv` |
| `ListsAreSequences` | `HistorySpec => ImplementsListSpec` |
| `LoopsReturnRight` | `HistorySpec => LoopsDoTheirJob` |
| `SortAssertionsHold` | `Spec => []SortAsserts` |

It assumes `ListAssumption`: finitely many elements, and heads, tails, elements and `NULL` that are different things.
`WellLinked` is about sequences that a walk finds, and is not inductive: it says nothing of the list that reverse has
half turned, nor of what the locals of a loop point to. `IInv` speaks of places instead. There are an `owner` of every
node (a list, or `NULL` for what is nowhere) and a `rank` in it, such that a link leads from a node to the one with the
next rank of the same owner (`Follows`, `Linked`). Every call is then a change of places: an insertion gives the new
element the rank of the one behind it and moves the rest up (`InsertOrder`), a removal takes the owner away
(`RemoveOrder`), a splice shifts a range of ranks (`SpliceOrder`, with the case that `before` is the end of the range
and its `prev` link has just been written), reverse negates the ranks of one list (`ReverseOrder`). While reverse runs,
the elements it has passed have their two links swapped, and `Forward` and `Backward` read them the other way round:
so one iteration changes neither, and only `ReverseEnd` changes the order. `Locals` says where `at` points: what a
loop holds stays behind the head of its list, the element to be inserted is nowhere, and the three positions of a merge
are in order, none of which its splice moves. That a walk meets the elements by rank and ends at the tail
(`InteriorIsOrder`) follows from the ranks growing along `next` and the elements being finitely many.

`QueriesAreExact` follows from that order (`InvQueries`): the loops of the queries visit the same nodes (`VisitsAre`),
so the size is the number of elements (`SizeIs`), and after `k` steps the best so far is the front one of the best of
the first `k + 1` elements (`BestIs`). The minimum is the maximum of the negated keys (`MinIs`). That the functions
which the loops are exist is shown first (`StepsExist`, `BestExists`), since the prover takes nothing of an empty one.

For the refinement a list is read as a path: `next` leads through the elements `s` of a list and `prev` back
(`Row`, which `IInv` gives every list that reverse is not at work on, `RowsHold`). A path is cut into pieces and
joined again (`PathJoined`), a piece keeps its links but the last one (`PieceMoved`, `PieceKept`), and there is only one
path between two nodes (`PathUnique`). So an insertion, a removal and a splice, each of which writes a few links, make
the same pieces in another order: `InsertsAre`, `RemovesAre`, and `SplicesAre` with its cases (another list, towards
the front, towards the end, in front of the last). For the loops an invariant is needed that says in sequences what is
done: `HistoryInv`, of which `SoFar` has a part for each loop.

* Ordered insertion (`OrderedSoFar`): the cursor is behind elements whose keys are not greater than the new one.
* Reverse (`ReversedSoFar`): the elements in front of the cursor have their links swapped, the others not.
* Sort (`SortSoFar`): the list has the elements it had, and those with equal keys in the order they had
  (`Resorted`), after every splice; while two runs are merged they lie side by side, and the first one is in order.
  An element that moves to the front passes none of its key, since `MergeKeeps` went past those that are not greater:
  that is why the sort is stable. That the result is in order is what `list_sort` itself asserts with `is_sorted`
  before it returns, which is a guard of `SortEnd`: `LoopsReturnRight` takes the order from there, and
  `SortAssertionsHold` shows that the assertion never fails.
* Unique (`UniqueSoFar`): what is in front of the cursor is split into those that stay and those that went to the other
  list, both in the order they had (`Split`); in between, the one that is in neither list is in `at.elem`.

A step with a loop running leaves `content` alone and keeps `SoFar` (`LoopsRight`); one that returns does the
operation of `ListSpec` (`ReturnsRight`), which `HistorySteps` puts together.

An assertion of `list_sort` that failed would in the model only stop the call, and a safety theorem says nothing of a
step that is not taken. `SortAsserts` therefore states the assertions at the places where the code makes them, those of
`inplace_merge` and the last one. The invariant is `SortInv`, which adds to `IInv` what a pass has done so far
(`PassSoFar`). The list is its output `P` and what it has yet to read: both runs are in order by the way
`find_end_of_run` goes on (`RunGrows`), and during a merge no key of the merged part `M` is larger than one in what is
left of the runs (`MergeAt`, `Takes`). At most one run since the pass began means nothing in front of it (`Counted`),
so that the list is that run.

`CString_proofs` proves, for a memory of any size and any values, literals and numbers of calls:

| theorem | says |
|---|---|
| `InductiveInvariant` | `Spec => []Inv` |
| `CopiesHold`, `SearchesHold`, `TokensHold` | `CopiesAreExact`, `SearchesAreExact`, `TokensAreTheWords` |

It assumes `CStringAssumption`: the bytes are bytes, literals have no terminator in them, `NULL` is no address. A loop
is a recursive function, and that such a function exists needs an argument each time, since the prover takes nothing of
the kind for granted. For the loops that look for a place `UpExists` and `UpStops` give it once: from any place on,
`Up` is the least of the places where the loop ends (`UpIs`), so that each search is about a set and its least element
(`StrchrIs`, `MemcmpIs`, `StrcmpIs`, `StrstrIs`, ...). For the loops that write, the memory after `i` iterations is
given in closed form, upwards (`CopiedUp`, `MemcpyIs`) and downwards (`CopiedDown`, `CopyBackwardsIs`); the
induction is over the counter, by the least counterexample, as a set (`UpTo`, `DownTo`). Which end to start from
matters just there: a byte is read before the loop has got to it, which is where `dst < src` is needed.
`AppendsIs` is what `strlcpy` and `strlcat` have in common.

`CopiesAreExact` and `SearchesAreExact` hold in every state in which the memory is one (`TypeInv`).
`TokensAreTheWords` is about a history of calls and is not inductive: it says nothing of the part of the string that no
call has seen, which later tokens are made of, nor that the terminators that were written lie before the place the next
call starts from. `TokenInv` says both: behind `save_ptr` the memory is as it was and ends, every token so far ends at or
before `save_ptr`, and each call began where the one before it had stopped. `TokenIs` is one call of `strtok_r`, and
`WordStays` that the next calls, which write at or behind `save_ptr` only, leave the earlier words alone.

`Console_proofs` proves, for any texts of `main` and of a panic, any depth of panics and any size of the UART's queue,
and for any requests and buffer sizes:

| theorem | says |
|---|---|
| `InductiveInvariant` | `Spec => []IInv` |
| `NothingIsLost` | `Spec => []LineIsWhole` |
| `BuffersHoldPrefixes` | `Spec => []BufferHoldsPrefix` |

It assumes `ConsoleAssumption`, the types of the sizes, and `TextsAssumption` (see Format and Console).
`LineIsWhole` compares the line and the queue with what every context has said. It is not inductive: it does not say
that a context which is about to write has room, or that what is left of its text is the end of what it had to say.
`IInv` adds that:

* `ContextsInv`: what a context has left to send is the end of what its calls come to (`Sound`), so that each character
  moves from what is left to what is given (`Begins`, `Sends`; `WiredSend` does the `\r` behind a line end); something
  is left only in the loop, and nobody enters the loop with the console down.
* `RoomStays`: whoever is between the look at the status register and the write finds room. It is about the context on
  top only. A panic in between fills the queue, but never goes back, and the UART only makes room.
* `SetUp`: how far `main` has got with the UART. It is a fact about `main` at the bottom of the stack whoever is on top,
  so that a panic in the middle of `mini_uart_init` finds the console down and says nothing, and `main`'s reset of the
  queue loses nothing.

What is on the line is one sequence laid end to end from one piece per context, so a step changes the last piece or adds
an empty one (`OnLineGrows`, `OnLinePushed`). `FlattenSeq` is recursive over the sequence; that its function exists and
what it does to a sequence that gets longer is shown once (`FlatIs`, `FlatAppend`, `FlatConcat`).

`BufferHoldsPrefix` follows from what one call leaves (`WhatIsStored`): after `i` characters the buffer has the first
`i` of them, or as many as fit (`HelperHolds`, `WriterHolds`, by induction over `i`).

Only model-checked:

* liveness (`LoopsEnd`, `SomeoneGetsIn`, `BuildEnds`, `BootSettles`, `CallsReturn`, `PanicIsHeard`), which is out of
  the prover's reach;
* `ConversionsReadBack`. What the conversions compute for every number is out of the prover's reach: their loops
  divide and append, recursive functions over the data.

## 6. Not modelled

* The assembly of `start.S` and `vm_bootstrap.S` but for the switch of tables: register set-up with no state the C
  code looks at. The register writes of `pmc` and `routines`.
* The spill and unspill of a context: every handler panics, so what was spilled is only printed and the return path
  is never executed.
* `core/vm` (empty at this commit), the designs in `docs/` (not implemented), the test runner, whose tests are where
  `CountsDependOnlyOnFreePages` and `NoDoubleOwner` come from.
* In `PmapInit`: what TLBs and caches hold during the switch, and the bootstrap tables themselves.
* In `Boot`: the text that is printed, and the overflow of a stack by nested exceptions.
* In `PFA`: `pmap_pfa_dump_state`, `pmap_pfa_contains` and `pmap_pfa_get_state` (debug and test builds, they only
  read), and 32-bit wrap-around of page numbers, which needs 4 GiB of RAM.
* `hex_dump`, `mini_uart_getc` and `console_write_str`: nothing calls them; the last is the path of `printf` without
  conversions.
* In `Format`: the width of `int` for width and precision themselves, a format that ends within a conversion (the
  code reads past its terminator), doubles whose whole part or decimals do not fit an `int`.
