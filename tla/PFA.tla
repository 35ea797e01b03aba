-------------------------------- MODULE PFA --------------------------------
(***************************************************************************)
(* The page-frame allocator of kernel/machine/pmap/pmap_pfa.c: a buddy      *)
(* allocator over the pages of RAM, one free list and one bitmap per level, *)
(* and a metadata store (MDS) of one byte per page, all behind one lock.    *)
(*                                                                          *)
(* Cores call the API concurrently, which is what its lock is for; at this  *)
(* commit start.S parks all of them but one. A core's program counter pc[c] *)
(* names the place it has reached in the call, frame[c] holds the locals of *)
(* the call; one action is one iteration of a loop of the code, or one      *)
(* straight-line section. Who was given which page is held, the only        *)
(* variable that is not in the program: it stands for the callers.          *)
(*                                                                          *)
(* A condition the code ASSERTs is a guard: debug_panic stops a core for    *)
(* good, so where an assertion fails the core has no step. AssertionsHold   *)
(* says it never comes to that.                                             *)
(***************************************************************************)
EXTENDS Integers, FiniteSets, SequencesExt

CONSTANTS
  Cores,                  \* the cores that call the allocator
  BootCore,               \* the one that runs pmap_pfa_init
  BUDDY_LEVELS,
  PAGE_SIZE,
  PFA_SIZE,               \* bytes of struct pmap_pfa
  ram_base, ram_size,     \* bytes
  bootstrap_pa_reserved,  \* bytes, with the allocator's own structures added
  kernel_text_base, kernel_text_size,
  kernel_data_base, kernel_data_size,
  Sizes,                  \* the request sizes callers use, in bytes
  RequestTypes,           \* the page types callers allocate with
  Readers,                \* the cores that also read the metadata store
  CheckCounts,            \* the page counts they check with require_range_type
  Garbage,                \* what a byte of RAM may hold at power on
  NotHeld                 \* the value of held[p] for a page nobody holds

Levels == 0 .. BUDDY_LEVELS - 1
TOP == BUDDY_LEVELS - 1

(* A metadata byte is the set of its one bits: page_type is bits 0 and 1.   *)
Bytes == SUBSET (0 .. 7)
PMAP_PAGE_TYPE_KERNEL_DATA == {}
PMAP_PAGE_TYPE_KERNEL_TEXT == {0}
PMAP_PAGE_TYPE_PAGE_TABLE  == {1}
PageTypes == { PMAP_PAGE_TYPE_KERNEL_DATA, PMAP_PAGE_TYPE_KERNEL_TEXT,
               PMAP_PAGE_TYPE_PAGE_TABLE }
page_type(byte) == byte \cap {0, 1}

PHYS_ADDR_INVALID == -1

ASSUME ConstantsAssumption ==
  /\ BootCore \in Cores
  /\ BUDDY_LEVELS \in Nat \ {0}
  /\ PAGE_SIZE \in Nat \ {0}
  /\ PFA_SIZE \in Nat
  /\ ram_base \in Nat
  /\ ram_size \in Nat
  /\ bootstrap_pa_reserved \in Nat
  /\ bootstrap_pa_reserved % PAGE_SIZE = 0
  /\ ram_base <= bootstrap_pa_reserved
  /\ ram_base + bootstrap_pa_reserved < ram_size
  /\ Sizes \subseteq Nat
  /\ RequestTypes \subseteq PageTypes
  /\ Readers \subseteq Cores
  /\ CheckCounts \subseteq Nat
  /\ Garbage \subseteq Bytes
  /\ NotHeld \notin PageTypes

ASSUME KernelImageAssumption ==
  /\ kernel_text_base \in Nat /\ kernel_text_size \in Nat
  /\ kernel_data_base \in Nat /\ kernel_data_size \in Nat
  /\ kernel_text_base % PAGE_SIZE = 0
  /\ kernel_data_base % PAGE_SIZE = 0
  /\ kernel_text_base + kernel_text_size <= bootstrap_pa_reserved
  /\ kernel_data_base + kernel_data_size <= bootstrap_pa_reserved

----------------------------------------------------------------------------
(* Pages, sizes and levels                                                  *)

buddy_level_page_count(level) == 2 ^ level

(* What the proofs use of the shift 1 << level.                             *)
ASSUME PageCountAssumption ==
  /\ buddy_level_page_count(0) = 1
  /\ \A l \in Levels :
       /\ buddy_level_page_count(l) \in Nat \ {0}
       /\ buddy_level_page_count(l + 1) = 2 * buddy_level_page_count(l)
       /\ \A k \in 0 .. l : buddy_level_page_count(l) % buddy_level_page_count(k) = 0

pa_to_page_id(pa) == pa \div PAGE_SIZE
size_to_page_count(size) == (size + PAGE_SIZE - 1) \div PAGE_SIZE

page_base == pa_to_page_id(ram_base)
page_count == size_to_page_count(ram_size - ram_base)
Managed == page_base .. page_base + page_count - 1
Pages(base, count) == base .. base + count - 1
Block(page, level) == Pages(page, buddy_level_page_count(level))

(* A page can only be the root of a block whose size its number divides.    *)
max_buddy_level_for_page_alignment(page) ==
  Max({ l \in Levels : page % buddy_level_page_count(l) = 0 })

(* The largest block that fits in size bytes, level 0 if none does.         *)
min_buddy_level_for_size_no_overflow(size) ==
  Max({ l \in Levels : l = 0 \/ buddy_level_page_count(l) * PAGE_SIZE <= size })

(* Slips of the code that the properties below must notice stand next to    *)
(* the definition they are a slip of, under a name that says which: here,   *)
(* to round down instead of up to a power of two of pages.                  *)
min_buddy_level_for_size_rounded_down(size) ==
  min_buddy_level_for_size_no_overflow(size)

(* 64 - clz(n) is the length of n in bits: the first l with n < 2^l.        *)
min_buddy_level_for_size(size) ==
  IF size <= PAGE_SIZE THEN 0
  ELSE Min({TOP} \cup
           { l \in Levels : size_to_page_count(size) < buddy_level_page_count(l) })

(* Forgets that a page can be the upper half of its pair.                   *)
get_buddy_page_id_is_next(page, level) == page + buddy_level_page_count(level)

get_buddy_page_id_for_page(page, level) ==
  IF (page \div buddy_level_page_count(level)) % 2 = 0
  THEN page + buddy_level_page_count(level)
  ELSE page - buddy_level_page_count(level)

get_root_buddy_page_id_for_page(page, level) ==
  page - (page % buddy_level_page_count(level + 1))

(* The largest request that is not turned away before the lock is taken.    *)
MaxRequest == PAGE_SIZE * buddy_level_page_count(TOP)

----------------------------------------------------------------------------
(* State                                                                    *)

VARIABLES
  lock,            \* the value of the lock's semaphore
  buddy_lists,     \* level -> root pages of the free blocks, front first
  buddy_bitmaps,   \* level -> slots whose bit is BUDDY_BIT_FREE
  metadata,        \* offset from the first managed page -> byte
  held,            \* page -> the type it was allocated with, or NotHeld
  pc, frame

vars == <<lock, buddy_lists, buddy_bitmaps, metadata, held, pc, frame>>

(* The arguments of a call and the loop variables it starts with: a range   *)
(* is worked through from its base to the limit.                            *)
Frame(op, size, type, base, count) ==
  [ op |-> op, size |-> size, page_type |-> type, base |-> base, count |-> count,
    free_i |-> base, limit |-> base + count, page_i |-> base, level_i |-> 0 ]

NoFrame == Frame("none", 0, {}, 0, 0)

buddy_bitmap_slot(page, level) ==
  (page - page_base) \div buddy_level_page_count(level)

(* The metadata array starts PFA_SIZE bytes before the end of the bitmaps   *)
(* (see README, "Findings"): byte MdsByteOf(s) of it is the byte of the     *)
(* top-level bitmap that holds slot s.                                      *)
buddy_bitmap_required_bytes_for_level(level) ==
  LET pages_per_slot == 64 * buddy_level_page_count(level)
  IN  8 * ((page_count + pages_per_slot - 1) \div pages_per_slot)

ASSUME LayoutAssumption ==
  PFA_SIZE <= buddy_bitmap_required_bytes_for_level(TOP)

MdsByteOf(slot) ==
  (slot \div 8) - (buddy_bitmap_required_bytes_for_level(TOP) - PFA_SIZE)

InMds(slot) == MdsByteOf(slot) \in 0 .. page_count - 1

BUDDY_BIT_FREE == TRUE
BUDDY_BIT_ALLCOATED == FALSE

(* Never clears the bit first.                                              *)
WithBit_only_set(bits, bit, value) == IF value THEN bits \cup {bit} ELSE bits

WithBit(bits, bit, value) == IF value THEN bits \cup {bit} ELSE bits \ {bit}

buddy_bitmap_set_bit_locked(page, level, value) ==
  LET slot == buddy_bitmap_slot(page, level)
  IN  IF level = TOP /\ InMds(slot)
      THEN /\ metadata' = [metadata EXCEPT ![MdsByteOf(slot)] =
                             WithBit(@, slot % 8, value)]
           /\ UNCHANGED buddy_bitmaps
      ELSE /\ buddy_bitmaps' = [buddy_bitmaps EXCEPT ![level] =
                                  WithBit(@, slot, value)]
           /\ UNCHANGED metadata

buddy_bitmap_get_bit_locked(page, level) ==
  buddy_bitmap_slot(page, level) \in buddy_bitmaps[level]

list_push_front(level, page) ==
  buddy_lists' = [buddy_lists EXCEPT ![level] = <<page>> \o @]

list_remove(level, page) ==
  buddy_lists' = [buddy_lists EXCEPT ![level] =
                    RemoveAt(@, CHOOSE i \in DOMAIN @ : @[i] = page)]

(* Leaves out the last page.                                                *)
ApplyRange_but_last(mds, base, count, type) ==
  [ i \in DOMAIN mds |-> IF i \in Pages(base - page_base, count - 1) THEN type ELSE mds[i] ]

(* memset of one page type over the metadata of count pages.                *)
ApplyRange(mds, base, count, type) ==
  [ i \in DOMAIN mds |-> IF i \in Pages(base - page_base, count) THEN type ELSE mds[i] ]

(* Refuses the last page (pmap_pfa_mds_require_range_type does).            *)
apply_in_bounds_strictly(base, count) == base - page_base + count < page_count

apply_in_bounds(base, count) == base - page_base + count <= page_count

IsManaged(page) == page - page_base \in 0 .. page_count - 1

----------------------------------------------------------------------------
(* Init: pmap_pfa_init up to its call of buddy_insert_range_freed_locked.   *)

FirstFree == pa_to_page_id(bootstrap_pa_reserved)
(* Counts the reserved memory as free memory after it.                      *)
FreeLimit_counts_reserved == FirstFree + size_to_page_count(ram_size - ram_base)

FreeLimit == FirstFree
             + size_to_page_count(ram_size - ram_base - bootstrap_pa_reserved)

Init ==
  /\ lock = 1
  /\ buddy_lists = [ l \in Levels |-> << >> ]
  /\ buddy_bitmaps = [ l \in Levels |-> {} ]
  /\ \E g \in Garbage :
       metadata = [ i \in 0 .. page_count - 1 |-> IF i < PFA_SIZE THEN {} ELSE g ]
  /\ held = [ p \in Managed |-> NotHeld ]
  /\ pc = [ c \in Cores |-> IF c = BootCore THEN "boot_insert" ELSE "idle" ]
  /\ frame = [ c \in Cores |->
                 IF c = BootCore
                 THEN Frame("boot", 0, {}, FirstFree, FreeLimit - FirstFree)
                 ELSE NoFrame ]

Goto(c, label) == pc' = [pc EXCEPT ![c] = label]

(* No core calls the allocator before the boot core has initialised it.     *)
Booted == frame[BootCore].op # "boot"

----------------------------------------------------------------------------
(* Calls. A request above MaxRequest returns PHYS_ADDR_INVALID and changes  *)
(* nothing, so it is not a step.                                            *)

Call(c, f) ==
  /\ Booted
  /\ pc[c] = "idle"
  /\ Goto(c, "lock")
  /\ frame' = [frame EXCEPT ![c] = f]

AllocCall(c) ==
  /\ \E size \in Sizes, type \in RequestTypes :
       /\ size <= MaxRequest
       /\ Call(c, Frame("alloc", size, type, 0, 0))
  /\ UNCHANGED <<lock, buddy_lists, buddy_bitmaps, metadata, held>>

(* A caller gives back pages it holds: all of an allocation or a part.      *)
FreeCall(c) ==
  \E base \in Managed, size \in Sizes :
    LET count == size_to_page_count(size)
    IN  /\ Pages(base, count) \subseteq Managed
        /\ \A p \in Pages(base, count) : held[p] # NotHeld
        /\ Call(c, Frame("free", size, {}, base, count))
        /\ held' = [ p \in Managed |->
                       IF p \in Pages(base, count) THEN NotHeld ELSE held[p] ]
        /\ UNCHANGED <<lock, buddy_lists, buddy_bitmaps, metadata>>

GetCall(c) ==
  /\ c \in Readers
  /\ \E page \in Managed :
       Call(c, Frame("get", 0, {}, page, 0))
  /\ UNCHANGED <<lock, buddy_lists, buddy_bitmaps, metadata, held>>

(* The ASSERT of require_range_type stands before the lock is taken.        *)
RequireCall(c) ==
  /\ c \in Readers
  /\ \E page \in Managed, count \in CheckCounts, type \in PageTypes :
       /\ page - page_base + count < page_count
       /\ Call(c, Frame("require", 0, type, page, count))
  /\ UNCHANGED <<lock, buddy_lists, buddy_bitmaps, metadata, held>>

RequireOutOfBounds(c) ==
  /\ c \in Readers
  /\ Booted
  /\ pc[c] = "idle"
  /\ \E page \in Managed, count \in CheckCounts :
       /\ Pages(page, count) \subseteq Managed
       /\ ~ (page - page_base + count < page_count)
       /\ frame' = [frame EXCEPT ![c] = Frame("require", 0, {}, page, count)]
  /\ Goto(c, "panic")
  /\ UNCHANGED <<lock, buddy_lists, buddy_bitmaps, metadata, held>>

(* The reads do not take the lock.                                          *)
LockAcquire_not_to_read(c) ==
  LET reads == frame[c].op \in {"get", "require"}
  IN  /\ pc[c] = "lock"
      /\ reads \/ lock > 0
      /\ lock' = IF reads THEN lock ELSE lock - 1
      /\ Goto(c, CASE frame[c].op = "alloc"   -> "search"
                   [] frame[c].op = "get"     -> "get"
                   [] frame[c].op = "require" -> "require"
                   [] OTHER -> IF frame[c].count > 0 THEN "merge" ELSE "unlock")
      /\ UNCHANGED <<buddy_lists, buddy_bitmaps, metadata, held, frame>>

(* A caller of the allocator does not wait for the lock.                    *)
LockAcquire_no_wait(c) ==
  /\ pc[c] = "lock"
  /\ lock' = 0
  /\ Goto(c, IF frame[c].op = "alloc" THEN "search" ELSE "unlock")
  /\ UNCHANGED <<buddy_lists, buddy_bitmaps, metadata, held, frame>>

LockAcquire(c) ==
  /\ pc[c] = "lock"
  /\ lock > 0
  /\ lock' = lock - 1
  /\ Goto(c, CASE frame[c].op = "alloc"   -> "search"
               [] frame[c].op = "get"     -> "get"
               [] frame[c].op = "require" -> "require"
               [] OTHER -> IF frame[c].count > 0 THEN "merge" ELSE "unlock")
  /\ UNCHANGED <<buddy_lists, buddy_bitmaps, metadata, held, frame>>

(* The call returns; a caller that got pages now holds them.                *)
Unlock(c) ==
  /\ pc[c] = "unlock"
  /\ lock' = lock + 1
  /\ Goto(c, "idle")
  /\ frame' = [frame EXCEPT ![c] = NoFrame]
  /\ held' = IF frame[c].op = "alloc" /\ frame[c].base # PHYS_ADDR_INVALID
             THEN [ p \in Managed |->
                      IF p \in Pages(frame[c].base, frame[c].count)
                      THEN frame[c].page_type ELSE held[p] ]
             ELSE held
  /\ UNCHANGED <<buddy_lists, buddy_bitmaps, metadata>>

----------------------------------------------------------------------------
(* Allocation                                                               *)

(* Starts to search one level too high.                                     *)
Candidates_above(size) ==
  { l \in min_buddy_level_for_size(size) + 1 .. TOP : buddy_lists[l] # << >> }

(* Where the search of the lists stops: the lowest level that has a block,  *)
(* from the level min_buddy_level_for_size starts at.                       *)
Candidates(size) ==
  { l \in min_buddy_level_for_size(size) .. TOP : buddy_lists[l] # << >> }

OutOfMemory(c) ==
  /\ pc[c] = "search"
  /\ Candidates(frame[c].size) = {}
  /\ frame' = [frame EXCEPT ![c].base = PHYS_ADDR_INVALID]
  /\ Goto(c, "unlock")
  /\ UNCHANGED <<lock, buddy_lists, buddy_bitmaps, metadata, held>>

TakeBlock(c) ==
  /\ pc[c] = "search"
  /\ Candidates(frame[c].size) # {}
  /\ LET level == Min(Candidates(frame[c].size))
         page  == Head(buddy_lists[level])
         count == size_to_page_count(frame[c].size)
     IN  /\ list_remove(level, page)
         /\ buddy_bitmap_set_bit_locked(page, level, BUDDY_BIT_ALLCOATED)
         /\ frame' = [frame EXCEPT ![c] = [frame[c] EXCEPT
                        !.base = page, !.count = count, !.free_i = page + count,
                        !.limit = page + buddy_level_page_count(level)]]
  /\ Goto(c, "insert")
  /\ UNCHANGED <<lock, held>>

(* Does not cap the block by what is left of the range.                     *)
InsertLevel_by_alignment(f) == max_buddy_level_for_page_alignment(f.free_i)

(* One iteration of buddy_insert_range_freed_locked, which the boot core    *)
(* runs on all unreserved memory and an allocation on what is left of the   *)
(* block it took.                                                           *)
InsertLevel(f) ==
  Min({ max_buddy_level_for_page_alignment(f.free_i),
        min_buddy_level_for_size_no_overflow((f.limit - f.free_i) * PAGE_SIZE) })

InsertFits(f) == buddy_level_page_count(InsertLevel(f)) <= f.limit - f.free_i

InsertRange(c) ==
  LET level == InsertLevel(frame[c])
  IN  /\ pc[c] \in {"boot_insert", "insert"}
      /\ frame[c].free_i < frame[c].limit
      /\ InsertFits(frame[c])
      /\ list_push_front(level, frame[c].free_i)
      /\ buddy_bitmap_set_bit_locked(frame[c].free_i, level, BUDDY_BIT_FREE)
      /\ frame' = [frame EXCEPT ![c].free_i = @ + buddy_level_page_count(level)]
      /\ UNCHANGED <<lock, held, pc>>

(* Ends the loop a page early.                                              *)
InsertDone_early(c) ==
  /\ pc[c] \in {"boot_insert", "insert"}
  /\ frame[c].free_i >= frame[c].limit - 1
  /\ Goto(c, IF pc[c] = "insert" THEN "apply" ELSE "boot_apply")
  /\ UNCHANGED <<lock, buddy_lists, buddy_bitmaps, metadata, held, frame>>

InsertDone(c) ==
  /\ pc[c] \in {"boot_insert", "insert"}
  /\ frame[c].free_i >= frame[c].limit
  /\ Goto(c, IF pc[c] = "insert" THEN "apply" ELSE "boot_apply")
  /\ UNCHANGED <<lock, buddy_lists, buddy_bitmaps, metadata, held, frame>>

ApplyMetadata(c) ==
  /\ pc[c] = "apply"
  /\ apply_in_bounds(frame[c].base, frame[c].count)
  /\ metadata' = ApplyRange(metadata, frame[c].base, frame[c].count, frame[c].page_type)
  /\ Goto(c, "unlock")
  /\ UNCHANGED <<lock, buddy_lists, buddy_bitmaps, held, frame>>

(* The end of pmap_pfa_init: reserved pages, then kernel data, then text.   *)
(* The first range starts at ram_base, an address, where a page is meant.   *)
BootRanges ==
  << [ base |-> ram_base, type |-> PMAP_PAGE_TYPE_KERNEL_DATA,
       count |-> size_to_page_count(bootstrap_pa_reserved - ram_base) ],
     [ base |-> pa_to_page_id(kernel_data_base), type |-> PMAP_PAGE_TYPE_KERNEL_DATA,
       count |-> size_to_page_count(kernel_data_size) ],
     [ base |-> pa_to_page_id(kernel_text_base), type |-> PMAP_PAGE_TYPE_KERNEL_TEXT,
       count |-> size_to_page_count(kernel_text_size) ] >>

BootInBounds ==
  \A i \in 1 .. 3 : apply_in_bounds(BootRanges[i].base, BootRanges[i].count)

BootApply(c) ==
  LET After(mds, i) == ApplyRange(mds, BootRanges[i].base, BootRanges[i].count,
                                  BootRanges[i].type)
  IN  /\ pc[c] = "boot_apply"
      /\ BootInBounds
      /\ metadata' = After(After(After(metadata, 1), 2), 3)
      /\ Goto(c, "idle")
      /\ frame' = [frame EXCEPT ![c] = NoFrame]
      /\ UNCHANGED <<lock, buddy_lists, buddy_bitmaps, held>>

----------------------------------------------------------------------------
(* Freeing: buddy_free_pages_locked frees page after page; page_i and       *)
(* level_i are the block that page has grown to.                            *)

BuddyOf(c) == get_buddy_page_id_for_page(frame[c].page_i, frame[c].level_i)

(* Stops merging one level below the top.                                   *)
CanMerge_not_to_top(c) ==
  /\ frame[c].level_i < TOP - 1
  /\ buddy_bitmap_get_bit_locked(BuddyOf(c), frame[c].level_i)

CanMerge(c) ==
  /\ frame[c].level_i < TOP
  /\ buddy_bitmap_get_bit_locked(BuddyOf(c), frame[c].level_i)

MergeUp(c) ==
  LET f == frame[c]
  IN  /\ pc[c] = "merge"
      /\ CanMerge(c)
      /\ IsManaged(BuddyOf(c))
      /\ buddy_bitmap_set_bit_locked(BuddyOf(c), f.level_i, BUDDY_BIT_ALLCOATED)
      /\ list_remove(f.level_i, BuddyOf(c))
      /\ frame' = [frame EXCEPT ![c] = [f EXCEPT
                     !.page_i = get_root_buddy_page_id_for_page(f.page_i, f.level_i),
                     !.level_i = f.level_i + 1]]
      /\ UNCHANGED <<lock, held, pc>>

FreePage(c) ==
  LET f == frame[c]
  IN  /\ pc[c] = "merge"
      /\ ~ CanMerge(c)
      /\ IsManaged(f.page_i)
      /\ list_push_front(f.level_i, f.page_i)
      /\ buddy_bitmap_set_bit_locked(f.page_i, f.level_i, BUDDY_BIT_FREE)
      /\ frame' = [frame EXCEPT ![c] = [f EXCEPT
                     !.free_i = f.free_i + 1, !.page_i = f.free_i + 1, !.level_i = 0]]
      /\ Goto(c, IF f.free_i + 1 < f.limit THEN "merge" ELSE "unlock")
      /\ UNCHANGED <<lock, held>>

----------------------------------------------------------------------------
(* Metadata reads                                                           *)

mds_get_metadata_locked(page) == page_type(metadata[page])

GetMetadata(c) ==
  /\ pc[c] = "get"
  /\ IsManaged(frame[c].base)
  /\ frame' = [frame EXCEPT ![c].page_type = mds_get_metadata_locked(frame[c].base)]
  /\ Goto(c, "unlock")
  /\ UNCHANGED <<lock, buddy_lists, buddy_bitmaps, metadata, held>>

(* The loop of require_range_type reads the same page, the first, count     *)
(* times.                                                                   *)
RequireHolds(f) ==
  \A i \in 0 .. f.count - 1 : mds_get_metadata_locked(f.base) = f.page_type

RequireRangeType(c) ==
  /\ pc[c] = "require"
  /\ RequireHolds(frame[c])
  /\ Goto(c, "unlock")
  /\ UNCHANGED <<lock, buddy_lists, buddy_bitmaps, metadata, held, frame>>

(* It panics with the lock held, which is then never released.              *)
RequirePanic(c) ==
  /\ pc[c] = "require"
  /\ ~ RequireHolds(frame[c])
  /\ Goto(c, "panic_locked")
  /\ UNCHANGED <<lock, buddy_lists, buddy_bitmaps, metadata, held, frame>>

----------------------------------------------------------------------------
(* Specification                                                            *)

Calls(c) ==
  AllocCall(c) \/ FreeCall(c) \/ GetCall(c) \/ RequireCall(c) \/ RequireOutOfBounds(c)

(* The steps a core inside a call takes by itself.                          *)
Run(c) ==
  \/ Unlock(c)
  \/ OutOfMemory(c) \/ TakeBlock(c)
  \/ InsertRange(c) \/ InsertDone(c) \/ ApplyMetadata(c) \/ BootApply(c)
  \/ MergeUp(c) \/ FreePage(c)
  \/ GetMetadata(c) \/ RequireRangeType(c) \/ RequirePanic(c)

Next == \E c \in Cores : Calls(c) \/ LockAcquire(c) \/ Run(c)

Spec == Init /\ [][Next]_vars

(* A core inside the allocator keeps executing; callers need not call.      *)
FairSpec == Spec /\ \A c \in Cores : WF_vars(LockAcquire(c) \/ Run(c))

----------------------------------------------------------------------------
(* Who has which page                                                       *)

Holding == {"search", "insert", "apply", "merge", "get", "require", "unlock",
            "panic_locked"}
Labels == {"boot_insert", "boot_apply", "idle", "lock", "panic"} \cup Holding

FreeBlocks(level) == ToSet(buddy_lists[level])

GotPages(c) == frame[c].op = "alloc" /\ frame[c].base # PHYS_ADDR_INVALID

(* The pages a call of core c is moving between callers and free lists.     *)
Result(c) ==
  IF \/ pc[c] \in {"insert", "apply"}
     \/ pc[c] = "unlock" /\ GotPages(c)
     \/ pc[c] = "lock" /\ frame[c].op = "free"
  THEN Pages(frame[c].base, frame[c].count)
  ELSE {}

Growing(c) ==
  IF pc[c] = "merge" THEN Block(frame[c].page_i, frame[c].level_i) ELSE {}

Remaining(c) ==
  CASE pc[c] \in {"boot_insert", "insert"} -> frame[c].free_i .. frame[c].limit - 1
    [] pc[c] = "merge" -> frame[c].free_i + 1 .. frame[c].limit - 1
    [] OTHER -> {}

InFlight(c) == Result(c) \cup Growing(c) \cup Remaining(c)

Reserved == Managed \cap (page_base .. FirstFree - 1)

IsFree(p) == \E l \in Levels : \E b \in FreeBlocks(l) : p \in Block(b, l)
IsHeld(p) == held[p] # NotHeld
IsInFlight(p) == \E c \in Cores : p \in InFlight(c)

----------------------------------------------------------------------------
(* Properties                                                               *)

(* Every variable has its type: a page is on a list of a level it can be    *)
(* the root of, bitmaps hold slots and the metadata store bytes.            *)
TypeOK ==
  /\ lock \in Nat
  /\ buddy_lists \in [Levels -> Seq(Managed)]
  /\ buddy_bitmaps \in [Levels -> SUBSET Int]
  /\ metadata \in [0 .. page_count - 1 -> Bytes]
  /\ held \in [Managed -> PageTypes \cup {NotHeld}]
  /\ pc \in [Cores -> Labels]
  /\ \A c \in Cores : frame[c].level_i \in Levels

(* PFA_LOCK/PFA_UNLOCK: one core at a time is between them, and the lock is *)
(* free exactly when no core is, whatever way each call ended.              *)
MutualExclusion ==
  /\ \A c, d \in Cores : pc[c] \in Holding /\ pc[d] \in Holding => c = d
  /\ lock = IF \E c \in Cores : pc[c] \in Holding THEN 0 ELSE 1

(* No page has two owners: not on two free blocks, held and free, held or   *)
(* free while a call still moves it, or in the hands of two calls, and no   *)
(* reserved page is ever handed out (test_pmap_pfa.c: the allocator never   *)
(* returns the same page twice).                                            *)
NoDoubleOwner ==
  /\ \A l \in Levels : IsInjective(buddy_lists[l])
  /\ \A l, k \in Levels : \A b \in FreeBlocks(l), d \in FreeBlocks(k) :
       Block(b, l) \cap Block(d, k) # {} => l = k /\ b = d
  /\ \A c, d \in Cores : InFlight(c) \cap InFlight(d) # {} => c = d
  /\ \A p \in Managed :
       /\ ~ (IsFree(p) /\ (IsHeld(p) \/ IsInFlight(p)))
       /\ ~ (IsHeld(p) /\ IsInFlight(p))
       /\ p \in Reserved => ~ IsFree(p) /\ ~ IsHeld(p) /\ ~ IsInFlight(p)

(* No page leaks: at every moment each managed page is reserved, on a free  *)
(* list, held by a caller or being moved by a call that will place it.      *)
NoPageLost ==
  \A p \in Managed : p \in Reserved \/ IsFree(p) \/ IsHeld(p) \/ IsInFlight(p)

(* The bitmap of a level that is read has a bit exactly for each block on   *)
(* the level's list; merging trusts it before it unlinks the buddy.         *)
BitmapMatchesLists ==
  \A l \in Levels \ {TOP} :
    buddy_bitmaps[l] = { buddy_bitmap_slot(b, l) : b \in FreeBlocks(l) }

(* Whenever the lock is free the lists are the canonical decomposition of   *)
(* the free pages into maximal aligned blocks, so the counts per level are  *)
(* a function of what is free, whatever order calls were made in: after all *)
(* is freed they are those after init (simple_sweep, multi_sweep and        *)
(* oom_sweep of test_pmap_pfa.c compare them).                              *)
CountsDependOnlyOnFreePages ==
  lock = 1 /\ Booted =>
    LET free == { p \in Managed : IsFree(p) }
        Root(b, l) == get_root_buddy_page_id_for_page(b, l)
    IN  \A l \in Levels :
          FreeBlocks(l) = { b \in free :
            /\ b % buddy_level_page_count(l) = 0
            /\ Block(b, l) \subseteq free
            /\ l = TOP \/ ~ (Block(Root(b, l), l + 1) \subseteq free) }

(* No ASSERT of init, allocation, freeing or reading stops a core, whatever *)
(* callers allocate and give back: an inserted block fits the range left,   *)
(* the metadata of a range is inside the store, and neither a page that is  *)
(* freed nor a buddy that is merged lies outside of the managed pages.      *)
AssertionsHold ==
  \A c \in Cores : LET f == frame[c] IN
    /\ pc[c] \in {"boot_insert", "insert"} /\ f.free_i < f.limit => InsertFits(f)
    /\ pc[c] = "apply" => apply_in_bounds(f.base, f.count)
    /\ pc[c] = "boot_apply" => BootInBounds
    /\ pc[c] = "merge" => IsManaged(IF CanMerge(c) THEN BuddyOf(c) ELSE f.page_i)
    /\ pc[c] = "get" => IsManaged(f.base)

(* The bytes of the metadata array that the top-level bitmap uses too.      *)
SharedBytes == { MdsByteOf(buddy_bitmap_slot(p, TOP)) : p \in Managed }

KernelText == Pages(pa_to_page_id(kernel_text_base), size_to_page_count(kernel_text_size))

(* The metadata store says of a held page what its holder asked for, and of *)
(* a kernel text page that it is text, through every later call on other    *)
(* pages; bytes shared with the bitmap are left out.                        *)
MetadataTracksType ==
  Booted =>
    \A p \in Managed : p - page_base \notin SharedBytes =>
      /\ IsHeld(p) => page_type(metadata[p - page_base]) = held[p]
      /\ p \in KernelText =>
           page_type(metadata[p - page_base]) = PMAP_PAGE_TYPE_KERNEL_TEXT

FailedAlloc(c) ==
  pc[c] = "unlock" /\ frame[c].op = "alloc" /\ frame[c].base = PHYS_ADDR_INVALID

FitsLevel(size, l) == size_to_page_count(size) <= buddy_level_page_count(l)

(* An allocation is refused only when no free block is large enough. Counts *)
(* of 2, 4, ... pages, below the largest block, are left out: the search    *)
(* for those starts one level too high (see README, "Findings").            *)
OutOfMemoryIsReal ==
  \A c \in Cores : FailedAlloc(c) =>
    \A l \in Levels : FitsLevel(frame[c].size, l) =>
      \/ FreeBlocks(l) = {}
      \/ /\ l \notin {0, TOP}
         /\ size_to_page_count(frame[c].size) = buddy_level_page_count(l)

(* While a read of the metadata returns, its answer is the type the page is *)
(* held with, and a check panics only on another type: PFA_LOCK keeps the   *)
(* page's holder, and the marking of its next one, out. Of a check of more  *)
(* than one page nothing is said: the code looks at the first only, where   *)
(* pmap_pfa.h:75 promises "all pages in range" (see README, "Findings").    *)
(* Bytes shared with the bitmap are left out.                               *)
ReadsAreExact ==
  \A c \in Cores : LET f == frame[c] IN
    /\ f.op \in {"get", "require"} /\ (f.op = "require" => f.count <= 1)
    /\ IsHeld(f.base) /\ f.base - page_base \notin SharedBytes
    => /\ pc[c] = "unlock" /\ (f.op = "get" \/ f.count > 0) => f.page_type = held[f.base]
       /\ pc[c] = "panic_locked" => f.page_type # held[f.base]

(* The loops that insert, split, free and merge all end: pmap_pfa_init      *)
(* does, and every call that takes the lock gives it back.                  *)
LoopsEnd == <> Booted /\ (lock = 0 ~> lock = 1)

(* What documents and comments say that the code does not do.               *)

(* pmap_pfa.c:160 "Get the lowest buddy level which contains entries of at  *)
(* least size bytes": a request fails only when no free block holds it      *)
(* (pmap_pfa.h:52, "If no such allocation can be made").                    *)
AllocatesIfABlockFits ==
  \A c \in Cores : FailedAlloc(c) =>
    \A l \in Levels : FitsLevel(frame[c].size, l) => FreeBlocks(l) = {}

(* pmap_pfa.h:36: kernel text "is marked as kernel text", and stays so.     *)
KernelTextStaysMarked ==
  Booted => \A p \in KernelText :
    page_type(metadata[p - page_base]) = PMAP_PAGE_TYPE_KERNEL_TEXT

=============================================================================
