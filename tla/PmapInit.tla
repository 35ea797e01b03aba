------------------------------ MODULE PmapInit ------------------------------
(***************************************************************************)
(* pmap_vm_init of kernel/machine/pmap/pmap_init.c: it builds the kernel's  *)
(* three levels of page tables in memory it takes from an arena behind the  *)
(* bootstrap region, switches to them, and hands the memory to the          *)
(* page-frame allocator.                                                    *)
(*                                                                          *)
(* Addresses are counted in pages, and virtual ones from                    *)
(* VM_KERNEL_BASE_ADDRESS: link.ld aligns the sections of the kernel, and   *)
(* firmware reports RAM in whole megabytes. The boot core is alone. An      *)
(* assertion or panic that fires leaves it without a step, and BuildEnds is *)
(* violated.                                                                *)
(***************************************************************************)
EXTENDS Integers, Sequences, FiniteSets

CONSTANTS
  PAGE_ENTRY_COUNT,
  MMIO_BASE, MMIO_END,
  BootstrapPages,      \* stacks and bootstrap tables behind the kernel
  Boots,               \* where the kernel lies, its sections, the size of RAM
  PHYS_ADDR_INVALID,   \* also: the allocator has not been initialised
  PTE_INVALID,
  BootstrapTable       \* the tables of the bootstrap code

Indexes == 0 .. PAGE_ENTRY_COUNT - 1
VM_L2_ENTRY_SIZE == PAGE_ENTRY_COUNT
VM_L1_ENTRY_SIZE == PAGE_ENTRY_COUNT * PAGE_ENTRY_COUNT
VirtualPages == 0 .. PAGE_ENTRY_COUNT * VM_L1_ENTRY_SIZE - 1

Greater(m, n) == IF m > n THEN m ELSE n
RoundedUpTo(n, size) == (n + size - 1) \div size

(* start.S: the kernel image, then stacks and bootstrap tables.             *)
KernelSize(b) == b.text + b.ro_data + b.rw_data
bootstrap_pa_reserved(b) == b.kernel_base + KernelSize(b) + BootstrapPages

physmap_l1_cnt(b) == RoundedUpTo(Greater(b.ram_size, MMIO_END), VM_L1_ENTRY_SIZE)
physmap_vm_base(b) == VM_L1_ENTRY_SIZE * (PAGE_ENTRY_COUNT - physmap_l1_cnt(b))

(* vm_bootstrap.S refuses a kernel that does not fit one table; RAM ends    *)
(* below the devices, and has room for the tables: the root, two for the    *)
(* kernel, and for each first-level entry of the physmap one and its own.   *)
ASSUME BootAssumption ==
  /\ PAGE_ENTRY_COUNT \in Nat \ {0} /\ BootstrapPages \in Nat
  /\ MMIO_BASE \in Nat /\ MMIO_END \in Nat /\ MMIO_BASE < MMIO_END
  /\ \A b \in Boots :
       /\ b \in [kernel_base : Nat, text : Nat, ro_data : Nat, rw_data : Nat, ram_size : Nat]
       /\ KernelSize(b) < PAGE_ENTRY_COUNT
       /\ b.ram_size <= MMIO_BASE
       /\ physmap_l1_cnt(b) < PAGE_ENTRY_COUNT
       /\ bootstrap_pa_reserved(b) + 3 + physmap_l1_cnt(b) * (1 + PAGE_ENTRY_COUNT)
            <= b.ram_size

VARIABLES
  boot,             \* one of Boots
  tables,           \* page of memory -> the entries of the table in it
  allocation_ptr,
  call,             \* which call of vm_init_map_contiguous is running
  locals,           \* its indexes, tables and loop counter
  ttbr1,            \* the root the MMU translates with
  pfa_reserved      \* what pmap_pfa_init was told is reserved

vars == <<boot, tables, allocation_ptr, call, locals, ttbr1, pfa_reserved>>

table_base == bootstrap_pa_reserved(boot)

RX == "NORMAL_KERN_RX"
RO == "NORMAL_KERN_RO"
RW == "NORMAL_KERN_RW"
DEVICE == "DEVICE_KERN_RW"
Templates == {RX, RO, RW, DEVICE}

----------------------------------------------------------------------------
(* The five calls of vm_init_map_contiguous                                 *)

Mapping(template, vm_base, phys_base, page_count) ==
  [ template |-> template, vm_base |-> vm_base,
    phys_base |-> phys_base, page_count |-> page_count ]

(* Maps only the memory in use when the map is built.                       *)
PhysmapPages_in_use(b) == bootstrap_pa_reserved(b)

PhysmapPages(b) == b.ram_size

Mappings(b) ==
  LET ro_data == b.text
      rw_data == b.text + b.ro_data
      physmap == physmap_vm_base(b)
  IN  << Mapping(RX, 0, b.kernel_base, b.text),
         Mapping(RO, ro_data, b.kernel_base + ro_data, b.ro_data),
         Mapping(RW, rw_data, b.kernel_base + rw_data, b.rw_data),
         Mapping(RW, physmap, 0, PhysmapPages(b)),
         Mapping(DEVICE, physmap + MMIO_BASE, MMIO_BASE, MMIO_END - MMIO_BASE) >>

mapping == Mappings(boot)[call]

L1Index(va) == va \div VM_L1_ENTRY_SIZE
L2Index(va) == (va \div VM_L2_ENTRY_SIZE) % PAGE_ENTRY_COUNT
L3Index(va) == va % PAGE_ENTRY_COUNT

(* Takes every range to begin at a table of its own.                        *)
Start_aligned(m) ==
  [ l1_i |-> L1Index(m.vm_base), l2_i |-> L2Index(m.vm_base), l3_i |-> 0,
    l2 |-> PHYS_ADDR_INVALID, l3 |-> PHYS_ADDR_INVALID, page_i |-> 0 ]

Start(m) ==
  [ l1_i |-> L1Index(m.vm_base), l2_i |-> L2Index(m.vm_base), l3_i |-> L3Index(m.vm_base),
    l2 |-> PHYS_ADDR_INVALID, l3 |-> PHYS_ADDR_INVALID, page_i |-> 0 ]

(* Goes on in the same third-level table.                                   *)
Advance_keeps_l3(w) ==
  [w EXCEPT !.page_i = @ + 1, !.l3_i = (@ + 1) % PAGE_ENTRY_COUNT]

(* The next entry; at the end of a table, the next table is looked up.      *)
Advance(w) ==
  LET l3_full == w.l3_i + 1 >= PAGE_ENTRY_COUNT
      l2_full == l3_full /\ w.l2_i + 1 >= PAGE_ENTRY_COUNT
  IN  [ page_i |-> w.page_i + 1,
        l3_i |-> IF l3_full THEN 0 ELSE w.l3_i + 1,
        l3   |-> IF l3_full THEN PHYS_ADDR_INVALID ELSE w.l3,
        l2_i |-> IF l2_full THEN 0 ELSE IF l3_full THEN w.l2_i + 1 ELSE w.l2_i,
        l2   |-> IF l2_full THEN PHYS_ADDR_INVALID ELSE w.l2,
        l1_i |-> IF l2_full THEN w.l1_i + 1 ELSE w.l1_i ]

----------------------------------------------------------------------------
(* The arena and the tables                                                 *)

EmptyTable == [i \in Indexes |-> PTE_INVALID]
Entry(frame, template) == [frame |-> frame, template |-> template]
TableEntry(page) == Entry(page, "TABLE_KERN_ONLY")

(* No page is the invalid address, no entry that refers to a page is the    *)
(* invalid one (that is 0, and every template has PTE_VALID set), and the   *)
(* bootstrap tables are not in the arena.                                   *)
ASSUME InvalidAssumption ==
  /\ PHYS_ADDR_INVALID \notin Nat
  /\ PTE_INVALID \notin [frame : Nat, template : Templates \cup {"TABLE_KERN_ONLY"}]
  /\ BootstrapTable \notin Nat

Cleared(page) ==
  [ p \in DOMAIN tables \cup {page} |-> IF p = page THEN EmptyTable ELSE tables[p] ]

(* Tests a bit that the entries of tables do not have.                      *)
pte_to_phys_addr_never_valid(pte) == PHYS_ADDR_INVALID

pte_to_phys_addr(pte) == IF pte = PTE_INVALID THEN PHYS_ADDR_INVALID ELSE pte.frame

IsPresent(base, i) == pte_to_phys_addr(tables[base][i]) # PHYS_ADDR_INVALID

(* The table that entry i of a table refers to, a new one if there is none. *)
LookupResult(base, i) ==
  IF IsPresent(base, i) THEN pte_to_phys_addr(tables[base][i]) ELSE allocation_ptr

(* Leaves the arena's pointer where it is.                                  *)
AllocatePage_in_place(page) == allocation_ptr' = page

AllocatePage(page) == allocation_ptr' = page + 1

table_lookup_allocating(base, i) ==
  IF IsPresent(base, i)
  THEN UNCHANGED <<tables, allocation_ptr>>
  ELSE /\ AllocatePage(allocation_ptr)
       /\ tables' = [Cleared(allocation_ptr) EXCEPT ![base][i] = TableEntry(allocation_ptr)]

Init ==
  /\ boot \in Boots
  /\ tables = [p \in {table_base} |-> EmptyTable]
  /\ allocation_ptr = table_base + 1
  /\ call = 1
  /\ locals = Start(mapping)
  /\ ttbr1 = BootstrapTable
  /\ pfa_reserved = PHYS_ADDR_INVALID

Mapped == locals.page_i = mapping.page_count

LookupL2 ==
  /\ ~ Mapped
  /\ locals.l2 = PHYS_ADDR_INVALID
  /\ table_lookup_allocating(table_base, locals.l1_i)
  /\ locals' = [locals EXCEPT !.l2 = LookupResult(table_base, locals.l1_i)]
  /\ UNCHANGED <<boot, call, ttbr1, pfa_reserved>>

LookupL3 ==
  /\ ~ Mapped
  /\ locals.l2 # PHYS_ADDR_INVALID
  /\ locals.l3 = PHYS_ADDR_INVALID
  /\ table_lookup_allocating(locals.l2, locals.l2_i)
  /\ locals' = [locals EXCEPT !.l3 = LookupResult(locals.l2, locals.l2_i)]
  /\ UNCHANGED <<boot, call, ttbr1, pfa_reserved>>

EntryIsFree == tables[locals.l3][locals.l3_i] = PTE_INVALID

RollsOver ==
  /\ Advance(locals).l1_i >= PAGE_ENTRY_COUNT
  /\ locals.page_i + 1 < mapping.page_count

WriteEntry ==
  /\ ~ Mapped
  /\ locals.l2 # PHYS_ADDR_INVALID
  /\ locals.l3 # PHYS_ADDR_INVALID
  /\ EntryIsFree
  /\ tables' = [tables EXCEPT ![locals.l3][locals.l3_i] =
                  Entry(mapping.phys_base + locals.page_i, mapping.template)]
  /\ ~ RollsOver
  /\ locals' = Advance(locals)
  /\ UNCHANGED <<boot, allocation_ptr, call, ttbr1, pfa_reserved>>

NextMapping ==
  /\ Mapped
  /\ call < Len(Mappings(boot))
  /\ call' = call + 1
  /\ locals' = Start(Mappings(boot)[call + 1])
  /\ UNCHANGED <<boot, tables, allocation_ptr, ttbr1, pfa_reserved>>

vm_bootstrap_switch_to_pmap_kernel ==
  /\ Mapped
  /\ call = Len(Mappings(boot))
  /\ ttbr1 = BootstrapTable
  /\ ttbr1' = table_base
  /\ UNCHANGED <<boot, tables, allocation_ptr, call, locals, pfa_reserved>>

(* Hands over what the bootstrap code reserved, without the tables.         *)
pmap_pfa_init_bootstrap_only ==
  /\ ttbr1 # BootstrapTable
  /\ pfa_reserved = PHYS_ADDR_INVALID
  /\ pfa_reserved' = bootstrap_pa_reserved(boot)
  /\ UNCHANGED <<boot, tables, allocation_ptr, call, locals, ttbr1>>

pmap_pfa_init ==
  /\ ttbr1 # BootstrapTable
  /\ pfa_reserved = PHYS_ADDR_INVALID
  /\ pfa_reserved' = allocation_ptr
  /\ UNCHANGED <<boot, tables, allocation_ptr, call, locals, ttbr1>>

Next ==
  \/ LookupL2 \/ LookupL3 \/ WriteEntry \/ NextMapping
  \/ vm_bootstrap_switch_to_pmap_kernel \/ pmap_pfa_init

Spec == Init /\ [][Next]_vars

(* The boot core keeps executing.                                           *)
FairSpec == Spec /\ WF_vars(Next)

----------------------------------------------------------------------------
(* The walk of the MMU through the tables under a root.                     *)
EntryAt(entry, i) ==
  IF entry = PTE_INVALID THEN PTE_INVALID ELSE tables[entry.frame][i]

Walk(va) ==
  EntryAt(EntryAt(EntryAt(TableEntry(table_base), L1Index(va)), L2Index(va)), L3Index(va))

PhysicalPages == 0 .. MMIO_END - 1

(* Tables that appear on demand are invisible: the builder fills an address *)
(* space page by page and never disturbs a page it has mapped.              *)
Space == INSTANCE AddressSpace WITH
  Pages <- VirtualPages, Frames <- PhysicalPages, Unmapped <- PTE_INVALID,
  translation <- [va \in VirtualPages |-> Walk(va)], active <- ttbr1 # BootstrapTable
ImplementsAddressSpace == Space!Spec

(* At every moment exactly the pages that vm_init_map_contiguous has got to *)
(* translate, each to its frame with its attributes, whatever table ends    *)
(* its index crosses; no other address translates.                          *)
Done(c) == IF c < call THEN Mappings(boot)[c].page_count
           ELSE IF c = call THEN locals.page_i ELSE 0

Asked(va, c) == va - Mappings(boot)[c].vm_base \in 0 .. Done(c) - 1

MapsWhatWasAsked ==
  \A va \in VirtualPages :
    /\ \A c \in 1 .. Len(Mappings(boot)) : Asked(va, c) =>
         LET m == Mappings(boot)[c]
         IN  Walk(va) = Entry(m.phys_base + (va - m.vm_base), m.template)
    /\ (\A c \in 1 .. Len(Mappings(boot)) : ~ Asked(va, c)) => Walk(va) = PTE_INVALID

(* The tables are the arena's pages, all of them, and form a tree: each but *)
(* the root is referred to by exactly one entry.                            *)
References(page) ==
  { ref \in (DOMAIN tables) \X Indexes : tables[ref[1]][ref[2]] = TableEntry(page) }

TablesFormATree ==
  /\ DOMAIN tables = table_base .. allocation_ptr - 1
  /\ \A p \in DOMAIN tables :
       Cardinality(References(p)) = IF p = table_base THEN 0 ELSE 1

(* When the kernel leaves the bootstrap tables its image stays where it was *)
(* and it reaches, through the physmap, its tables and all other RAM.       *)
SwitchIsSafe ==
  ttbr1 # BootstrapTable =>
    /\ \A i \in 0 .. KernelSize(boot) - 1 : Walk(i).frame = boot.kernel_base + i
    /\ DOMAIN tables \subseteq 0 .. boot.ram_size - 1
    /\ \A p \in 0 .. boot.ram_size - 1 :
         Walk(physmap_vm_base(boot) + p) = Entry(p, RW)

(* The page-frame allocator never gives out a page of the image, the boot   *)
(* stacks or the tables: all are below what it is told is reserved, and     *)
(* that leaves it memory in RAM.                                            *)
HandOverCoversTables ==
  pfa_reserved # PHYS_ADDR_INVALID =>
    /\ \A p \in DOMAIN tables : p < pfa_reserved
    /\ bootstrap_pa_reserved(boot) <= pfa_reserved
    /\ pfa_reserved <= boot.ram_size

(* pmap_vm_init returns: vm_init_map_contiguous finds no entry in use where *)
(* ranges meet in one table, and its first-level index does not run over.   *)
BuildEnds == <> (pfa_reserved # PHYS_ADDR_INVALID)

=============================================================================
