--------------------------- MODULE PmapInit_proofs ---------------------------
(* Theorems about PmapInit for every size of table, every kernel and every  *)
(* amount of RAM. The inductive invariant says which of the arena's pages   *)
(* is a table of which level, where the loop of vm_init_map_contiguous has  *)
(* got to, how much of the arena is used by then, and what translates.      *)
EXTENDS PmapInit, FiniteSetTheorems, TLAPS

----------------------------------------------------------------------------
(* The inductive invariant                                                  *)

N == PAGE_ENTRY_COUNT

(* The page that index a of the root, b of the second and c of the third    *)
(* level lead to.                                                           *)
Digits(a, b, c) == (a * N + b) * N + c

Leaf == [frame : Nat, template : Templates]

(* The second-level tables are those the root refers to.                    *)
IsL2(p) == \E i \in Indexes : tables[table_base][i] = TableEntry(p)

RefersTo(p, i, q) == tables[p][i] = TableEntry(q)

Arena ==
  /\ boot \in Boots
  /\ allocation_ptr \in Nat /\ table_base < allocation_ptr
  /\ DOMAIN tables = table_base .. allocation_ptr - 1
  /\ tables = [ p \in DOMAIN tables |-> tables[p] ]
  /\ \A p \in DOMAIN tables : tables[p] = [ i \in Indexes |-> tables[p][i] ]

(* Every entry of the root and of a second-level table is empty or refers   *)
(* to another table of the arena, every entry of any other table is empty   *)
(* or maps a page, and every table but the root is referred to once.        *)
Tree ==
  /\ \A p \in DOMAIN tables : \A i \in Indexes :
       \/ tables[p][i] = PTE_INVALID
       \/ /\ p = table_base \/ IsL2(p)
          /\ \E q \in DOMAIN tables \ {table_base} : RefersTo(p, i, q)
       \/ /\ p # table_base /\ ~ IsL2(p)
          /\ tables[p][i] \in Leaf
  /\ \A q \in DOMAIN tables \ {table_base} :
       \E p \in DOMAIN tables, i \in Indexes : RefersTo(p, i, q)
  /\ \A q \in DOMAIN tables : \A p, r \in DOMAIN tables : \A i, j \in Indexes :
       RefersTo(p, i, q) /\ RefersTo(r, j, q) => p = r /\ i = j

LocalsType == [ l1_i : Nat, l2_i : Indexes, l3_i : Indexes, page_i : Nat,
                l2 : Nat \cup {PHYS_ADDR_INVALID}, l3 : Nat \cup {PHYS_ADDR_INVALID} ]

(* The indexes are the digits of the page that is mapped next, and tables   *)
(* that have been looked up are those on the way to it.                     *)
Loop ==
  /\ call \in 1 .. Len(Mappings(boot))
  /\ locals \in LocalsType
  /\ locals.page_i <= mapping.page_count
  /\ Digits(locals.l1_i, locals.l2_i, locals.l3_i) = mapping.vm_base + locals.page_i
  /\ locals.l2 # PHYS_ADDR_INVALID =>
       /\ locals.l1_i \in Indexes /\ locals.l2 \in DOMAIN tables
       /\ RefersTo(table_base, locals.l1_i, locals.l2)
  /\ locals.l3 # PHYS_ADDR_INVALID =>
       /\ locals.l2 # PHYS_ADDR_INVALID /\ locals.l3 \in DOMAIN tables
       /\ RefersTo(locals.l2, locals.l2_i, locals.l3)

L2Used(a) == IF a \in Indexes /\ tables[table_base][a] # PTE_INVALID THEN 1 ELSE 0
L3Used(a, b) ==
  IF a \in Indexes /\ EntryAt(tables[table_base][a], b) # PTE_INVALID THEN 1 ELSE 0

(* The index of the physmap in the root.                                    *)
PhysmapFirst(b) == N - physmap_l1_cnt(b)

(* The arena's pages in use: the root, two tables for the image, and one    *)
(* for each index of the physmap that was passed.                           *)
Room ==
  LET used == L2Used(locals.l1_i) + L3Used(locals.l1_i, locals.l2_i)
  IN  /\ call <= 3 => allocation_ptr <= table_base + 1 + used
      /\ call > 3 => allocation_ptr <=
           table_base + 3 + (locals.l1_i - PhysmapFirst(boot)) * (N + 1) + locals.l2_i + used

(* The tables are used when all is mapped, and handed over when they are.   *)
Phases ==
  /\ ttbr1 \in {BootstrapTable, table_base}
  /\ ttbr1 # BootstrapTable => call = Len(Mappings(boot)) /\ Mapped
  /\ pfa_reserved # PHYS_ADDR_INVALID =>
       ttbr1 # BootstrapTable /\ pfa_reserved = allocation_ptr

IInv == Arena /\ Tree /\ Loop /\ Room /\ Phases /\ MapsWhatWasAsked

(* The assertions of vm_init_map_contiguous: an entry is written once, and  *)
(* the index of the root does not run over.                                 *)
WritesAreFresh ==
  ~ Mapped /\ locals.l2 # PHYS_ADDR_INVALID /\ locals.l3 # PHYS_ADDR_INVALID =>
    EntryIsFree /\ ~ RollsOver

----------------------------------------------------------------------------
(* Indexes                                                                  *)

(* There is only one quotient and one remainder.                            *)
LEMMA QuotientUnique ==
  ASSUME NEW s \in Nat, NEW n \in Nat \ {0}, NEW k \in 0 .. n - 1
  PROVE  (s * n + k) \div n = s /\ (s * n + k) % n = k
  OBVIOUS

(* Every number has them.                                                   *)
LEMMA QuotientExists ==
  ASSUME NEW p \in Nat, NEW n \in Nat \ {0}
  PROVE  \E s \in Nat : \E k \in 0 .. n - 1 : p = s * n + k
<1>1. p \div n \in Nat /\ p % n \in 0 .. n - 1 /\ p = n * (p \div n) + (p % n)
  OBVIOUS
<1>2. p = (p \div n) * n + (p % n)
  BY <1>1
<1> QED
  BY <1>1, <1>2

(* Products grow with their factors.                                        *)
LEMMA ProductGrows ==
  ASSUME NEW a \in Nat, NEW b \in Nat, a <= b, NEW n \in Nat
  PROVE  a * n \in Nat /\ b * n \in Nat /\ a * n <= b * n
<1>1. PICK d \in Nat : b = a + d
  OBVIOUS
<1>2. b * n = a * n + d * n
  BY <1>1
<1>3. a * n \in Nat /\ b * n \in Nat /\ d * n \in Nat
  OBVIOUS
<1> QED
  BY <1>2, <1>3

(* Tables have entries.                                                     *)
LEMMA CountType == N \in Nat \ {0} /\ N * N \in Nat \ {0} /\ VM_L1_ENTRY_SIZE = N * N
                   /\ 0 \in Indexes /\ Indexes = 0 .. N - 1
<1>1. N \in Nat \ {0}
  BY BootAssumption DEF N
<1>2. N * N \in Nat \ {0}
  BY <1>1
<1> QED
  BY <1>1, <1>2 DEF VM_L1_ENTRY_SIZE, Indexes, N

(* What L1Index, L2Index and L3Index find are the digits.                   *)
LEMMA DigitsOf ==
  ASSUME NEW a \in Nat, NEW b \in Indexes, NEW c \in Indexes
  PROVE  /\ Digits(a, b, c) \in Nat
         /\ L1Index(Digits(a, b, c)) = a
         /\ L2Index(Digits(a, b, c)) = b
         /\ L3Index(Digits(a, b, c)) = c
<1>1. /\ N \in Nat \ {0} /\ N * N \in Nat \ {0} /\ VM_L1_ENTRY_SIZE = N * N
      /\ b \in 0 .. N - 1 /\ c \in 0 .. N - 1 /\ b \in Nat /\ c \in Nat
  BY CountType
<1>2. PICK s : s = a * N + b
  OBVIOUS
<1>3. s \in Nat /\ s % N = b
  <2>1. a * N \in Nat
    BY <1>1
  <2> QED
    BY <1>1, <1>2, <2>1, QuotientUnique
<1>4. Digits(a, b, c) = s * N + c
  BY <1>2 DEF Digits
<1>5. Digits(a, b, c) \div N = s /\ Digits(a, b, c) % N = c /\ Digits(a, b, c) \in Nat
  <2>1. s * N \in Nat
    BY <1>1, <1>3
  <2>2. (s * N + c) \div N = s /\ (s * N + c) % N = c
    BY <1>1, <1>3, QuotientUnique
  <2>3. s * N + c \in Nat
    BY <1>1, <2>1
  <2> QED
    BY <1>4, <2>2, <2>3
<1>6. Digits(a, b, c) = a * (N * N) + (b * N + c)
  BY <1>1, <1>2, <1>4
<1>7. b * N + c \in 0 .. N * N - 1
  <2>1. b * N \in Nat /\ (N - 1) * N \in Nat /\ b * N <= (N - 1) * N
    BY <1>1, ProductGrows
  <2>2. (N - 1) * N = N * N - N
    BY <1>1
  <2> QED
    BY <1>1, <2>1, <2>2
<1>8. Digits(a, b, c) \div (N * N) = a
  BY <1>1, <1>6, <1>7, QuotientUnique
<1> QED
  BY <1>1, <1>3, <1>5, <1>8 DEF L1Index, L2Index, L3Index, VM_L2_ENTRY_SIZE, N

(* Every virtual page has three indexes.                                    *)
LEMMA DigitsExist ==
  ASSUME NEW va \in Nat
  PROVE  \E a \in Nat : \E b, c \in Indexes : va = Digits(a, b, c)
<1>1. N \in Nat \ {0} /\ Indexes = 0 .. N - 1
  BY CountType
<1>2. PICK s \in Nat, c \in 0 .. N - 1 : va = s * N + c
  BY <1>1, QuotientExists
<1>3. PICK a \in Nat, b \in 0 .. N - 1 : s = a * N + b
  BY <1>1, QuotientExists
<1> QED
  BY <1>1, <1>2, <1>3 DEF Digits

(* A page is virtual if its first index is one.                             *)
LEMMA VirtualDigits ==
  ASSUME NEW a \in Nat, NEW b \in Indexes, NEW c \in Indexes
  PROVE  Digits(a, b, c) \in VirtualPages <=> a \in Indexes
<1>1. /\ N \in Nat \ {0} /\ N * N \in Nat \ {0} /\ VM_L1_ENTRY_SIZE = N * N
      /\ Indexes = 0 .. N - 1 /\ b \in Nat /\ c \in Nat
  BY CountType
<1>2. PICK s : s = N * N
  OBVIOUS
<1>3. PICK k \in 0 .. s - 1 : Digits(a, b, c) = a * s + k
  <2>1. b * N \in Nat /\ (N - 1) * N \in Nat /\ b * N <= (N - 1) * N
    BY <1>1, ProductGrows
  <2>2. (N - 1) * N = N * N - N
    BY <1>1
  <2>3. b * N + c \in 0 .. s - 1
    BY <1>1, <1>2, <2>1, <2>2
  <2>4. Digits(a, b, c) = a * s + (b * N + c)
    BY <1>1, <1>2 DEF Digits
  <2> QED
    BY <2>3, <2>4
<1>4. VirtualPages = 0 .. N * s - 1 /\ N * s \in Nat /\ s \in Nat /\ a * s \in Nat
  <2>1. VirtualPages = 0 .. N * s - 1
    BY <1>1, <1>2 DEF VirtualPages, N
  <2> QED
    BY <1>1, <1>2, <2>1
<1>5. CASE a <= N - 1
  <2>1. a * s <= (N - 1) * s /\ (N - 1) * s = N * s - s /\ (N - 1) * s \in Nat
    <3>1. a * s <= (N - 1) * s
      BY <1>1, <1>4, <1>5, ProductGrows
    <3> QED
      BY <1>1, <1>4, <3>1
  <2>2. a * s + k \in 0 .. N * s - 1
    BY <1>3, <1>4, <2>1
  <2> QED
    BY <1>1, <1>3, <1>4, <1>5, <2>2
<1>6. CASE N <= a
  <2>1. N * s <= a * s
    BY <1>1, <1>4, <1>6, ProductGrows
  <2>2. a * s + k \notin 0 .. N * s - 1
    BY <1>3, <1>4, <2>1
  <2> QED
    BY <1>1, <1>3, <1>4, <1>6, <2>2
<1> QED
  BY <1>1, <1>5, <1>6

(* What Advance does to the indexes is to count.                            *)
LEMMA NextDigits ==
  ASSUME NEW a \in Nat, NEW b \in Indexes, NEW c \in Indexes
  PROVE  /\ c + 1 < N => c + 1 \in Indexes /\ Digits(a, b, c + 1) = Digits(a, b, c) + 1
         /\ c + 1 >= N /\ b + 1 < N =>
              b + 1 \in Indexes /\ Digits(a, b + 1, 0) = Digits(a, b, c) + 1
         /\ c + 1 >= N /\ b + 1 >= N => Digits(a + 1, 0, 0) = Digits(a, b, c) + 1
<1>1. N \in Nat \ {0} /\ Indexes = 0 .. N - 1 /\ b \in Nat /\ c \in Nat
  BY CountType
<1>2. Digits(a, b, c + 1) = Digits(a, b, c) + 1
  <2>1. a * N \in Nat /\ (a * N + b) * N \in Nat
    BY <1>1
  <2> QED
    BY <1>1, <2>1 DEF Digits
<1>3. Digits(a, b + 1, 0) = Digits(a, b, N)
  <2>1. PICK s \in Nat : s = a * N + b /\ a * N + (b + 1) = s + 1
    BY <1>1
  <2>2. (s + 1) * N + 0 = s * N + N
    BY <1>1
  <2> QED
    BY <2>1, <2>2 DEF Digits
<1>4. Digits(a + 1, 0, 0) = Digits(a, N, 0)
  <2>1. (a + 1) * N + 0 = a * N + N
    BY <1>1
  <2> QED
    BY <2>1 DEF Digits
<1>5. c + 1 >= N => c + 1 = N
  BY <1>1
<1>6. b + 1 >= N => b + 1 = N
  BY <1>1
<1>7. 0 \in Indexes /\ (c + 1 < N => c + 1 \in Indexes) /\ (b + 1 < N => b + 1 \in Indexes)
  BY <1>1
<1> QED
  BY <1>2, <1>3, <1>4, <1>5, <1>6, <1>7

----------------------------------------------------------------------------
(* The five mappings                                                        *)

(* What is asked of a boot, in terms of N.                                  *)
LEMMA BootFacts ==
  ASSUME NEW b \in Boots
  PROVE  /\ b.kernel_base \in Nat /\ b.text \in Nat /\ b.ro_data \in Nat /\ b.rw_data \in Nat
         /\ b.ram_size \in Nat
         /\ b.text + b.ro_data + b.rw_data < N
         /\ b.kernel_base + (b.text + b.ro_data + b.rw_data) <= bootstrap_pa_reserved(b)
         /\ b.ram_size <= MMIO_BASE
         /\ bootstrap_pa_reserved(b) \in Nat
         /\ bootstrap_pa_reserved(b) + 3 + physmap_l1_cnt(b) * (N + 1) <= b.ram_size
<1>0. BootstrapPages \in Nat /\ KernelSize(b) = b.text + b.ro_data + b.rw_data
  BY BootAssumption DEF KernelSize
<1>1. /\ b \in [kernel_base : Nat, text : Nat, ro_data : Nat, rw_data : Nat, ram_size : Nat]
      /\ KernelSize(b) < N
      /\ b.ram_size <= MMIO_BASE
      /\ bootstrap_pa_reserved(b) + 3 + physmap_l1_cnt(b) * (1 + PAGE_ENTRY_COUNT) <= b.ram_size
  BY BootAssumption DEF N
<1>2. 1 + PAGE_ENTRY_COUNT = N + 1
  BY CountType DEF N
<1>3. bootstrap_pa_reserved(b) = b.kernel_base + (b.text + b.ro_data + b.rw_data) + BootstrapPages
  BY <1>0 DEF bootstrap_pa_reserved
<1>4. /\ bootstrap_pa_reserved(b) \in Nat
      /\ b.kernel_base + (b.text + b.ro_data + b.rw_data) <= bootstrap_pa_reserved(b)
  BY <1>0, <1>1, <1>3
<1> QED
  BY <1>0, <1>1, <1>2, <1>4

(* The physmap takes the last entries of the root, and not the first; RAM   *)
(* and the devices fit it.                                                  *)
LEMMA PhysmapFits ==
  ASSUME NEW b \in Boots
  PROVE  /\ physmap_l1_cnt(b) \in Nat
         /\ PhysmapFirst(b) \in 1 .. N
         /\ physmap_vm_base(b) = PhysmapFirst(b) * (N * N)
         /\ physmap_vm_base(b) \in Nat /\ N <= physmap_vm_base(b)
         /\ physmap_vm_base(b) + MMIO_END <= N * (N * N)
<1>1. /\ N \in Nat \ {0} /\ VM_L1_ENTRY_SIZE = N * N
      /\ MMIO_END \in Nat /\ b.ram_size \in Nat /\ physmap_l1_cnt(b) < N
  BY CountType, BootFacts, BootAssumption DEF N
<1>2. PICK s \in Nat \ {0} : s = N * N
  BY CountType
<1>3. PICK size \in Nat : size = Greater(b.ram_size, MMIO_END) /\ MMIO_END <= size
  BY <1>1 DEF Greater
<1>4. PICK q \in Nat, r \in 0 .. s - 1 : size + s - 1 = q * s + r
  <2>1. size + s - 1 \in Nat
    BY <1>2, <1>3
  <2> QED
    BY <1>2, <2>1, QuotientExists
<1>5. physmap_l1_cnt(b) = q
  <2>1. physmap_l1_cnt(b) = (q * s + r) \div s
    BY <1>1, <1>2, <1>3, <1>4 DEF physmap_l1_cnt, RoundedUpTo
  <2> QED
    BY <1>2, <1>4, <2>1, QuotientUnique
<1>6. MMIO_END <= q * s /\ q * s \in Nat
  <2>1. q * s \in Nat
    OBVIOUS
  <2> QED
    BY <1>1, <1>3, <1>4, <2>1
<1>7. PICK d \in Nat \ {0} : d = PhysmapFirst(b) /\ N = d + q
  BY <1>1, <1>5 DEF PhysmapFirst
<1>8. physmap_vm_base(b) = d * s
  <2>1. physmap_vm_base(b) = s * d
    BY <1>1, <1>2, <1>7 DEF physmap_vm_base, PhysmapFirst, N
  <2> QED
    BY <2>1
<1>9. d * s \in Nat /\ N * s = d * s + q * s /\ N <= d * s
  <2>1. N * s = d * s + q * s /\ d * s \in Nat
    BY <1>7
  <2>2. 1 * s <= d * s
    BY <1>2, <1>7, ProductGrows
  <2>3. 1 * N <= N * N
    BY <1>1, ProductGrows
  <2> QED
    BY <1>1, <1>2, <2>1, <2>2, <2>3
<1>10. physmap_vm_base(b) + MMIO_END <= N * s
  BY <1>1, <1>6, <1>8, <1>9
<1> QED
  BY <1>1, <1>2, <1>5, <1>7, <1>8, <1>9, <1>10

(* Each mapping lies in the virtual pages above those before it; the first  *)
(* three fit one table, the others lie in the physmap.                      *)
LEMMA MappingFacts ==
  ASSUME NEW b \in Boots
  PROVE  LET M == Mappings(b)
         IN  /\ Len(M) = 5
             /\ \A c \in 1 .. 5 :
                  /\ M[c].template \in Templates /\ M[c].vm_base \in Nat
                  /\ M[c].phys_base \in Nat /\ M[c].page_count \in Nat
                  /\ M[c].phys_base + M[c].page_count <= MMIO_END
                  /\ M[c].vm_base + M[c].page_count <= N * (N * N)
                  /\ c <= 3 => M[c].vm_base + M[c].page_count < N
                  /\ c > 3 => physmap_vm_base(b) <= M[c].vm_base
             /\ \A c, d \in 1 .. 5 : c < d => M[c].vm_base + M[c].page_count <= M[d].vm_base
<1> DEFINE M == Mappings(b)
           P == physmap_vm_base(b)
<1>0. /\ N \in Nat /\ MMIO_BASE \in Nat /\ MMIO_END \in Nat /\ MMIO_BASE < MMIO_END
      /\ P \in Nat /\ N <= P /\ P + MMIO_END <= N * (N * N) /\ N * (N * N) \in Nat
  BY CountType, PhysmapFits, BootAssumption
<1>1. /\ b.kernel_base \in Nat /\ b.text \in Nat /\ b.ro_data \in Nat /\ b.rw_data \in Nat
      /\ b.ram_size \in Nat
      /\ b.text + b.ro_data + b.rw_data < N
      /\ b.kernel_base + (b.text + b.ro_data + b.rw_data) <= b.ram_size
      /\ b.ram_size <= MMIO_BASE
  <2>1. PICK q \in Nat : q = physmap_l1_cnt(b) * (N + 1)
    BY <1>0, PhysmapFits
  <2>2. bootstrap_pa_reserved(b) + 3 + q <= b.ram_size
    BY <2>1, BootFacts
  <2> QED
    BY <1>0, <2>1, <2>2, BootFacts
<1>2. /\ M = << Mapping(RX, 0, b.kernel_base, b.text),
                Mapping(RO, b.text, b.kernel_base + b.text, b.ro_data),
                Mapping(RW, b.text + b.ro_data, b.kernel_base + (b.text + b.ro_data), b.rw_data),
                Mapping(RW, P, 0, b.ram_size),
                Mapping(DEVICE, P + MMIO_BASE, MMIO_BASE, MMIO_END - MMIO_BASE) >>
  BY DEF Mappings, PhysmapPages
<1> HIDE DEF M, P
<1>3. /\ Len(M) = 5
      /\ M[1].template = RX /\ M[1].vm_base = 0 /\ M[1].phys_base = b.kernel_base
      /\ M[1].page_count = b.text
      /\ M[2].template = RO /\ M[2].vm_base = b.text
      /\ M[2].phys_base = b.kernel_base + b.text /\ M[2].page_count = b.ro_data
      /\ M[3].template = RW /\ M[3].vm_base = b.text + b.ro_data
      /\ M[3].phys_base = b.kernel_base + (b.text + b.ro_data) /\ M[3].page_count = b.rw_data
      /\ M[4].template = RW /\ M[4].vm_base = P /\ M[4].phys_base = 0
      /\ M[4].page_count = b.ram_size
      /\ M[5].template = DEVICE /\ M[5].vm_base = P + MMIO_BASE /\ M[5].phys_base = MMIO_BASE
      /\ M[5].page_count = MMIO_END - MMIO_BASE
  BY <1>2 DEF Mapping
<1>4. \A c \in 1 .. 5 : c = 1 \/ c = 2 \/ c = 3 \/ c = 4 \/ c = 5
  OBVIOUS
<1>5. ASSUME NEW c \in 1 .. 5
      PROVE  /\ M[c].template \in Templates /\ M[c].vm_base \in Nat
             /\ M[c].phys_base \in Nat /\ M[c].page_count \in Nat
             /\ M[c].phys_base + M[c].page_count <= MMIO_END
             /\ M[c].vm_base + M[c].page_count <= N * (N * N)
             /\ c <= 3 => M[c].vm_base + M[c].page_count < N
             /\ c > 3 => P <= M[c].vm_base
  <2>1. PICK big \in Nat : big = N * (N * N) /\ P + MMIO_END <= big
    BY <1>0
  <2>2. M[c].template \in Templates
    BY <1>3, <1>4 DEF Templates
  <2>3. c \in {1, 2, 3} => /\ M[c].vm_base + M[c].page_count < N
                           /\ M[c].phys_base + M[c].page_count <= MMIO_END
                           /\ M[c].vm_base + M[c].page_count <= big
                           /\ M[c].vm_base \in Nat /\ M[c].phys_base \in Nat
                           /\ M[c].page_count \in Nat
    BY <1>0, <1>1, <1>3, <2>1
  <2>4. c \in {4, 5} => /\ M[c].phys_base + M[c].page_count <= MMIO_END
                        /\ M[c].vm_base + M[c].page_count <= big
                        /\ M[c].vm_base \in Nat /\ M[c].phys_base \in Nat
                        /\ M[c].page_count \in Nat /\ P <= M[c].vm_base
    BY <1>0, <1>1, <1>3, <2>1
  <2> QED
    BY <1>4, <2>1, <2>2, <2>3, <2>4
<1>6. ASSUME NEW c \in 1 .. 5, NEW d \in 1 .. 5, c < d
      PROVE  M[c].vm_base + M[c].page_count <= M[d].vm_base
  <2>1. CASE c = 1
    BY <1>0, <1>1, <1>3, <1>4, <1>6, <2>1
  <2>2. CASE c = 2
    BY <1>0, <1>1, <1>3, <1>4, <1>6, <2>2
  <2>3. CASE c = 3
    BY <1>0, <1>1, <1>3, <1>4, <1>6, <2>3
  <2>4. CASE c = 4
    BY <1>0, <1>1, <1>3, <1>4, <1>6, <2>4
  <2> QED
    BY <1>4, <1>6, <2>1, <2>2, <2>3, <2>4
<1> QED
  BY <1>3, <1>5, <1>6 DEF M, P

----------------------------------------------------------------------------
(* The locals of vm_init_map_contiguous                                     *)

(* They start at the digits of the first page, with no table looked up.     *)
LEMMA StartFacts ==
  ASSUME NEW m, m.vm_base \in Nat
  PROVE  LET w == Start(m)
         IN  /\ w \in LocalsType /\ w.page_i = 0
             /\ w.l2 = PHYS_ADDR_INVALID /\ w.l3 = PHYS_ADDR_INVALID
             /\ Digits(w.l1_i, w.l2_i, w.l3_i) = m.vm_base
<1>1. PICK a \in Nat, b \in Indexes, c \in Indexes : m.vm_base = Digits(a, b, c)
  BY DigitsExist
<1>2. L1Index(m.vm_base) = a /\ L2Index(m.vm_base) = b /\ L3Index(m.vm_base) = c
  BY <1>1, DigitsOf
<1> QED
  BY <1>1, <1>2 DEF Start, LocalsType

(* They move to the digits of the next page, and forget the tables whose    *)
(* index moved.                                                             *)
LEMMA AdvanceFacts ==
  ASSUME NEW w \in LocalsType
  PROVE  LET v == Advance(w)
         IN  /\ v \in LocalsType /\ v.page_i = w.page_i + 1
             /\ Digits(v.l1_i, v.l2_i, v.l3_i) = Digits(w.l1_i, w.l2_i, w.l3_i) + 1
             /\ \/ /\ v.l1_i = w.l1_i /\ v.l2_i = w.l2_i
                   /\ v.l2 = w.l2 /\ v.l3 = w.l3
                \/ /\ v.l1_i = w.l1_i /\ v.l2_i = w.l2_i + 1
                   /\ v.l2 = w.l2 /\ v.l3 = PHYS_ADDR_INVALID
                \/ /\ v.l1_i = w.l1_i + 1 /\ v.l2_i = 0 /\ w.l2_i = N - 1
                   /\ v.l2 = PHYS_ADDR_INVALID /\ v.l3 = PHYS_ADDR_INVALID
<1>1. /\ w.l1_i \in Nat /\ w.l2_i \in Indexes /\ w.l3_i \in Indexes /\ w.page_i \in Nat
      /\ w.l2 \in Nat \cup {PHYS_ADDR_INVALID} /\ w.l3 \in Nat \cup {PHYS_ADDR_INVALID}
  BY DEF LocalsType
<1>2. /\ N \in Nat \ {0} /\ Indexes = 0 .. N - 1 /\ 0 \in Indexes
      /\ w.l2_i \in 0 .. N - 1 /\ w.l3_i \in 0 .. N - 1
  BY <1>1, CountType
<1> DEFINE v == Advance(w)
<1>3. CASE w.l3_i + 1 < N
  <2>1. ~ (w.l3_i + 1 >= PAGE_ENTRY_COUNT)
    BY <1>2, <1>3 DEF N
  <2>2. v = [ page_i |-> w.page_i + 1, l3_i |-> w.l3_i + 1, l3 |-> w.l3,
              l2_i |-> w.l2_i, l2 |-> w.l2, l1_i |-> w.l1_i ]
    BY <2>1 DEF Advance
  <2>3. w.l3_i + 1 \in Indexes
        /\ Digits(w.l1_i, w.l2_i, w.l3_i + 1) = Digits(w.l1_i, w.l2_i, w.l3_i) + 1
    <3>1. PICK a \in Nat, b \in Indexes, c \in Indexes : a = w.l1_i /\ b = w.l2_i /\ c = w.l3_i
      BY <1>1, Zenon
    <3>2. c + 1 \in Indexes /\ Digits(a, b, c + 1) = Digits(a, b, c) + 1
      BY <1>3, <3>1, NextDigits
    <3> QED
      BY <3>1, <3>2
  <2>4. v \in LocalsType
    <3>1. w.page_i + 1 \in Nat /\ w.l3_i + 1 \in Indexes
      BY <1>1, <2>3
    <3>2. PICK i \in Nat, k \in Indexes : i = w.page_i + 1 /\ k = w.l3_i + 1
      BY <3>1
    <3>3. [ page_i |-> i, l3_i |-> k, l3 |-> w.l3,
            l2_i |-> w.l2_i, l2 |-> w.l2, l1_i |-> w.l1_i ] \in LocalsType
      BY <1>1 DEF LocalsType
    <3> QED
      BY <2>2, <3>2, <3>3
  <2> HIDE DEF v
  <2> QED
    BY <2>2, <2>3, <2>4 DEF v
<1>4. CASE w.l3_i + 1 >= N /\ w.l2_i + 1 < N
  <2>1. w.l3_i + 1 >= PAGE_ENTRY_COUNT /\ ~ (w.l2_i + 1 >= PAGE_ENTRY_COUNT)
    BY <1>2, <1>4 DEF N
  <2>2. v = [ page_i |-> w.page_i + 1, l3_i |-> 0, l3 |-> PHYS_ADDR_INVALID,
              l2_i |-> w.l2_i + 1, l2 |-> w.l2, l1_i |-> w.l1_i ]
    BY <2>1 DEF Advance
  <2>3. w.l2_i + 1 \in Indexes
        /\ Digits(w.l1_i, w.l2_i + 1, 0) = Digits(w.l1_i, w.l2_i, w.l3_i) + 1
    BY <1>1, <1>4, NextDigits
  <2>4. v \in LocalsType
    BY <1>1, <1>2, <2>2, <2>3 DEF LocalsType
  <2> HIDE DEF v
  <2> QED
    BY <2>2, <2>3, <2>4 DEF v
<1>5. CASE w.l3_i + 1 >= N /\ w.l2_i + 1 >= N
  <2>1. w.l3_i + 1 >= PAGE_ENTRY_COUNT /\ w.l2_i + 1 >= PAGE_ENTRY_COUNT
    BY <1>5 DEF N
  <2>2. v = [ page_i |-> w.page_i + 1, l3_i |-> 0, l3 |-> PHYS_ADDR_INVALID,
              l2_i |-> 0, l2 |-> PHYS_ADDR_INVALID, l1_i |-> w.l1_i + 1 ]
    BY <2>1 DEF Advance
  <2>3. w.l2_i = N - 1
    BY <1>2, <1>5
  <2>4. Digits(w.l1_i + 1, 0, 0) = Digits(w.l1_i, w.l2_i, w.l3_i) + 1
    BY <1>1, <1>5, NextDigits
  <2>5. v \in LocalsType
    BY <1>1, <1>2, <2>2 DEF LocalsType
  <2> HIDE DEF v
  <2> QED
    BY <2>2, <2>3, <2>4, <2>5 DEF v
<1> QED
  BY <1>2, <1>3, <1>4, <1>5

----------------------------------------------------------------------------
(* Entries and walks                                                        *)

(* No entry that refers to a page is the invalid one.                       *)
LEMMA EntriesAreValid ==
  /\ \A p \in Nat : TableEntry(p) # PTE_INVALID /\ TableEntry(p) \notin Leaf
  /\ \A e \in Leaf : e # PTE_INVALID
  /\ \A p, q : TableEntry(p) = TableEntry(q) => p = q
<1> DEFINE Valid == [frame : Nat, template : Templates \cup {"TABLE_KERN_ONLY"}]
<1>1. \A p \in Nat : TableEntry(p) \in Valid
  BY DEF TableEntry, Entry
<1>2. \A e \in Leaf : e \in Valid
  BY DEF Leaf
<1>3. \A p : TableEntry(p) \notin Leaf
  BY DEF TableEntry, Entry, Leaf, Templates, RX, RO, RW, DEVICE
<1>4. \A p, q : TableEntry(p) = TableEntry(q) => p = q
  <2>1. \A p : TableEntry(p).frame = p
    BY DEF TableEntry, Entry
  <2> QED
    BY <2>1
<1> QED
  BY <1>1, <1>2, <1>3, <1>4, InvalidAssumption

(* Whether an entry is there, and what it refers to.                        *)
LEMMA Presence ==
  ASSUME NEW p, NEW i,
         tables[p][i] = PTE_INVALID \/ \E q \in Nat : RefersTo(p, i, q)
  PROVE  /\ IsPresent(p, i) <=> tables[p][i] # PTE_INVALID
         /\ \A q \in Nat : RefersTo(p, i, q) => LookupResult(p, i) = q
<1>1. CASE tables[p][i] = PTE_INVALID
  <2>1. \A q \in Nat : ~ RefersTo(p, i, q)
    BY <1>1, EntriesAreValid DEF RefersTo
  <2> QED
    BY <1>1, <2>1 DEF IsPresent, pte_to_phys_addr
<1>2. ASSUME NEW q \in Nat, RefersTo(p, i, q)
      PROVE  IsPresent(p, i) /\ LookupResult(p, i) = q /\ tables[p][i] # PTE_INVALID
  <2>1. tables[p][i] # PTE_INVALID /\ tables[p][i].frame = q
    BY <1>2, EntriesAreValid DEF RefersTo, TableEntry, Entry
  <2>2. pte_to_phys_addr(tables[p][i]) = q /\ q # PHYS_ADDR_INVALID
    BY <2>1, InvalidAssumption DEF pte_to_phys_addr
  <2> QED
    BY <2>1, <2>2 DEF IsPresent, LookupResult
<1>3. \A q \in Nat : RefersTo(p, i, q) => LookupResult(p, i) = q
  BY <1>2
<1>4. IsPresent(p, i) <=> tables[p][i] # PTE_INVALID
  BY <1>1, <1>2
<1> QED
  BY <1>3, <1>4

(* The entry that three indexes lead to.                                    *)
Path(a, b, c) == EntryAt(EntryAt(tables[table_base][a], b), c)

(* The root is the first page of the arena.                                 *)
LEMMA BaseIsPage ==
  ASSUME Arena
  PROVE  /\ table_base \in Nat /\ table_base \in DOMAIN tables
         /\ DOMAIN tables \subseteq Nat /\ allocation_ptr \notin DOMAIN tables
<1>1. table_base \in Nat
  BY BootFacts DEF Arena, table_base
<1> QED
  BY <1>1 DEF Arena

(* A walk follows the digits of its page.                                   *)
LEMMA WalkIsPath ==
  ASSUME Arena, NEW a \in Indexes, NEW b \in Indexes, NEW c \in Indexes
  PROVE  Walk(Digits(a, b, c)) = Path(a, b, c)
<1>1. /\ L1Index(Digits(a, b, c)) = a
      /\ L2Index(Digits(a, b, c)) = b
      /\ L3Index(Digits(a, b, c)) = c
  <2>1. a \in Nat
    BY DEF Indexes
  <2> QED
    BY <2>1, DigitsOf
<1>2. EntryAt(TableEntry(table_base), a) = tables[table_base][a]
  BY BaseIsPage, EntriesAreValid DEF EntryAt, TableEntry, Entry
<1> QED
  BY <1>1, <1>2 DEF Walk, Path

----------------------------------------------------------------------------
(* A new table                                                              *)

(* table_lookup_allocating where there is no table: the arena's next page   *)
(* becomes an empty one.                                                    *)
NewTable(p, i) ==
  /\ tables[p][i] = PTE_INVALID
  /\ allocation_ptr' = allocation_ptr + 1
  /\ tables' = [Cleared(allocation_ptr) EXCEPT ![p][i] = TableEntry(allocation_ptr)]

(* It changes one entry, and its own are empty.                             *)
LEMMA NewTableEntries ==
  ASSUME Arena, NEW p \in DOMAIN tables, NEW i \in Indexes, NewTable(p, i)
  PROVE  LET n == allocation_ptr
         IN  /\ DOMAIN tables' = DOMAIN tables \cup {n}
             /\ n \notin DOMAIN tables /\ n \in Nat
             /\ n # p
             /\ \A j \in Indexes : tables'[n][j] = PTE_INVALID
             /\ \A q \in DOMAIN tables : \A j \in Indexes :
                  tables'[q][j] = IF q = p /\ j = i THEN TableEntry(n) ELSE tables[q][j]
             /\ tables' = [ q \in DOMAIN tables' |-> tables'[q] ]
             /\ \A q \in DOMAIN tables' : tables'[q] = [ j \in Indexes |-> tables'[q][j] ]
<1> DEFINE n == allocation_ptr
           C == Cleared(n)
<1>1. n \notin DOMAIN tables /\ n \in Nat
  BY DEF Arena
<1>2. C = [ q \in DOMAIN tables \cup {n} |-> IF q = n THEN EmptyTable ELSE tables[q] ]
  BY DEF Cleared
<1> HIDE DEF C
<1>3. /\ DOMAIN C = DOMAIN tables \cup {n}
      /\ C[n] = EmptyTable
      /\ \A q \in DOMAIN tables : C[q] = tables[q]
  BY <1>1, <1>2
<1>4. tables' = [C EXCEPT ![p] = [C[p] EXCEPT ![i] = TableEntry(n)]]
  BY DEF NewTable, C
<1>5. C[p] = tables[p] /\ tables[p] = [ j \in Indexes |-> tables[p][j] ]
  BY <1>3 DEF Arena
<1>6. /\ DOMAIN tables' = DOMAIN tables \cup {n}
      /\ tables'[p] = [tables[p] EXCEPT ![i] = TableEntry(n)]
      /\ tables'[n] = EmptyTable
      /\ \A q \in DOMAIN tables \ {p} : tables'[q] = tables[q]
  BY <1>1, <1>3, <1>4, <1>5
<1>7. \A j \in Indexes : tables'[p][j] = IF j = i THEN TableEntry(n) ELSE tables[p][j]
  BY <1>5, <1>6
<1>8. tables'[p] = [ j \in Indexes |-> tables'[p][j] ]
  BY <1>5, <1>6
<1>9. \A j \in Indexes : tables'[n][j] = PTE_INVALID
  BY <1>6 DEF EmptyTable
<1>10. tables'[n] = [ j \in Indexes |-> tables'[n][j] ]
  BY <1>6 DEF EmptyTable
<1>11. \A q \in DOMAIN tables' : tables'[q] = [ j \in Indexes |-> tables'[q][j] ]
  BY <1>6, <1>8, <1>10 DEF Arena
<1>12. tables' = [ q \in DOMAIN tables' |-> tables'[q] ]
  BY <1>3, <1>4
<1> QED
  BY <1>1, <1>6, <1>7, <1>9, <1>11, <1>12

(* A table that a table other than the root refers to is not the root's.    *)
LEMMA L3IsNotL2 ==
  ASSUME Arena, Tree, NEW p \in DOMAIN tables \ {table_base}, NEW i \in Indexes,
         NEW q \in DOMAIN tables, RefersTo(p, i, q)
  PROVE  ~ IsL2(q) /\ q # table_base
<1>1. table_base \in DOMAIN tables /\ DOMAIN tables \subseteq Nat
  BY BaseIsPage
<1>2. ~ IsL2(q)
  BY <1>1 DEF Tree, IsL2, RefersTo
<1>3. \E r \in DOMAIN tables \ {table_base} : RefersTo(p, i, r)
  <2>1. tables[p][i] # PTE_INVALID /\ tables[p][i] \notin Leaf
    BY <1>1, EntriesAreValid DEF RefersTo
  <2> QED
    BY <2>1 DEF Tree
<1>4. q # table_base
  BY <1>1, <1>3, EntriesAreValid DEF RefersTo
<1> QED
  BY <1>2, <1>4

(* What a walk meets on its way.                                            *)
LEMMA PathSteps ==
  ASSUME Arena, Tree, NEW a \in Indexes, NEW b \in Indexes
  PROVE  LET e == tables[table_base][a]
         IN  /\ e = PTE_INVALID \/ \E q \in DOMAIN tables \ {table_base} :
                  e = TableEntry(q) /\ e.frame = q /\ e # PTE_INVALID /\ IsL2(q)
             /\ EntryAt(e, b) = PTE_INVALID \/ \E q \in DOMAIN tables \ {table_base} :
                  /\ EntryAt(e, b) = TableEntry(q) /\ EntryAt(e, b).frame = q
                  /\ EntryAt(e, b) # PTE_INVALID
                  /\ ~ IsL2(q)
<1> DEFINE e == tables[table_base][a]
<1>0. table_base \in DOMAIN tables /\ DOMAIN tables \subseteq Nat
  BY BaseIsPage
<1>1. \A q \in DOMAIN tables : TableEntry(q).frame = q /\ TableEntry(q) # PTE_INVALID
  BY <1>0, EntriesAreValid DEF TableEntry, Entry
<1>2. e = PTE_INVALID \/ \E q \in DOMAIN tables \ {table_base} : e = TableEntry(q) /\ IsL2(q)
  BY <1>0 DEF Tree, RefersTo, IsL2
<1>3. ASSUME NEW q \in DOMAIN tables \ {table_base}, e = TableEntry(q), IsL2(q)
      PROVE  EntryAt(e, b) = PTE_INVALID \/ \E r \in DOMAIN tables \ {table_base} :
               EntryAt(e, b) = TableEntry(r) /\ ~ IsL2(r)
  <2>1. EntryAt(e, b) = tables[q][b]
    BY <1>1, <1>3 DEF EntryAt
  <2>2. tables[q][b] = PTE_INVALID \/ \E r \in DOMAIN tables \ {table_base} : RefersTo(q, b, r)
    BY <1>3 DEF Tree
  <2> QED
    BY <2>1, <2>2, L3IsNotL2 DEF RefersTo
<1>4. e = PTE_INVALID => EntryAt(e, b) = PTE_INVALID
  BY DEF EntryAt
<1> HIDE DEF e
<1> QED
  BY <1>1, <1>2, <1>3, <1>4 DEF e

(* A new table below the root or below a second-level table is a leaf of    *)
(* the tree, and no walk sees it.                                           *)
LEMMA NewTableInTree ==
  ASSUME Arena, Tree, UNCHANGED boot,
         NEW p \in DOMAIN tables, NEW i \in Indexes, NewTable(p, i),
         p = table_base \/ IsL2(p)
  PROVE  Arena' /\ Tree'
<1>ptr. PICK n \in Nat : n = allocation_ptr
  BY DEF Arena
<1>root. PICK root \in Nat : root = table_base
  BY BaseIsPage
<1>1. /\ DOMAIN tables' = DOMAIN tables \cup {n}
      /\ n \notin DOMAIN tables /\ n # p
      /\ \A j \in Indexes : tables'[n][j] = PTE_INVALID
      /\ \A q \in DOMAIN tables : \A j \in Indexes :
           tables'[q][j] = IF q = p /\ j = i THEN TableEntry(n) ELSE tables[q][j]
      /\ tables' = [ q \in DOMAIN tables' |-> tables'[q] ]
      /\ \A q \in DOMAIN tables' : tables'[q] = [ j \in Indexes |-> tables'[q][j] ]
  <2>1. /\ DOMAIN tables' = DOMAIN tables \cup {allocation_ptr}
        /\ allocation_ptr \notin DOMAIN tables /\ allocation_ptr # p
        /\ \A j \in Indexes : tables'[allocation_ptr][j] = PTE_INVALID
        /\ \A q \in DOMAIN tables : \A j \in Indexes :
             tables'[q][j] = IF q = p /\ j = i THEN TableEntry(allocation_ptr) ELSE tables[q][j]
        /\ tables' = [ q \in DOMAIN tables' |-> tables'[q] ]
        /\ \A q \in DOMAIN tables' : tables'[q] = [ j \in Indexes |-> tables'[q][j] ]
    BY NewTableEntries, Zenon
  <2> QED
    BY <1>ptr, <2>1, Zenon
<1>2. /\ root \in DOMAIN tables /\ DOMAIN tables \subseteq Nat /\ n # root
      /\ DOMAIN tables = root .. n - 1 /\ root < n
      /\ table_base' = root /\ allocation_ptr' = n + 1 /\ boot' = boot
  BY <1>ptr, <1>root, <1>1, BaseIsPage DEF NewTable, Arena, table_base
<1>3. Arena'
  <2>1. DOMAIN tables' = root .. n
    BY <1>1, <1>2
  <2> QED
    BY <1>1, <1>2, <2>1 DEF Arena
<1>4. \A q \in DOMAIN tables : \A j \in Indexes : \A r \in DOMAIN tables' :
        RefersTo(q, j, r)' <=> (RefersTo(q, j, r) /\ r # n) \/ (q = p /\ j = i /\ r = n)
  <2>1. \A r \in DOMAIN tables' : r \in Nat
    BY <1>1, <1>2
  <2>2. tables[p][i] = PTE_INVALID
    BY DEF NewTable
  <2>3. \A q \in DOMAIN tables, j \in Indexes : tables[q][j] # TableEntry(n)
    <3>1. \A q \in DOMAIN tables, j \in Indexes :
            \/ tables[q][j] = PTE_INVALID
            \/ \E r \in DOMAIN tables : tables[q][j] = TableEntry(r)
            \/ tables[q][j] \in Leaf
      BY DEF Tree, RefersTo
    <3> QED
      BY <1>1, <1>2, <3>1, EntriesAreValid
  <2> QED
    BY <1>1, <2>1, <2>2, <2>3, EntriesAreValid DEF RefersTo
<1>5. \A j \in Indexes : \A r \in DOMAIN tables' : ~ RefersTo(n, j, r)'
  <2>1. \A r \in DOMAIN tables' : r \in Nat
    BY <1>1, <1>2
  <2> QED
    BY <1>1, <2>1, EntriesAreValid DEF RefersTo
<1>6. /\ \A q \in DOMAIN tables : IsL2(q)' <=> IsL2(q)
      /\ IsL2(n)' <=> p = root
  <2>1. \A q \in DOMAIN tables' : IsL2(q)' <=> \E j \in Indexes : RefersTo(root, j, q)'
    BY <1>2 DEF IsL2, RefersTo
  <2>2. \A q \in DOMAIN tables : IsL2(q) <=> \E j \in Indexes : RefersTo(root, j, q)
    BY <1>root DEF IsL2, RefersTo
  <2> QED
    BY <1>1, <1>2, <1>4, <2>1, <2>2
<1>7. ASSUME NEW q \in DOMAIN tables', NEW j \in Indexes
      PROVE  \/ tables'[q][j] = PTE_INVALID
             \/ /\ q = root \/ IsL2(q)'
                /\ \E r \in DOMAIN tables' \ {root} : RefersTo(q, j, r)'
             \/ /\ q # root /\ ~ IsL2(q)'
                /\ tables'[q][j] \in Leaf
  <2>1. CASE q = n
    BY <1>1, <2>1
  <2>2. CASE q = p /\ j = i
    BY <1>root, <1>1, <1>2, <1>4, <1>6, <2>2
  <2>3. CASE q # n /\ ~ (q = p /\ j = i)
    <3>1. q \in DOMAIN tables /\ tables'[q][j] = tables[q][j]
      BY <1>1, <2>3
    <3>2. \/ tables[q][j] = PTE_INVALID
          \/ /\ q = root \/ IsL2(q)
             /\ \E r \in DOMAIN tables \ {root} : RefersTo(q, j, r)
          \/ /\ q # root /\ ~ IsL2(q)
             /\ tables[q][j] \in Leaf
      BY <1>root, <3>1 DEF Tree
    <3> QED
      BY <1>1, <1>4, <1>6, <3>1, <3>2
  <2> QED
    BY <2>1, <2>2, <2>3
<1>8. ASSUME NEW q \in DOMAIN tables' \ {root}
      PROVE  \E r \in DOMAIN tables', j \in Indexes : RefersTo(r, j, q)'
  <2>1. CASE q = n
    BY <1>1, <1>4, <2>1
  <2>2. CASE q # n
    <3>1. PICK r \in DOMAIN tables, j \in Indexes : RefersTo(r, j, q)
      BY <1>root, <1>1, <2>2 DEF Tree
    <3> QED
      BY <1>1, <1>4, <2>2, <3>1
  <2> QED
    BY <2>1, <2>2
<1>9. ASSUME NEW q \in DOMAIN tables', NEW s \in DOMAIN tables', NEW r \in DOMAIN tables',
             NEW j \in Indexes, NEW k \in Indexes, RefersTo(s, j, q)', RefersTo(r, k, q)'
      PROVE  s = r /\ j = k
  <2>1. s \in DOMAIN tables /\ r \in DOMAIN tables
    BY <1>1, <1>5, <1>9
  <2> QED
    BY <1>1, <1>4, <1>9, <2>1 DEF Tree
<1>10. Tree'
  <2>1. \A q \in DOMAIN tables' : \A j \in Indexes :
         (\/ tables[q][j] = PTE_INVALID
          \/ /\ q = root \/ IsL2(q)
             /\ \E r \in DOMAIN tables \ {root} : RefersTo(q, j, r)
          \/ /\ q # root /\ ~ IsL2(q)
             /\ tables[q][j] \in Leaf)'
    BY <1>7
  <2> QED
    BY <1>2, <1>8, <1>9, <2>1 DEF Tree
<1> QED
  BY <1>3, <1>10

(* An entry that refers to an empty table is seen by no walk, and is one of *)
(* the second level only if the new table is one of the third.              *)
LEMMA NewTablePaths ==
  ASSUME Arena, Tree, UNCHANGED boot,
         NEW p \in DOMAIN tables, NEW i \in Indexes, NewTable(p, i),
         p = table_base \/ IsL2(p),
         NEW a \in Indexes, NEW b \in Indexes
  PROVE  /\ \A c \in Indexes : Path(a, b, c)' = Path(a, b, c)
         /\ p # table_base \/ i # a => tables'[table_base][a] = tables[table_base][a]
         /\ EntryAt(tables[table_base][a], b)' =
              IF p # table_base /\ RefersTo(table_base, a, p) /\ i = b
              THEN TableEntry(allocation_ptr) ELSE EntryAt(tables[table_base][a], b)
<1>ptr. PICK n \in Nat : n = allocation_ptr
  BY DEF Arena
<1>root. PICK root \in Nat : root = table_base
  BY BaseIsPage
<1>1. /\ n \notin DOMAIN tables
      /\ \A j \in Indexes : tables'[n][j] = PTE_INVALID
      /\ \A q \in DOMAIN tables : \A j \in Indexes :
           tables'[q][j] = IF q = p /\ j = i THEN TableEntry(n) ELSE tables[q][j]
      /\ tables[p][i] = PTE_INVALID
  <2>1. /\ allocation_ptr \notin DOMAIN tables
        /\ \A j \in Indexes : tables'[allocation_ptr][j] = PTE_INVALID
        /\ \A q \in DOMAIN tables : \A j \in Indexes :
             tables'[q][j] = IF q = p /\ j = i THEN TableEntry(allocation_ptr) ELSE tables[q][j]
    BY NewTableEntries, Zenon
  <2>2. tables[p][i] = PTE_INVALID
    BY Zenon DEF NewTable
  <2> QED
    BY <1>ptr, <2>1, <2>2
<1>2. root \in DOMAIN tables /\ DOMAIN tables \subseteq Nat /\ table_base' = root
  BY <1>root, BaseIsPage DEF table_base
<1>3. TableEntry(n) # PTE_INVALID /\ TableEntry(n).frame = n
  BY EntriesAreValid DEF TableEntry, Entry
<1> DEFINE Lower(e, k) == IF e = PTE_INVALID THEN PTE_INVALID ELSE tables'[e.frame][k]
<1>4. PICK e1 : e1 = tables[root][a]
  OBVIOUS
<1>5. PICK f1 : f1 = tables'[root][a]
  OBVIOUS
<1>6. PICK e2 : e2 = EntryAt(e1, b)
  OBVIOUS
<1>7. PICK f2 : f2 = Lower(f1, b)
  OBVIOUS
<1>8. /\ EntryAt(tables[table_base][a], b) = e2 /\ EntryAt(tables[table_base][a], b)' = f2
      /\ \A c \in Indexes : Path(a, b, c) = EntryAt(e2, c) /\ Path(a, b, c)' = Lower(f2, c)
  BY <1>root, <1>2, <1>4, <1>5, <1>6, <1>7 DEF Path, EntryAt
<1>9. /\ e1 = PTE_INVALID \/ \E q \in DOMAIN tables \ {root} :
           e1 = TableEntry(q) /\ e1.frame = q /\ e1 # PTE_INVALID /\ IsL2(q)
      /\ e2 = PTE_INVALID \/ \E q \in DOMAIN tables \ {root} :
           e2 = TableEntry(q) /\ e2.frame = q /\ e2 # PTE_INVALID /\ ~ IsL2(q)
  BY <1>root, <1>4, <1>6, PathSteps
<1>10. ~ (p = root /\ i = a) => f1 = e1
  BY <1>1, <1>2, <1>4, <1>5
<1>11. CASE p = root /\ i = a
  <2>1. e1 = PTE_INVALID /\ f1 = TableEntry(n)
    BY <1>1, <1>2, <1>4, <1>5, <1>11
  <2>2. e2 = PTE_INVALID /\ f2 = PTE_INVALID
    BY <1>1, <1>3, <1>6, <1>7, <2>1 DEF EntryAt
  <2> QED
    BY <1>root, <1>8, <1>11, <2>2 DEF EntryAt
<1>12. CASE ~ (p = root /\ i = a) /\ e1 = PTE_INVALID
  <2>1. e2 = PTE_INVALID /\ f2 = PTE_INVALID
    BY <1>6, <1>7, <1>10, <1>12 DEF EntryAt
  <2>2. ~ RefersTo(root, a, p)
    BY <1>2, <1>4, <1>12, EntriesAreValid DEF RefersTo
  <2> QED
    BY <1>root, <1>4, <1>5, <1>8, <1>10, <1>12, <2>1, <2>2 DEF EntryAt
<1>13. CASE ~ (p = root /\ i = a) /\ e1 # PTE_INVALID
  <2>1. PICK q \in DOMAIN tables \ {root} :
          e1 = TableEntry(q) /\ e1.frame = q /\ e1 # PTE_INVALID /\ IsL2(q)
    BY <1>9, <1>13
  <2>2. e2 = tables[q][b] /\ f2 = tables'[q][b]
    BY <1>6, <1>7, <1>10, <1>13, <2>1 DEF EntryAt
  <2>3. RefersTo(root, a, p) <=> p = q
    BY <1>2, <1>4, <2>1, EntriesAreValid DEF RefersTo
  <2>4. f2 = IF p # root /\ RefersTo(root, a, p) /\ i = b THEN TableEntry(n) ELSE e2
    BY <1>1, <2>2, <2>3, <2>1
  <2>5. \A c \in Indexes : Lower(f2, c) = EntryAt(e2, c)
    <3>1. CASE p = q /\ i = b
      <4>1. e2 = PTE_INVALID /\ f2 = TableEntry(n)
        BY <1>1, <2>1, <2>2, <3>1
      <4> QED
        BY <1>1, <1>3, <4>1 DEF EntryAt
    <3>2. CASE ~ (p = q /\ i = b)
      <4>1. f2 = e2
        BY <1>1, <2>1, <2>2, <3>2
      <4>2. CASE e2 = PTE_INVALID
        BY <4>1, <4>2 DEF EntryAt
      <4>3. CASE e2 # PTE_INVALID
        <5>1. PICK r \in DOMAIN tables \ {root} :
                e2 = TableEntry(r) /\ e2.frame = r /\ ~ IsL2(r)
          BY <1>9, <4>3
        <5>2. r # p
          BY <1>root, <5>1
        <5>3. \A c \in Indexes : tables'[r][c] = tables[r][c]
          BY <1>1, <5>1, <5>2
        <5> QED
          BY <4>1, <4>3, <5>1, <5>3 DEF EntryAt
      <4> QED
        BY <4>2, <4>3
    <3> QED
      BY <3>1, <3>2
  <2> QED
    BY <1>ptr, <1>root, <1>4, <1>5, <1>8, <1>10, <1>13, <2>4, <2>5
<1> QED
  BY <1>11, <1>12, <1>13

----------------------------------------------------------------------------
(* Steps of vm_init_map_contiguous                                          *)

(* Nothing refers to the root.                                              *)
LEMMA RootIsRoot ==
  ASSUME Arena, Tree, NEW p \in DOMAIN tables, NEW i \in Indexes, NEW q \in DOMAIN tables,
         RefersTo(p, i, q)
  PROVE  q # table_base
<1>1. table_base \in DOMAIN tables /\ DOMAIN tables \subseteq Nat
  BY BaseIsPage
<1>2. tables[p][i] # PTE_INVALID /\ tables[p][i] \notin Leaf
  BY <1>1, EntriesAreValid DEF RefersTo
<1>3. PICK r \in DOMAIN tables \ {table_base} : RefersTo(p, i, r)
  BY <1>2 DEF Tree
<1> QED
  BY <1>1, <1>3, EntriesAreValid DEF RefersTo

(* The running call, and the page it maps next.                             *)
LEMMA Current ==
  ASSUME Arena, Loop
  PROVE  /\ mapping.template \in Templates
         /\ mapping.vm_base \in Nat /\ mapping.phys_base \in Nat /\ mapping.page_count \in Nat
         /\ mapping.phys_base + mapping.page_count <= MMIO_END
         /\ mapping.vm_base + mapping.page_count <= N * (N * N)
         /\ call \in 1 .. 5
         /\ call <= 3 => mapping.vm_base + mapping.page_count < N
         /\ call > 3 => physmap_vm_base(boot) <= mapping.vm_base
         /\ locals \in LocalsType /\ locals.l1_i \in Nat /\ locals.l2_i \in Indexes
         /\ locals.l3_i \in Indexes /\ locals.page_i \in Nat
         /\ locals.page_i <= mapping.page_count
         /\ ~ Mapped => locals.l1_i \in Indexes /\ mapping.vm_base + locals.page_i \in VirtualPages
<1>1. boot \in Boots /\ call \in 1 .. 5 /\ locals \in LocalsType
  BY MappingFacts DEF Arena, Loop
<1>2. /\ locals.l1_i \in Nat /\ locals.l2_i \in Indexes
      /\ locals.l3_i \in Indexes /\ locals.page_i \in Nat
      /\ locals.page_i <= mapping.page_count
      /\ Digits(locals.l1_i, locals.l2_i, locals.l3_i) = mapping.vm_base + locals.page_i
  BY <1>1 DEF Loop, LocalsType
<1>3. /\ mapping.template \in Templates
      /\ mapping.vm_base \in Nat /\ mapping.phys_base \in Nat /\ mapping.page_count \in Nat
      /\ mapping.phys_base + mapping.page_count <= MMIO_END
      /\ mapping.vm_base + mapping.page_count <= N * (N * N)
      /\ call <= 3 => mapping.vm_base + mapping.page_count < N
      /\ call > 3 => physmap_vm_base(boot) <= mapping.vm_base
  BY <1>1, MappingFacts DEF mapping
<1>4. ASSUME ~ Mapped
      PROVE  mapping.vm_base + locals.page_i \in VirtualPages
  <2>1. locals.page_i < mapping.page_count
    BY <1>2, <1>3, <1>4 DEF Mapped
  <2>2. N \in Nat /\ VirtualPages = 0 .. N * (N * N) - 1 /\ N * (N * N) \in Nat
    BY CountType DEF VirtualPages, N
  <2> QED
    BY <1>2, <1>3, <2>1, <2>2
<1>5. ~ Mapped => locals.l1_i \in Indexes
  BY <1>2, <1>4, VirtualDigits
<1> QED
  BY <1>1, <1>2, <1>3, <1>4, <1>5

(* table_lookup_allocating finds a table or makes one.                      *)
LEMMA LookupCases ==
  ASSUME Arena, Tree, NEW p \in DOMAIN tables, NEW i \in Indexes,
         p = table_base \/ IsL2(p), table_lookup_allocating(p, i)
  PROVE  \/ /\ LookupResult(p, i) \in DOMAIN tables /\ RefersTo(p, i, LookupResult(p, i))
            /\ UNCHANGED <<tables, allocation_ptr>>
         \/ NewTable(p, i) /\ LookupResult(p, i) = allocation_ptr
<1>0. DOMAIN tables \subseteq Nat
  BY BaseIsPage
<1>1. tables[p][i] = PTE_INVALID \/ \E q \in DOMAIN tables : RefersTo(p, i, q)
  BY DEF Tree
<1>2. /\ IsPresent(p, i) <=> tables[p][i] # PTE_INVALID
      /\ \A q \in DOMAIN tables : RefersTo(p, i, q) => LookupResult(p, i) = q
  BY <1>0, <1>1, Presence
<1>3. CASE tables[p][i] = PTE_INVALID
  BY <1>2, <1>3 DEF table_lookup_allocating, AllocatePage, NewTable, LookupResult
<1>4. CASE tables[p][i] # PTE_INVALID
  BY <1>1, <1>2, <1>4 DEF table_lookup_allocating
<1> QED
  BY <1>3, <1>4

(* Either way the tree and every walk is kept, and the table is where it    *)
(* was looked up.                                                           *)
LEMMA LookupKeepsTree ==
  ASSUME Arena, Tree, UNCHANGED boot, NEW p \in DOMAIN tables, NEW i \in Indexes,
         p = table_base \/ IsL2(p), table_lookup_allocating(p, i),
         NEW t, t = LookupResult(p, i)
  PROVE  /\ Arena' /\ Tree'
         /\ t \in DOMAIN tables' /\ RefersTo(p, i, t)'
         /\ DOMAIN tables \subseteq DOMAIN tables'
         /\ \A q, r \in DOMAIN tables : \A j \in Indexes :
              RefersTo(q, j, r) => RefersTo(q, j, r)'
         /\ \A a, b, c \in Indexes : Path(a, b, c)' = Path(a, b, c)
         /\ t \in Nat
<1>0. DOMAIN tables \subseteq Nat
  BY BaseIsPage
<1>1. CASE /\ t \in DOMAIN tables /\ RefersTo(p, i, t)
           /\ UNCHANGED <<tables, allocation_ptr>>
  <2>1. Arena'
    BY <1>1 DEF Arena, table_base
  <2>2. Tree'
    BY <1>1 DEF Tree, table_base, RefersTo, IsL2
  <2> QED
    BY <1>0, <1>1, <2>1, <2>2 DEF RefersTo, Path, EntryAt, table_base
<1>2. CASE NewTable(p, i) /\ t = allocation_ptr
  <2>1. Arena' /\ Tree'
    BY <1>2, NewTableInTree
  <2>2. \A a, b, c \in Indexes : Path(a, b, c)' = Path(a, b, c)
    BY <1>2, NewTablePaths
  <2>3. /\ DOMAIN tables' = DOMAIN tables \cup {allocation_ptr}
        /\ allocation_ptr \in Nat
        /\ \A q \in DOMAIN tables : \A j \in Indexes :
             tables'[q][j] = IF q = p /\ j = i THEN TableEntry(allocation_ptr) ELSE tables[q][j]
    BY <1>2, NewTableEntries, Zenon
  <2>4. tables[p][i] = PTE_INVALID
    BY <1>2 DEF NewTable
  <2>5. RefersTo(p, i, t)'
    BY <1>2, <2>3 DEF RefersTo
  <2>6. \A q, r \in DOMAIN tables : \A j \in Indexes : RefersTo(q, j, r) => RefersTo(q, j, r)'
    BY <1>0, <2>3, <2>4, EntriesAreValid DEF RefersTo
  <2> QED
    BY <1>2, <2>1, <2>2, <2>3, <2>5, <2>6
<1> QED
  BY <1>1, <1>2, LookupCases

(* The same of the next state.                                              *)
LEMMA WalkIsPathNext ==
  ASSUME Arena', NEW a \in Indexes, NEW b \in Indexes, NEW c \in Indexes
  PROVE  Walk(Digits(a, b, c))' = Path(a, b, c)'
<1>1. /\ L1Index(Digits(a, b, c)) = a
      /\ L2Index(Digits(a, b, c)) = b
      /\ L3Index(Digits(a, b, c)) = c
  <2>1. a \in Nat
    BY DEF Indexes
  <2> QED
    BY <2>1, DigitsOf
<1>2. PICK root : root = table_base'
  OBVIOUS
<1>3. root \in Nat
  <2>1. \A b0 \in Boots : bootstrap_pa_reserved(b0) \in Nat
    BY BootFacts
  <2>2. boot' \in Boots /\ root = bootstrap_pa_reserved(boot')
    BY <1>2 DEF Arena, table_base, bootstrap_pa_reserved, KernelSize
  <2> QED
    BY <2>1, <2>2
<1>4. TableEntry(root) # PTE_INVALID /\ TableEntry(root).frame = root
  BY <1>3, EntriesAreValid DEF TableEntry, Entry
<1> QED
  BY <1>1, <1>2, <1>4 DEF Walk, Path, EntryAt

(* While every path is kept, every walk is.                                 *)
LEMMA WalksKept ==
  ASSUME Arena, Arena', \A a, b, c \in Indexes : Path(a, b, c)' = Path(a, b, c)
  PROVE  \A va \in VirtualPages : Walk(va)' = Walk(va)
<1> SUFFICES ASSUME NEW va \in VirtualPages PROVE Walk(va)' = Walk(va)
  OBVIOUS
<1>1. va \in Nat
  BY DEF VirtualPages
<1>2. PICK a \in Nat, b \in Indexes, c \in Indexes : va = Digits(a, b, c)
  BY <1>1, DigitsExist
<1>3. a \in Indexes
  BY <1>2, VirtualDigits
<1>4. Walk(Digits(a, b, c)) = Path(a, b, c)
  BY <1>3, WalkIsPath
<1>5. Walk(Digits(a, b, c))' = Path(a, b, c)'
  BY <1>3, WalkIsPathNext
<1> QED
  BY <1>2, <1>3, <1>4, <1>5

(* What was asked stays mapped while every walk is kept.                    *)
LEMMA MapsKept ==
  ASSUME MapsWhatWasAsked, UNCHANGED boot,
         \A va \in VirtualPages : Walk(va)' = Walk(va),
         \A c \in 1 .. Len(Mappings(boot)) : Done(c)' = Done(c)
  PROVE  MapsWhatWasAsked'
<1>1. PICK M : M = Mappings(boot)
  OBVIOUS
<1>2. Mappings(boot)' = M
  BY <1>1
<1>3. ASSUME NEW va \in VirtualPages, NEW c \in 1 .. Len(M)
      PROVE  Asked(va, c)' <=> Asked(va, c)
  <2>1. Done(c)' = Done(c)
    BY <1>1, <1>3
  <2> QED
    BY <1>1, <1>2, <2>1 DEF Asked
<1>4. ASSUME NEW va \in VirtualPages
      PROVE  /\ \A c \in 1 .. Len(M) : Asked(va, c)' =>
                  Walk(va)' = Entry(M[c].phys_base + (va - M[c].vm_base), M[c].template)
             /\ (\A c \in 1 .. Len(M) : ~ Asked(va, c)') => Walk(va)' = PTE_INVALID
  <2>1. /\ \A c \in 1 .. Len(M) : Asked(va, c) =>
             Walk(va) = Entry(M[c].phys_base + (va - M[c].vm_base), M[c].template)
        /\ (\A c \in 1 .. Len(M) : ~ Asked(va, c)) => Walk(va) = PTE_INVALID
    BY <1>1 DEF MapsWhatWasAsked
  <2> QED
    BY <1>3, <2>1
<1> QED
  BY <1>2, <1>4 DEF MapsWhatWasAsked

(* At most one table of each of the two lower levels is in use for a page.  *)
LEMMA UsedType ==
  \A a, b : L2Used(a) \in {0, 1} /\ L3Used(a, b) \in {0, 1}
BY DEF L2Used, L3Used

(* A table that the call finds in use is the one it was just given.         *)
LEMMA RoomGrows ==
  ASSUME Arena, Loop, Room, UNCHANGED <<boot, call>>,
         NEW a, NEW b, a = locals.l1_i, b = locals.l2_i, a = locals'.l1_i, b = locals'.l2_i,
         NEW d \in {0, 1}, allocation_ptr' = allocation_ptr + d,
         L2Used(a)' + L3Used(a, b)' = L2Used(a) + L3Used(a, b) + d
  PROVE  Room'
<1>1. PICK root \in Nat, ptr \in Nat, before \in Nat :
        root = table_base /\ ptr = allocation_ptr /\ before = L2Used(a) + L3Used(a, b)
  <2>1. L2Used(a) + L3Used(a, b) \in Nat
    BY UsedType
  <2>2. allocation_ptr \in Nat
    BY DEF Arena
  <2> QED
    BY <2>1, <2>2, BaseIsPage
<1>2. a \in Nat /\ b \in Nat /\ N \in Nat /\ boot \in Boots
  BY Current, CountType DEF Arena
<1>3. PICK first \in Int : first = PhysmapFirst(boot)
  BY <1>2, PhysmapFits
<1>4. PICK passed \in Int : passed = (a - first) * (N + 1)
  BY <1>2, <1>3
<1>5. /\ call <= 3 => ptr <= root + 1 + before
      /\ call > 3 => ptr <= root + 3 + passed + b + before
  BY <1>1, <1>3, <1>4 DEF Room
<1>6. PICK after : after = L2Used(a)' + L3Used(a, b)'
  OBVIOUS
<1>7. after = before + d /\ allocation_ptr' = ptr + d /\ call' = call
      /\ PhysmapFirst(boot)' = first /\ table_base' = root
  BY <1>1, <1>3, <1>6 DEF table_base
<1>8. call \in Nat
  BY Current
<1>9. /\ call' <= 3 => allocation_ptr' <= root + 1 + after
      /\ call' > 3 => allocation_ptr' <= root + 3 + passed + b + after
  BY <1>1, <1>2, <1>4, <1>5, <1>7, <1>8
<1> QED
  BY <1>4, <1>6, <1>7, <1>9 DEF Room

(* A lookup maps nothing.                                                   *)
LEMMA LookupKeepsMaps ==
  ASSUME IInv, ~ Mapped, UNCHANGED <<boot, call, ttbr1, pfa_reserved>>,
         locals'.page_i = locals.page_i,
         NEW p \in DOMAIN tables, NEW i \in Indexes, p = table_base \/ IsL2(p),
         table_lookup_allocating(p, i)
  PROVE  Arena' /\ Tree' /\ Phases' /\ MapsWhatWasAsked'
<1>1. Arena' /\ Tree' /\ \A a, b, c \in Indexes : Path(a, b, c)' = Path(a, b, c)
  BY LookupKeepsTree DEF IInv
<1>2. MapsWhatWasAsked'
  <2>1. \A va \in VirtualPages : Walk(va)' = Walk(va)
    BY <1>1, WalksKept DEF IInv
  <2>2. \A c \in 1 .. Len(Mappings(boot)) : Done(c)' = Done(c)
    BY DEF Done
  <2> QED
    BY <2>1, <2>2, MapsKept DEF IInv
<1>3. Phases'
  <2>1. ttbr1 = BootstrapTable /\ pfa_reserved = PHYS_ADDR_INVALID
    BY DEF IInv, Phases
  <2> QED
    BY <2>1 DEF Phases
<1> QED
  BY <1>1, <1>2, <1>3

(* table_lookup_allocating at the root.                                     *)
LEMMA LookupL2Step ==
  ASSUME IInv, LookupL2
  PROVE  IInv'
<1>1. PICK root \in Nat : root = table_base
  BY BaseIsPage DEF IInv
<1>2. PICK a \in Indexes, b \in Indexes : a = locals.l1_i /\ b = locals.l2_i
  BY Current DEF IInv, LookupL2
<1>3. PICK t : t = LookupResult(root, a)
  OBVIOUS
<1>4. /\ ~ Mapped /\ locals.l2 = PHYS_ADDR_INVALID
      /\ table_lookup_allocating(root, a)
      /\ locals' = [locals EXCEPT !.l2 = t]
      /\ boot' = boot /\ call' = call /\ ttbr1' = ttbr1 /\ pfa_reserved' = pfa_reserved
      /\ root \in DOMAIN tables /\ table_base' = root
  BY <1>1, <1>2, <1>3, BaseIsPage DEF IInv, LookupL2, table_base
<1>5. locals \in LocalsType
  BY Current DEF IInv
<1>6. /\ locals'.l1_i = a /\ locals'.l2_i = b /\ locals'.l3_i = locals.l3_i
      /\ locals'.page_i = locals.page_i /\ locals'.l2 = t /\ locals'.l3 = locals.l3
  BY <1>2, <1>4, <1>5 DEF LocalsType
<1>7. Arena' /\ Tree' /\ Phases' /\ MapsWhatWasAsked'
  BY <1>1, <1>4, <1>6, LookupKeepsMaps
<1>8. t \in DOMAIN tables' /\ RefersTo(root, a, t)' /\ t \in Nat
  BY <1>1, <1>3, <1>4, LookupKeepsTree DEF IInv
<1>9. locals.l3 = PHYS_ADDR_INVALID
  BY <1>4 DEF IInv, Loop
<1>10. Loop'
  <2>1. locals' \in LocalsType
    BY <1>4, <1>5, <1>8 DEF LocalsType
  <2>2. /\ call \in 1 .. Len(Mappings(boot))
        /\ locals.page_i <= mapping.page_count
        /\ Digits(locals.l1_i, locals.l2_i, locals.l3_i) = mapping.vm_base + locals.page_i
    BY DEF IInv, Loop
  <2>3. mapping' = mapping
    BY <1>4 DEF mapping
  <2> QED
    BY <1>2, <1>4, <1>6, <1>8, <1>9, <2>1, <2>2, <2>3 DEF Loop, RefersTo
<1>11. Room'
  <2>1. CASE UNCHANGED <<tables, allocation_ptr>>
    <3>1. L2Used(a)' = L2Used(a) /\ L3Used(a, b)' = L3Used(a, b)
      BY <1>1, <1>4, <2>1 DEF L2Used, L3Used, EntryAt
    <3>2. allocation_ptr' = allocation_ptr + 0
      BY <2>1 DEF IInv, Arena
    <3>3. L2Used(a)' + L3Used(a, b)' = L2Used(a) + L3Used(a, b) + 0
      BY <3>1, UsedType
    <3> QED
      BY <1>2, <1>4, <1>6, <3>2, <3>3, RoomGrows DEF IInv
  <2>2. CASE NewTable(root, a)
    <3>1. tables[root][a] = PTE_INVALID /\ allocation_ptr' = allocation_ptr + 1
      BY <2>2 DEF NewTable
    <3>2. L2Used(a) = 0 /\ L3Used(a, b) = 0
      BY <1>1, <3>1 DEF L2Used, L3Used, EntryAt
    <3>3. L2Used(a)' = 1
      <4>1. tables'[root][a] = TableEntry(t)
        BY <1>8 DEF RefersTo
      <4> QED
        BY <1>4, <1>8, <4>1, EntriesAreValid DEF L2Used
    <3>4. L3Used(a, b)' = 0
      <4>1. EntryAt(tables[table_base][a], b)' = EntryAt(tables[table_base][a], b)
        BY <1>1, <1>4, <2>2, NewTablePaths DEF IInv
      <4>2. EntryAt(tables[table_base][a], b) = PTE_INVALID
        BY <1>1, <3>1 DEF EntryAt
      <4> QED
        BY <4>1, <4>2 DEF L3Used
    <3>5. L2Used(a)' + L3Used(a, b)' = L2Used(a) + L3Used(a, b) + 1
      BY <3>2, <3>3, <3>4
    <3> QED
      BY <1>2, <1>4, <1>6, <3>1, <3>5, RoomGrows DEF IInv
  <2> QED
    BY <1>1, <1>4, <2>1, <2>2, LookupCases DEF IInv
<1> QED
  BY <1>7, <1>10, <1>11 DEF IInv

(* table_lookup_allocating at a second-level table.                         *)
LEMMA LookupL3Step ==
  ASSUME IInv, LookupL3
  PROVE  IInv'
<1>1. PICK root \in Nat : root = table_base
  BY BaseIsPage DEF IInv
<1>2. PICK a \in Indexes, b \in Indexes : a = locals.l1_i /\ b = locals.l2_i
  BY Current DEF IInv, LookupL3
<1>p. PICK p \in DOMAIN tables :
        p = locals.l2 /\ p # PHYS_ADDR_INVALID /\ RefersTo(root, a, p)
  BY <1>1, <1>2 DEF IInv, Loop, LookupL3
<1>3. PICK t : t = LookupResult(p, b)
  OBVIOUS
<1>4. /\ ~ Mapped /\ locals.l3 = PHYS_ADDR_INVALID
      /\ table_lookup_allocating(p, b)
      /\ locals' = [locals EXCEPT !.l3 = t]
      /\ boot' = boot /\ call' = call /\ ttbr1' = ttbr1 /\ pfa_reserved' = pfa_reserved
      /\ root \in DOMAIN tables /\ table_base' = root /\ DOMAIN tables \subseteq Nat
  BY <1>1, <1>2, <1>p, <1>3, BaseIsPage DEF IInv, LookupL3, table_base
<1>l2. IsL2(p) /\ p # root
  <2>1. IsL2(p)
    BY <1>1, <1>p DEF IsL2, RefersTo
  <2>2. p # root
    BY <1>1, <1>p, <1>4, RootIsRoot DEF IInv
  <2> QED
    BY <2>1, <2>2
<1>5. locals \in LocalsType
  BY Current DEF IInv
<1>6. /\ locals'.l1_i = a /\ locals'.l2_i = b /\ locals'.l3_i = locals.l3_i
      /\ locals'.page_i = locals.page_i /\ locals'.l2 = p /\ locals'.l3 = t
  BY <1>2, <1>p, <1>4, <1>5 DEF LocalsType
<1>7. Arena' /\ Tree' /\ Phases' /\ MapsWhatWasAsked'
  BY <1>l2, <1>4, <1>6, LookupKeepsMaps
<1>8. /\ t \in DOMAIN tables' /\ RefersTo(p, b, t)' /\ t \in Nat
      /\ p \in DOMAIN tables' /\ RefersTo(root, a, p)'
  BY <1>p, <1>l2, <1>3, <1>4, LookupKeepsTree DEF IInv
<1>9. tables'[p][b] = TableEntry(t) /\ tables'[root][a] = TableEntry(p)
  BY <1>8 DEF RefersTo
<1>10. Loop'
  <2>1. locals' \in LocalsType
    BY <1>4, <1>5, <1>8 DEF LocalsType
  <2>2. /\ call \in 1 .. Len(Mappings(boot))
        /\ locals.page_i <= mapping.page_count
        /\ Digits(locals.l1_i, locals.l2_i, locals.l3_i) = mapping.vm_base + locals.page_i
    BY DEF IInv, Loop
  <2>3. mapping' = mapping
    BY <1>4 DEF mapping
  <2> QED
    BY <1>2, <1>p, <1>4, <1>6, <1>8, <1>9, <2>1, <2>2, <2>3 DEF Loop, RefersTo
<1>11. Room'
  <2>1. CASE UNCHANGED <<tables, allocation_ptr>>
    <3>1. L2Used(a)' = L2Used(a) /\ L3Used(a, b)' = L3Used(a, b)
      BY <1>1, <1>4, <2>1 DEF L2Used, L3Used, EntryAt
    <3>2. allocation_ptr' = allocation_ptr + 0
      BY <2>1 DEF IInv, Arena
    <3>3. L2Used(a)' + L3Used(a, b)' = L2Used(a) + L3Used(a, b) + 0
      BY <3>1, UsedType
    <3> QED
      BY <1>2, <1>4, <1>6, <3>2, <3>3, RoomGrows DEF IInv
  <2>2. CASE NewTable(p, b)
    <3>1. tables[p][b] = PTE_INVALID /\ allocation_ptr' = allocation_ptr + 1
      BY <2>2 DEF NewTable
    <3>2. /\ tables[root][a] = TableEntry(p) /\ TableEntry(p) # PTE_INVALID
          /\ TableEntry(p).frame = p
      BY <1>p, <1>4, EntriesAreValid DEF RefersTo, TableEntry, Entry
    <3>3. L2Used(a) = 1 /\ L3Used(a, b) = 0
      BY <1>1, <3>1, <3>2 DEF L2Used, L3Used, EntryAt
    <3>4. L2Used(a)' = 1
      BY <1>4, <1>9, <3>2 DEF L2Used
    <3>5. L3Used(a, b)' = 1
      <4>1. EntryAt(tables[table_base][a], b)' = tables'[p][b]
        BY <1>4, <1>9, <3>2 DEF EntryAt
      <4>2. tables'[p][b] # PTE_INVALID
        BY <1>8, <1>9, EntriesAreValid
      <4> QED
        BY <4>1, <4>2 DEF L3Used
    <3>6. L2Used(a)' + L3Used(a, b)' = L2Used(a) + L3Used(a, b) + 1
      BY <3>3, <3>4, <3>5
    <3> QED
      BY <1>2, <1>4, <1>6, <3>1, <3>6, RoomGrows DEF IInv
  <2> QED
    BY <1>l2, <1>4, <2>1, <2>2, LookupCases DEF IInv
<1> QED
  BY <1>7, <1>10, <1>11 DEF IInv

(* The order of the pages is that of their indexes.                         *)
LEMMA DigitsOrder ==
  ASSUME NEW a \in Nat, NEW b \in Indexes, NEW c \in Indexes,
         NEW i \in Nat, NEW j \in Indexes, NEW k \in Indexes,
         Digits(a, b, c) <= Digits(i, j, k)
  PROVE  a < i \/ (a = i /\ b <= j)
<1>1. N \in Nat \ {0} /\ b \in 0 .. N - 1 /\ c \in 0 .. N - 1 /\ j \in 0 .. N - 1 /\ k \in 0 .. N - 1
  BY CountType
<1>2. ASSUME NEW s \in Nat, NEW t \in Nat, NEW m \in 0 .. N - 1, NEW n \in 0 .. N - 1,
             s * N + m <= t * N + n
      PROVE  s < t \/ (s = t /\ m <= n)
  <2>1. s * N \in Nat /\ t * N \in Nat
    BY <1>1
  <2>2. CASE t < s
    <3>1. (t + 1) * N <= s * N
      BY <1>1, <2>2, ProductGrows
    <3>2. (t + 1) * N = t * N + N
      BY <1>1
    <3> QED
      BY <1>1, <1>2, <2>1, <3>1, <3>2
  <2>3. CASE s = t
    BY <1>1, <1>2, <2>1, <2>3
  <2> QED
    BY <2>2, <2>3
<1>3. PICK s \in Nat, t \in Nat : s = a * N + b /\ t = i * N + j
  BY <1>1
<1>4. s <= t
  <2>1. s * N + c <= t * N + k
    BY <1>3 DEF Digits
  <2> QED
    BY <1>1, <1>2, <2>1
<1> QED
  BY <1>1, <1>2, <1>3, <1>4

(* The pages of the first table.                                            *)
LEMMA SmallDigits ==
  ASSUME NEW a \in Nat, NEW b \in Indexes, NEW c \in Indexes, Digits(a, b, c) < N
  PROVE  a = 0 /\ b = 0
<1>1. N \in Nat \ {0} /\ 0 \in Indexes /\ N - 1 \in Indexes /\ b \in Nat
  BY CountType
<1>2. Digits(0, 0, N - 1) = N - 1
  BY <1>1 DEF Digits
<1>3. Digits(a, b, c) \in Nat
  BY DigitsOf
<1>4. Digits(a, b, c) <= Digits(0, 0, N - 1)
  BY <1>1, <1>2, <1>3
<1>5. a < 0 \/ (a = 0 /\ b <= 0)
  BY <1>1, <1>4, DigitsOrder
<1> QED
  BY <1>1, <1>5

(* The step of WriteEntry on the tables.                                    *)
WriteAt(t, c, e) ==
  /\ tables[t][c] = PTE_INVALID
  /\ tables' = [tables EXCEPT ![t][c] = e]

(* An entry of a third-level table is seen by the walk that leads to it,    *)
(* and by no other.                                                         *)
LEMMA WriteKeepsTree ==
  ASSUME Arena, Tree, UNCHANGED <<boot, allocation_ptr>>,
         NEW a \in Indexes, NEW b \in Indexes, NEW c \in Indexes,
         NEW p \in DOMAIN tables, NEW t \in DOMAIN tables,
         RefersTo(table_base, a, p), RefersTo(p, b, t),
         NEW e \in Leaf, WriteAt(t, c, e)
  PROVE  /\ Arena' /\ Tree' /\ DOMAIN tables' = DOMAIN tables
         /\ \A q, r \in DOMAIN tables : \A j \in Indexes : RefersTo(q, j, r)' <=> RefersTo(q, j, r)
         /\ \A i \in Indexes : tables'[table_base][i] = tables[table_base][i]
         /\ \A i, j \in Indexes :
              EntryAt(tables[table_base][i], j)' = EntryAt(tables[table_base][i], j)
         /\ \A i, j, k \in Indexes :
              i = a /\ j = b /\ k = c => Path(i, j, k)' = e
         /\ \A i, j, k \in Indexes :
              i # a \/ j # b \/ k # c => Path(i, j, k)' = Path(i, j, k)
<1>1. PICK root \in Nat : root = table_base
  BY BaseIsPage
<1>2. /\ root \in DOMAIN tables /\ DOMAIN tables \subseteq Nat
      /\ table_base' = root /\ boot' = boot /\ allocation_ptr' = allocation_ptr
  BY <1>1, BaseIsPage DEF table_base
<1>3. p # root /\ IsL2(p) /\ t # root /\ ~ IsL2(t)
  <2>1. p # root
    BY <1>1, <1>2, RootIsRoot
  <2>2. t # root /\ ~ IsL2(t)
    BY <1>1, <2>1, L3IsNotL2
  <2> QED
    BY <2>1, <2>2 DEF IsL2, RefersTo
<1>4. /\ DOMAIN tables' = DOMAIN tables
      /\ tables' = [ q \in DOMAIN tables' |-> tables'[q] ]
      /\ \A q \in DOMAIN tables : tables'[q] = [ j \in Indexes |-> tables'[q][j] ]
      /\ \A q \in DOMAIN tables : \A j \in Indexes :
           tables'[q][j] = IF q = t /\ j = c THEN e ELSE tables[q][j]
  <2>1. tables[t] = [ j \in Indexes |-> tables[t][j] ]
    BY DEF Arena
  <2>2. tables' = [tables EXCEPT ![t] = [tables[t] EXCEPT ![c] = e]]
    BY DEF WriteAt
  <2>3. /\ DOMAIN tables' = DOMAIN tables
        /\ tables'[t] = [tables[t] EXCEPT ![c] = e]
        /\ \A q \in DOMAIN tables \ {t} : tables'[q] = tables[q]
    BY <2>2
  <2>4. \A j \in Indexes : tables'[t][j] = IF j = c THEN e ELSE tables[t][j]
    BY <2>1, <2>3
  <2>5. tables'[t] = [ j \in Indexes |-> tables'[t][j] ]
    BY <2>1, <2>3
  <2>6. \A q \in DOMAIN tables : tables'[q] = [ j \in Indexes |-> tables'[q][j] ]
    BY <2>3, <2>5 DEF Arena
  <2>7. tables' = [ q \in DOMAIN tables' |-> tables'[q] ]
    BY <2>2
  <2> QED
    BY <2>3, <2>4, <2>6, <2>7
<1>5. \A q, r \in DOMAIN tables : \A j \in Indexes : RefersTo(q, j, r)' <=> RefersTo(q, j, r)
  <2>1. \A r \in DOMAIN tables : e # TableEntry(r) /\ PTE_INVALID # TableEntry(r)
    BY <1>2, EntriesAreValid
  <2>2. tables[t][c] = PTE_INVALID
    BY DEF WriteAt
  <2> QED
    BY <1>4, <2>1, <2>2 DEF RefersTo
<1>6. Arena'
  BY <1>2, <1>4 DEF Arena, table_base
<1>7. \A q \in DOMAIN tables : IsL2(q)' <=> IsL2(q)
  <2>1. \A q \in DOMAIN tables : IsL2(q)' <=> \E j \in Indexes : RefersTo(root, j, q)'
    BY <1>2 DEF IsL2, RefersTo
  <2>2. \A q \in DOMAIN tables : IsL2(q) <=> \E j \in Indexes : RefersTo(root, j, q)
    BY <1>1 DEF IsL2, RefersTo
  <2> QED
    BY <1>2, <1>5, <2>1, <2>2
<1>8. Tree'
  <2>1. ASSUME NEW q \in DOMAIN tables, NEW j \in Indexes
        PROVE  (\/ tables[q][j] = PTE_INVALID
                \/ /\ q = root \/ IsL2(q)
                   /\ \E r \in DOMAIN tables \ {root} : RefersTo(q, j, r)
                \/ /\ q # root /\ ~ IsL2(q)
                   /\ tables[q][j] \in Leaf)'
    <3>1. \/ tables[q][j] = PTE_INVALID
          \/ /\ q = root \/ IsL2(q)
             /\ \E r \in DOMAIN tables \ {root} : RefersTo(q, j, r)
          \/ /\ q # root /\ ~ IsL2(q)
             /\ tables[q][j] \in Leaf
      BY <1>1 DEF Tree
    <3>2. CASE q = t /\ j = c
      BY <1>3, <1>4, <1>7, <3>2
    <3>3. CASE ~ (q = t /\ j = c)
      <4>1. tables'[q][j] = tables[q][j]
        BY <1>4, <3>3
      <4> QED
        BY <1>4, <1>5, <1>7, <3>1, <4>1
    <3> QED
      BY <3>2, <3>3
  <2>2. \A q \in DOMAIN tables \ {root} : \E r \in DOMAIN tables, j \in Indexes : RefersTo(r, j, q)'
    BY <1>1, <1>5 DEF Tree
  <2>3. \A q \in DOMAIN tables : \A s, r \in DOMAIN tables : \A i, j \in Indexes :
          RefersTo(s, i, q)' /\ RefersTo(r, j, q)' => s = r /\ i = j
    BY <1>5 DEF Tree
  <2> QED
    BY <1>2, <1>4, <2>1, <2>2, <2>3 DEF Tree
<1>9. \A i \in Indexes : tables'[root][i] = tables[root][i]
  BY <1>2, <1>3, <1>4
<1> DEFINE Lower(f, k) == IF f = PTE_INVALID THEN PTE_INVALID ELSE tables'[f.frame][k]
<1>10. ASSUME NEW i \in Indexes, NEW j \in Indexes
       PROVE  /\ EntryAt(tables[table_base][i], j)' = EntryAt(tables[table_base][i], j)
              /\ \A k \in Indexes : Path(i, j, k)' =
                   IF i = a /\ j = b /\ k = c THEN e ELSE Path(i, j, k)
  <2>1. PICK e1 : e1 = tables[root][i]
    OBVIOUS
  <2>2. PICK e2 : e2 = EntryAt(e1, j)
    OBVIOUS
  <2>3. /\ EntryAt(tables[table_base][i], j) = e2
        /\ EntryAt(tables[table_base][i], j)' = Lower(e1, j)
    BY <1>1, <1>2, <1>9, <2>1, <2>2 DEF EntryAt
  <2>4. \A k \in Indexes : Path(i, j, k) = EntryAt(e2, k) /\ Path(i, j, k)' = Lower(Lower(e1, j), k)
    BY <1>1, <1>2, <1>9, <2>1, <2>2 DEF Path, EntryAt
  <2>5. /\ e1 = PTE_INVALID \/ \E q \in DOMAIN tables \ {root} :
             e1 = TableEntry(q) /\ e1.frame = q /\ e1 # PTE_INVALID /\ IsL2(q)
        /\ e2 = PTE_INVALID \/ \E q \in DOMAIN tables \ {root} :
             e2 = TableEntry(q) /\ e2.frame = q /\ e2 # PTE_INVALID /\ ~ IsL2(q)
    BY <1>1, <2>1, <2>2, PathSteps
  <2>6. tables[root][a] = TableEntry(p) /\ tables[p][b] = TableEntry(t)
        /\ TableEntry(p) # PTE_INVALID /\ TableEntry(t) # PTE_INVALID
    BY <1>1, <1>2, EntriesAreValid DEF RefersTo
  <2>7. CASE e1 = PTE_INVALID
    <3>1. i # a
      BY <2>1, <2>6, <2>7
    <3>2. e2 = PTE_INVALID /\ Lower(e1, j) = PTE_INVALID
      BY <2>2, <2>7 DEF EntryAt
    <3> QED
      BY <2>3, <2>4, <3>1, <3>2 DEF EntryAt
  <2>8. CASE e1 # PTE_INVALID
    <3>1. PICK q \in DOMAIN tables \ {root} : e1 = TableEntry(q) /\ e1.frame = q /\ IsL2(q)
      BY <2>5, <2>8
    <3>2. q # t
      BY <1>3, <3>1
    <3>3. e2 = tables[q][j] /\ Lower(e1, j) = tables'[q][j] /\ tables'[q][j] = tables[q][j]
      BY <1>4, <2>2, <2>8, <3>1, <3>2 DEF EntryAt
    <3>4. i = a => q = p
      BY <1>2, <2>1, <2>6, <3>1, EntriesAreValid
    <3>5. CASE e2 = PTE_INVALID
      <4>1. ~ (i = a /\ j = b)
        BY <2>6, <3>3, <3>4, <3>5
      <4> QED
        BY <2>3, <2>4, <3>3, <3>5, <4>1 DEF EntryAt
    <3>6. CASE e2 # PTE_INVALID
      <4>1. PICK r \in DOMAIN tables \ {root} : e2 = TableEntry(r) /\ e2.frame = r
        BY <2>5, <3>6
      <4>2. r = t <=> i = a /\ j = b
        <5>1. CASE i = a /\ j = b
          BY <2>6, <3>3, <3>4, <4>1, <5>1, EntriesAreValid
        <5>2. CASE r = t
          <6>1. RefersTo(q, j, t) /\ RefersTo(root, i, q)
            BY <2>1, <3>1, <3>3, <4>1, <5>2 DEF RefersTo
          <6>2. q = p /\ j = b
            BY <6>1 DEF Tree
          <6>3. i = a
            BY <1>1, <1>2, <6>1, <6>2 DEF Tree
          <6> QED
            BY <5>2, <6>2, <6>3
        <5> QED
          BY <5>1, <5>2
      <4>3. \A k \in Indexes : EntryAt(e2, k) = tables[r][k] /\ Lower(e2, k) = tables'[r][k]
        BY <3>6, <4>1 DEF EntryAt
      <4>4. \A k \in Indexes : tables'[r][k] = IF r = t /\ k = c THEN e ELSE tables[r][k]
        BY <1>4, <4>1
      <4>5. Lower(e1, j) = e2
        BY <3>3
      <4> HIDE DEF Lower
      <4>6. \A k \in Indexes : Path(i, j, k)' = IF r = t /\ k = c THEN e ELSE Path(i, j, k)
        BY <2>4, <4>3, <4>4, <4>5
      <4> QED
        BY <2>3, <4>2, <4>5, <4>6
    <3> QED
      BY <3>5, <3>6
  <2> QED
    BY <2>7, <2>8
<1> QED
  BY <1>1, <1>4, <1>5, <1>6, <1>8, <1>9, <1>10

(* A call that goes on to a later page of the physmap leaves at most one    *)
(* table behind for each index that it passes.                              *)
LEMMA RoomAhead ==
  ASSUME Arena, Loop, Room, UNCHANGED <<boot, allocation_ptr>>, call > 3, call' > 3, call' \in Nat,
         NEW a \in Nat, NEW b \in Indexes, a = locals.l1_i, b = locals.l2_i,
         NEW i \in Nat, NEW j \in Indexes, i = locals'.l1_i, j = locals'.l2_i,
         a < i \/ (a = i /\ b <= j),
         L2Used(a)' = L2Used(a), L3Used(a, b)' = L3Used(a, b)
  PROVE  Room'
<1>1. PICK root \in Nat, ptr \in Nat, first \in Int :
        root = table_base /\ ptr = allocation_ptr /\ first = PhysmapFirst(boot)
  <2>1. allocation_ptr \in Nat /\ boot \in Boots
    BY DEF Arena
  <2> QED
    BY <2>1, BaseIsPage, PhysmapFits
<1>2. PICK u2 \in {0, 1}, u3 \in {0, 1} : u2 = L2Used(a) /\ u3 = L3Used(a, b)
  BY UsedType
<1>3. PICK v2 \in {0, 1}, v3 \in {0, 1} : v2 = L2Used(i)' /\ v3 = L3Used(i, j)'
  BY DEF L2Used, L3Used
<1>4. PICK passed \in Int, then \in Int :
        passed = (a - first) * (N + 1) /\ then = (i - first) * (N + 1)
  BY CountType
<1>5. ptr <= root + 3 + passed + b + (u2 + u3)
  BY <1>1, <1>2, <1>4 DEF Room
<1>6. N \in Nat /\ b \in 0 .. N - 1 /\ j \in 0 .. N - 1
  BY CountType
<1>7. passed + b + (u2 + u3) <= then + j + (v2 + v3)
  <2>1. CASE a < i
    <3>1. PICK d \in Nat : i = a + 1 + d
      <4>1. i - (a + 1) \in Nat /\ i = a + 1 + (i - (a + 1))
        BY <2>1
      <4> QED
        BY <4>1
    <3>2. then = passed + (N + 1) + d * (N + 1)
      <4>1. PICK k \in Int, n \in Int : k = a - first /\ n = N + 1
        BY <1>6
      <4>2. i - first = k + 1 + d
        BY <3>1, <4>1
      <4>3. (k + 1 + d) * n = k * n + n + d * n
        OBVIOUS
      <4> QED
        BY <1>4, <4>1, <4>2, <4>3
    <3>3. d * (N + 1) \in Nat
      BY <1>6
    <3>4. b + (u2 + u3) <= N + 1
      BY <1>6
    <3>5. PICK more \in Nat : more = d * (N + 1)
      BY <3>3
    <3> QED
      BY <1>6, <3>2, <3>4, <3>5
  <2>2. CASE a = i /\ b = j
    <3>1. v2 = u2 /\ v3 = u3 /\ then = passed
      BY <1>2, <1>3, <1>4, <2>2
    <3> QED
      BY <1>6, <2>2, <3>1
  <2>3. CASE a = i /\ b < j
    <3>1. v2 = u2 /\ then = passed
      BY <1>2, <1>3, <1>4, <2>3
    <3> QED
      BY <1>6, <2>3, <3>1
  <2> QED
    BY <1>6, <2>1, <2>2, <2>3
<1>8. ptr <= root + 3 + then + j + (v2 + v3)
  BY <1>5, <1>6, <1>7
<1>9. allocation_ptr' = ptr /\ table_base' = root /\ PhysmapFirst(boot)' = first
  BY <1>1 DEF table_base
<1> QED
  BY <1>3, <1>4, <1>8, <1>9 DEF Room

(* The index of the loop, as digits.                                        *)
LEMMA Position ==
  ASSUME IInv
  PROVE  /\ call <= 3 => locals.l1_i = 0 /\ locals.l2_i = 0
         /\ Digits(locals.l1_i, locals.l2_i, locals.l3_i) = mapping.vm_base + locals.page_i
<1>1. Digits(locals.l1_i, locals.l2_i, locals.l3_i) = mapping.vm_base + locals.page_i
  BY DEF IInv, Loop
<1>2. ASSUME call <= 3
      PROVE  mapping.vm_base + locals.page_i < N
  BY <1>2, Current, CountType DEF IInv
<1> QED
  BY <1>1, <1>2, Current, SmallDigits DEF IInv

(* No page of another call is the page that the running call maps next.     *)
LEMMA AskedNext ==
  ASSUME IInv, ~ Mapped, NEW cur, cur = mapping.vm_base + locals.page_i,
         NEW c \in 1 .. Len(Mappings(boot))
  PROVE  ~ Asked(cur, c)
<1>1. PICK M : M = Mappings(boot)
  OBVIOUS
<1>2. PICK k \in 1 .. 5 : k = call
  BY Current DEF IInv
<1>3. /\ boot \in Boots /\ Len(M) = 5 /\ locals.page_i \in Nat /\ mapping = M[k]
      /\ locals.page_i < M[k].page_count
  <2>1. boot \in Boots /\ Len(M) = 5 /\ mapping = M[k]
    BY <1>1, <1>2, MappingFacts DEF IInv, Arena, mapping
  <2>2. locals.page_i \in Nat /\ locals.page_i <= mapping.page_count /\ mapping.page_count \in Nat
        /\ locals.page_i # mapping.page_count
    BY Current DEF IInv, Mapped
  <2> QED
    BY <2>1, <2>2
<1>4. /\ M[k].vm_base \in Nat /\ M[k].page_count \in Nat
      /\ M[c].vm_base \in Nat /\ M[c].page_count \in Nat
      /\ c < k => M[c].vm_base + M[c].page_count <= M[k].vm_base
  BY <1>1, <1>2, <1>3, MappingFacts
<1>5. c \in 1 .. 5
  BY <1>1, <1>3
<1>6. CASE c < k
  BY <1>1, <1>2, <1>3, <1>4, <1>5, <1>6 DEF Asked, Done
<1>7. CASE c = k
  BY <1>1, <1>2, <1>3, <1>4, <1>5, <1>7 DEF Asked, Done
<1>8. CASE c > k
  BY <1>1, <1>2, <1>3, <1>4, <1>5, <1>8 DEF Asked, Done
<1> QED
  BY <1>5, <1>6, <1>7, <1>8

(* A written entry is one more page that was asked for.                     *)
LEMMA AskedGrows ==
  ASSUME IInv, WriteEntry, NEW cur, cur = mapping.vm_base + locals.page_i
  PROVE  \A va \in VirtualPages : \A k \in 1 .. 5 :
           Asked(va, k)' <=> Asked(va, k) \/ (k = call /\ va = cur)
<1>1. PICK M : M = Mappings(boot)
  OBVIOUS
<1>2. /\ Mappings(boot)' = M /\ mapping = M[call] /\ call' = call
      /\ boot \in Boots /\ call \in 1 .. 5 /\ locals.page_i \in Nat
  BY <1>1, Current DEF mapping, IInv, Arena, WriteEntry
<1>3. \A k \in 1 .. 5 : /\ M[k].vm_base \in Nat /\ M[k].page_count \in Nat
                        /\ Done(k) = IF k < call THEN M[k].page_count
                                     ELSE IF k = call THEN locals.page_i ELSE 0
                        /\ Done(k)' = IF k < call THEN M[k].page_count
                                      ELSE IF k = call THEN locals.page_i + 1 ELSE 0
  <2>1. locals'.page_i = locals.page_i + 1
    BY Current, AdvanceFacts DEF IInv, WriteEntry
  <2>2. \A k \in 1 .. 5 : M[k].vm_base \in Nat /\ M[k].page_count \in Nat
    BY <1>1, <1>2, MappingFacts
  <2> QED
    BY <1>1, <1>2, <2>1, <2>2 DEF Done
<1> SUFFICES ASSUME NEW va \in VirtualPages, NEW k \in 1 .. 5
             PROVE  Asked(va, k)' <=> Asked(va, k) \/ (k = call /\ va = cur)
  OBVIOUS
<1>4. Asked(va, k) <=> va - M[k].vm_base \in 0 .. Done(k) - 1
  BY <1>1 DEF Asked
<1>5. Asked(va, k)' <=> va - M[k].vm_base \in 0 .. Done(k)' - 1
  BY <1>2 DEF Asked
<1>6. va \in Nat
  BY DEF VirtualPages
<1>7. PICK d, x : d = Done(k) /\ x = Done(k)'
  OBVIOUS
<1>8. CASE k = call
  <2>1. cur = M[k].vm_base + locals.page_i /\ d = locals.page_i /\ x = locals.page_i + 1
    BY <1>2, <1>3, <1>7, <1>8
  <2> QED
    BY <1>2, <1>3, <1>4, <1>5, <1>6, <1>7, <1>8, <2>1
<1>9. CASE k # call
  <2>1. d = x
    BY <1>3, <1>7, <1>9
  <2> QED
    BY <1>4, <1>5, <1>7, <1>9, <2>1
<1> QED
  BY <1>8, <1>9

(* An entry is written where the indexes have got to, and they advance.     *)
LEMMA WriteEntryStep ==
  ASSUME IInv, WriteEntry
  PROVE  IInv'
<1>1. PICK root \in Nat : root = table_base
  BY BaseIsPage DEF IInv
<1>2. PICK a \in Indexes, b \in Indexes, c \in Indexes :
        a = locals.l1_i /\ b = locals.l2_i /\ c = locals.l3_i
  BY Current DEF IInv, WriteEntry
<1>3. PICK p \in DOMAIN tables, t \in DOMAIN tables :
        /\ p = locals.l2 /\ t = locals.l3
        /\ RefersTo(table_base, a, p) /\ RefersTo(p, b, t)
  BY <1>2 DEF IInv, Loop, WriteEntry
<1>4. PICK e : e = Entry(mapping.phys_base + locals.page_i, mapping.template)
  OBVIOUS
<1>5. PICK cur : cur = mapping.vm_base + locals.page_i
  OBVIOUS
<1>6. /\ ~ Mapped /\ tables[t][c] = PTE_INVALID
      /\ tables' = [tables EXCEPT ![t][c] = e]
      /\ locals' = Advance(locals)
      /\ boot' = boot /\ call' = call /\ ttbr1' = ttbr1 /\ pfa_reserved' = pfa_reserved
      /\ allocation_ptr' = allocation_ptr /\ table_base' = root
  BY <1>1, <1>2, <1>3, <1>4 DEF WriteEntry, EntryIsFree, table_base
<1>7. /\ locals \in LocalsType /\ locals.page_i \in Nat /\ call \in 1 .. 5
      /\ mapping.vm_base \in Nat /\ mapping.phys_base \in Nat /\ mapping.page_count \in Nat
      /\ mapping.template \in Templates
      /\ locals.page_i + 1 <= mapping.page_count
      /\ cur = Digits(a, b, c) /\ a \in Nat
  <2>1. /\ locals \in LocalsType /\ locals.page_i \in Nat /\ call \in 1 .. 5
        /\ mapping.vm_base \in Nat /\ mapping.phys_base \in Nat /\ mapping.page_count \in Nat
        /\ mapping.template \in Templates /\ locals.page_i <= mapping.page_count
    BY Current DEF IInv
  <2>2. locals.page_i # mapping.page_count
    BY <1>6 DEF Mapped
  <2>3. cur = Digits(a, b, c) /\ a \in Nat
    BY <1>2, <1>5, Position DEF Indexes
  <2> QED
    BY <2>1, <2>2, <2>3
<1>8. e \in Leaf
  BY <1>4, <1>7 DEF Leaf, Entry
<1>9. /\ Arena' /\ Tree' /\ DOMAIN tables' = DOMAIN tables
      /\ \A q, r \in DOMAIN tables : \A j \in Indexes : RefersTo(q, j, r)' <=> RefersTo(q, j, r)
      /\ \A i \in Indexes : tables'[table_base][i] = tables[table_base][i]
      /\ \A i, j \in Indexes :
           EntryAt(tables[table_base][i], j)' = EntryAt(tables[table_base][i], j)
      /\ \A i, j, k \in Indexes : Path(i, j, k)' =
           IF i = a /\ j = b /\ k = c THEN e ELSE Path(i, j, k)
  <2>1. /\ Arena /\ Tree /\ UNCHANGED <<boot, allocation_ptr>>
        /\ RefersTo(table_base, a, p) /\ RefersTo(p, b, t)
        /\ WriteAt(t, c, e)
    BY <1>3, <1>6 DEF IInv, WriteAt
  <2>2. Arena' /\ Tree' /\ DOMAIN tables' = DOMAIN tables
    BY <1>8, <2>1, WriteKeepsTree
  <2>3. \A q, r \in DOMAIN tables : \A j \in Indexes : RefersTo(q, j, r)' <=> RefersTo(q, j, r)
    BY <1>8, <2>1, WriteKeepsTree
  <2>4. \A i \in Indexes : tables'[table_base][i] = tables[table_base][i]
    BY <1>8, <2>1, WriteKeepsTree
  <2>5. \A i, j \in Indexes :
          EntryAt(tables[table_base][i], j)' = EntryAt(tables[table_base][i], j)
    BY <1>8, <2>1, WriteKeepsTree
  <2>6. \A i, j, k \in Indexes :
          i = a /\ j = b /\ k = c => Path(i, j, k)' = e
    BY <1>8, <2>1, WriteKeepsTree
  <2>7. \A i, j, k \in Indexes :
          i # a \/ j # b \/ k # c => Path(i, j, k)' = Path(i, j, k)
    BY <1>8, <2>1, WriteKeepsTree
  <2> QED
    BY <2>2, <2>3, <2>4, <2>5, <2>6, <2>7
<1>10. \A q, r \in DOMAIN tables : \A j \in Indexes : RefersTo(q, j, r) => RefersTo(q, j, r)'
  BY <1>9
<1>11. PICK w : w = Advance(locals)
  OBVIOUS
<1>12. /\ w \in LocalsType /\ w.page_i = locals.page_i + 1
       /\ Digits(w.l1_i, w.l2_i, w.l3_i) = cur + 1
       /\ \/ /\ w.l1_i = a /\ w.l2_i = b /\ w.l2 = p /\ w.l3 = t
          \/ /\ w.l1_i = a /\ w.l2_i = b + 1 /\ w.l2 = p /\ w.l3 = PHYS_ADDR_INVALID
          \/ /\ w.l1_i = a + 1 /\ w.l2_i = 0
             /\ w.l2 = PHYS_ADDR_INVALID /\ w.l3 = PHYS_ADDR_INVALID
  <2>1. LET v == Advance(locals)
        IN  /\ v \in LocalsType /\ v.page_i = locals.page_i + 1
            /\ Digits(v.l1_i, v.l2_i, v.l3_i) = Digits(locals.l1_i, locals.l2_i, locals.l3_i) + 1
            /\ \/ /\ v.l1_i = locals.l1_i /\ v.l2_i = locals.l2_i
                  /\ v.l2 = locals.l2 /\ v.l3 = locals.l3
               \/ /\ v.l1_i = locals.l1_i /\ v.l2_i = locals.l2_i + 1
                  /\ v.l2 = locals.l2 /\ v.l3 = PHYS_ADDR_INVALID
               \/ /\ v.l1_i = locals.l1_i + 1 /\ v.l2_i = 0 /\ locals.l2_i = N - 1
                  /\ v.l2 = PHYS_ADDR_INVALID /\ v.l3 = PHYS_ADDR_INVALID
    BY <1>7, AdvanceFacts
  <2> QED
    BY <1>2, <1>3, <1>7, <1>11, <2>1
<1>13. /\ w.l1_i \in Nat /\ w.l2_i \in Indexes /\ w.l3_i \in Indexes
  BY <1>12 DEF LocalsType
<1>14. locals' = w /\ mapping' = mapping
  BY <1>6, <1>11 DEF mapping
<1>15. Loop'
  <2>1. w.l2 # PHYS_ADDR_INVALID => w.l1_i = a /\ w.l2 = p
    BY <1>12
  <2>2. w.l3 # PHYS_ADDR_INVALID => w.l2 = p /\ w.l2_i = b /\ w.l3 = t
    BY <1>12
  <2>3. RefersTo(root, a, p)' /\ RefersTo(p, b, t)'
    BY <1>1, <1>3, <1>10, BaseIsPage DEF IInv
  <2>4. p # PHYS_ADDR_INVALID
    BY <1>3, BaseIsPage, InvalidAssumption DEF IInv
  <2>5. /\ w.l2 # PHYS_ADDR_INVALID =>
             /\ w.l1_i \in Indexes /\ w.l2 \in DOMAIN tables'
             /\ tables'[root][w.l1_i] = TableEntry(w.l2)
        /\ w.l3 # PHYS_ADDR_INVALID =>
             /\ w.l2 # PHYS_ADDR_INVALID /\ w.l3 \in DOMAIN tables'
             /\ tables'[w.l2][w.l2_i] = TableEntry(w.l3)
    BY <1>9, <2>1, <2>2, <2>3, <2>4 DEF RefersTo
  <2>6. /\ call \in 1 .. Len(Mappings(boot))
        /\ w.page_i <= mapping.page_count
        /\ Digits(w.l1_i, w.l2_i, w.l3_i) = mapping.vm_base + w.page_i
    BY <1>5, <1>7, <1>12 DEF IInv, Loop
  <2> QED
    BY <1>6, <1>12, <1>14, <2>5, <2>6 DEF Loop, RefersTo
<1>16. Room'
  <2>1. L2Used(a)' = L2Used(a) /\ L3Used(a, b)' = L3Used(a, b)
    BY <1>1, <1>6, <1>9 DEF L2Used, L3Used
  <2>2. CASE call <= 3
    <3>1. a = 0 /\ b = 0
      BY <1>2, <2>2, Position
    <3>2. cur + 1 < N
      <4>1. mapping.vm_base + mapping.page_count < N
        BY <2>2, Current DEF IInv
      <4>2. cur + 1 = mapping.vm_base + (locals.page_i + 1)
        BY <1>5, <1>7
      <4>3. mapping.vm_base + (locals.page_i + 1) <= mapping.vm_base + mapping.page_count
        BY <1>7
      <4>4. mapping.vm_base + (locals.page_i + 1) \in Nat /\ mapping.vm_base + mapping.page_count \in Nat
        BY <1>7
      <4> QED
        BY <4>1, <4>2, <4>3, <4>4, CountType
    <3>3. w.l1_i = 0 /\ w.l2_i = 0
      BY <1>12, <1>13, <3>2, SmallDigits
    <3>4. L2Used(a)' + L3Used(a, b)' = L2Used(a) + L3Used(a, b) + 0
      BY <2>1, UsedType
    <3>5. allocation_ptr' = allocation_ptr + 0
      BY <1>6 DEF IInv, Arena
    <3> QED
      BY <1>2, <1>6, <1>14, <3>1, <3>3, <3>4, <3>5, RoomGrows DEF IInv
  <2>3. CASE call > 3
    <3>1. PICK i \in Nat, j \in Indexes, k \in Indexes : i = w.l1_i /\ j = w.l2_i /\ k = w.l3_i
      BY <1>13
    <3>2. Digits(a, b, c) <= Digits(i, j, k)
      BY <1>5, <1>7, <1>12, <3>1
    <3>3. a < i \/ (a = i /\ b <= j)
      BY <1>7, <3>2, DigitsOrder
    <3> QED
      BY <1>2, <1>6, <1>7, <1>14, <2>1, <2>3, <3>1, <3>3, RoomAhead DEF IInv
  <2> QED
    BY <1>7, <2>2, <2>3
<1>17. Phases'
  <2>1. ttbr1 = BootstrapTable /\ pfa_reserved = PHYS_ADDR_INVALID
    BY <1>6 DEF IInv, Phases
  <2> QED
    BY <1>6, <2>1 DEF Phases
<1>18. \A va \in VirtualPages : Walk(va)' = IF va = cur THEN e ELSE Walk(va)
  <2> SUFFICES ASSUME NEW va \in VirtualPages
               PROVE  Walk(va)' = IF va = cur THEN e ELSE Walk(va)
    OBVIOUS
  <2>1. PICK i \in Nat, j \in Indexes, k \in Indexes : va = Digits(i, j, k)
    <3>1. va \in Nat
      BY DEF VirtualPages
    <3> QED
      BY <3>1, DigitsExist
  <2>2. i \in Indexes
    BY <2>1, VirtualDigits
  <2>3. Walk(Digits(i, j, k)) = Path(i, j, k)
    BY <2>2, WalkIsPath DEF IInv
  <2>4. Walk(Digits(i, j, k))' = Path(i, j, k)'
    BY <1>9, <2>2, WalkIsPathNext
  <2>5. va = cur <=> i = a /\ j = b /\ k = c
    <3>1. L1Index(va) = i /\ L2Index(va) = j /\ L3Index(va) = k
      BY <2>1, DigitsOf
    <3>2. L1Index(cur) = a /\ L2Index(cur) = b /\ L3Index(cur) = c
      BY <1>7, DigitsOf
    <3> QED
      BY <1>7, <2>1, <3>1, <3>2
  <2>6. Path(i, j, k)' = IF i = a /\ j = b /\ k = c THEN e ELSE Path(i, j, k)
    BY <1>9, <2>2
  <2> QED
    BY <2>1, <2>3, <2>4, <2>5, <2>6
<1>19. MapsWhatWasAsked'
  <2>1. PICK M : M = Mappings(boot)
    OBVIOUS
  <2>2. Mappings(boot)' = M /\ Len(M) = 5 /\ mapping = M[call]
    BY <1>6, <2>1, MappingFacts DEF mapping, IInv, Arena
  <2>3. \A va \in VirtualPages : \A k \in 1 .. 5 :
          Asked(va, k)' <=> Asked(va, k) \/ (k = call /\ va = cur)
    BY <1>5, AskedGrows
  <2>4. \A k \in 1 .. 5 : ~ Asked(cur, k)
    BY <1>5, <1>6, <2>1, <2>2, AskedNext
  <2>5. ASSUME NEW va \in VirtualPages
        PROVE  /\ \A k \in 1 .. 5 : Asked(va, k)' =>
                    Walk(va)' = Entry(M[k].phys_base + (va - M[k].vm_base), M[k].template)
               /\ (\A k \in 1 .. 5 : ~ Asked(va, k)') => Walk(va)' = PTE_INVALID
    <3>1. /\ \A k \in 1 .. 5 : Asked(va, k) =>
               Walk(va) = Entry(M[k].phys_base + (va - M[k].vm_base), M[k].template)
          /\ (\A k \in 1 .. 5 : ~ Asked(va, k)) => Walk(va) = PTE_INVALID
      BY <2>1, <2>2 DEF IInv, MapsWhatWasAsked
    <3>2. CASE va = cur
      <4>1. Walk(va)' = e
        BY <1>18, <3>2
      <4>2. \A k \in 1 .. 5 : Asked(va, k)' <=> k = call
        BY <2>3, <2>4, <3>2
      <4>3. cur - mapping.vm_base = locals.page_i
        BY <1>5, <1>7
      <4> QED
        BY <1>4, <1>7, <2>2, <3>2, <4>1, <4>2, <4>3
    <3>3. CASE va # cur
      <4>1. Walk(va)' = Walk(va) /\ \A k \in 1 .. 5 : Asked(va, k)' <=> Asked(va, k)
        BY <1>18, <2>3, <3>3
      <4> QED
        BY <3>1, <4>1
    <3> QED
      BY <3>2, <3>3
  <2> QED
    BY <2>2, <2>5 DEF MapsWhatWasAsked
<1> QED
  BY <1>9, <1>15, <1>16, <1>17, <1>19 DEF IInv

(* The next call begins at or above where the last one ended.               *)
LEMMA NextMappingStep ==
  ASSUME IInv, NextMapping
  PROVE  IInv'
<1>1. PICK M : M = Mappings(boot)
  OBVIOUS
<1>2. PICK k \in 1 .. 4 : k = call
  <2>1. boot \in Boots /\ call \in 1 .. 5 /\ call < Len(Mappings(boot))
    BY Current DEF IInv, Arena, NextMapping
  <2>2. Len(Mappings(boot)) = 5
    BY <2>1, MappingFacts
  <2> QED
    BY <2>1, <2>2
<1>3. /\ boot \in Boots /\ Len(M) = 5 /\ mapping = M[k]
      /\ locals.page_i = M[k].page_count
      /\ call' = k + 1 /\ locals' = Start(M[k + 1])
      /\ boot' = boot /\ tables' = tables /\ allocation_ptr' = allocation_ptr
      /\ ttbr1' = ttbr1 /\ pfa_reserved' = pfa_reserved /\ table_base' = table_base
  BY <1>1, <1>2, MappingFacts DEF IInv, Arena, mapping, NextMapping, Mapped, table_base
<1>4. \A c \in 1 .. 5 :
        /\ M[c].vm_base \in Nat /\ M[c].page_count \in Nat
        /\ c <= 3 => M[c].vm_base + M[c].page_count < N
        /\ c > 3 => physmap_vm_base(boot) <= M[c].vm_base
  BY <1>1, <1>3, MappingFacts
<1>5. M[k].vm_base + M[k].page_count <= M[k + 1].vm_base
  BY <1>1, <1>2, <1>3, MappingFacts
<1>6. PICK w : w = Start(M[k + 1])
  OBVIOUS
<1>7. /\ w \in LocalsType /\ w.page_i = 0
      /\ w.l2 = PHYS_ADDR_INVALID /\ w.l3 = PHYS_ADDR_INVALID
      /\ Digits(w.l1_i, w.l2_i, w.l3_i) = M[k + 1].vm_base
  BY <1>2, <1>4, <1>6, StartFacts
<1>8. locals' = w /\ mapping' = M[k + 1]
  <2>1. mapping' = Mappings(boot)[k + 1]
    BY <1>3 DEF mapping
  <2> QED
    BY <1>1, <1>3, <1>6, <2>1
<1>9. PICK i \in Nat, j \in Indexes, l \in Indexes : i = w.l1_i /\ j = w.l2_i /\ l = w.l3_i
  BY <1>7 DEF LocalsType
<1>10. PICK a \in Nat, b \in Indexes, c \in Indexes :
         a = locals.l1_i /\ b = locals.l2_i /\ c = locals.l3_i
  BY Current DEF IInv
<1>11. Arena' /\ Tree'
  BY <1>3 DEF IInv, Arena, Tree, table_base, RefersTo, IsL2
<1>12. Loop'
  <2>1. k + 1 \in 1 .. Len(M) /\ w.page_i <= M[k + 1].page_count
        /\ Digits(w.l1_i, w.l2_i, w.l3_i) = M[k + 1].vm_base + w.page_i
    BY <1>2, <1>3, <1>4, <1>7
  <2> QED
    BY <1>1, <1>3, <1>7, <1>8, <2>1 DEF Loop
<1>13. Room'
  <2>1. \A x, y : L2Used(x)' = L2Used(x) /\ L3Used(x, y)' = L3Used(x, y)
    BY <1>3 DEF L2Used, L3Used, EntryAt
  <2>2. Digits(a, b, c) = M[k].vm_base + M[k].page_count
    BY <1>3, <1>10, Position
  <2>3. CASE k <= 2
    <3>1. a = 0 /\ b = 0
      BY <1>2, <1>10, <2>3, Position
    <3>2. M[k + 1].vm_base < N
      <4>1. M[k + 1].vm_base + M[k + 1].page_count < N
        BY <1>2, <1>4, <2>3
      <4>2. PICK x \in Nat, y \in Nat : x = M[k + 1].vm_base /\ y = M[k + 1].page_count
        BY <1>2, <1>4
      <4>3. N \in Nat
        BY CountType
      <4> QED
        BY <4>1, <4>2, <4>3
    <3>3. i = 0 /\ j = 0
      BY <1>7, <1>9, <3>2, SmallDigits
    <3>4. PICK before \in Nat, ptr \in Nat, root \in Nat :
            before = L2Used(0) + L3Used(0, 0) /\ ptr = allocation_ptr /\ root = table_base
      <4>1. L2Used(0) + L3Used(0, 0) \in Nat
        BY UsedType
      <4>2. allocation_ptr \in Nat
        BY DEF IInv, Arena
      <4> QED
        BY <4>1, <4>2, BaseIsPage DEF IInv
    <3>5. ptr <= root + 1 + before
      BY <1>2, <1>10, <2>3, <3>1, <3>4 DEF IInv, Room
    <3>6. L2Used(0)' + L3Used(0, 0)' = before
      BY <2>1, <3>4
    <3>7. call' <= 3 /\ ~ (call' > 3)
      BY <1>2, <1>3, <2>3
    <3> QED
      BY <1>3, <1>8, <1>9, <3>3, <3>4, <3>5, <3>6, <3>7 DEF Room
  <2>4. CASE k = 3
    <3>1. a = 0 /\ b = 0
      BY <1>2, <1>10, <2>4, Position
    <3>2. PICK first \in Nat : first = PhysmapFirst(boot)
      BY <1>3, PhysmapFits, CountType
    <3>3. M[k + 1].vm_base = Digits(first, 0, 0)
      <4>1. M[4].vm_base = physmap_vm_base(boot)
        BY <1>1 DEF Mappings, Mapping
      <4>2. physmap_vm_base(boot) = first * (N * N)
        BY <1>3, <3>2, PhysmapFits
      <4>3. Digits(first, 0, 0) = first * (N * N)
        BY CountType DEF Digits
      <4> QED
        BY <2>4, <4>1, <4>2, <4>3
    <3>4. i = first /\ j = 0
      <4>1. L1Index(Digits(i, j, l)) = i /\ L2Index(Digits(i, j, l)) = j
        BY DigitsOf
      <4>2. L1Index(Digits(first, 0, 0)) = first /\ L2Index(Digits(first, 0, 0)) = 0
        <5>1. 0 \in Indexes
          BY CountType
        <5> QED
          BY <5>1, DigitsOf
      <4> QED
        BY <1>7, <1>9, <3>3, <4>1, <4>2
    <3>5. PICK before \in Nat, ptr \in Nat, root \in Nat :
            /\ before = L2Used(0) + L3Used(0, 0) /\ ptr = allocation_ptr /\ root = table_base
            /\ before <= 2
      <4>1. L2Used(0) + L3Used(0, 0) \in Nat /\ L2Used(0) + L3Used(0, 0) <= 2
        <5>1. L2Used(0) \in {0, 1} /\ L3Used(0, 0) \in {0, 1}
          BY UsedType
        <5> QED
          BY <5>1
      <4>2. allocation_ptr \in Nat
        BY DEF IInv, Arena
      <4> QED
        BY <4>1, <4>2, BaseIsPage DEF IInv
    <3>6. ptr <= root + 1 + before
      BY <1>2, <1>10, <2>4, <3>1, <3>5 DEF IInv, Room
    <3>7. PICK after \in Nat : after = L2Used(i)' + L3Used(i, j)'
      <4>1. L2Used(i) + L3Used(i, j) \in Nat
        BY UsedType
      <4> QED
        BY <2>1, <4>1
    <3>8. (i - first) * (N + 1) = 0
      BY <3>4, CountType
    <3>9. ptr <= root + 3 + (i - first) * (N + 1) + j + after
      BY <3>4, <3>5, <3>6, <3>7, <3>8
    <3>10. ~ (call' <= 3)
      BY <1>2, <1>3, <2>4
    <3>11. PhysmapFirst(boot)' = first
      BY <1>3, <3>2
    <3> QED
      BY <1>3, <1>8, <1>9, <3>5, <3>7, <3>9, <3>10, <3>11 DEF Room
  <2>5. CASE k = 4
    <3>1. a < i \/ (a = i /\ b <= j)
      BY <1>5, <1>7, <1>9, <2>2, DigitsOrder
    <3>2. call > 3 /\ call' > 3 /\ call' \in Nat
      BY <1>2, <1>3, <2>5
    <3> QED
      BY <1>3, <1>8, <1>9, <1>10, <2>1, <3>1, <3>2, RoomAhead DEF IInv
  <2> QED
    BY <1>2, <2>3, <2>4, <2>5
<1>14. Phases'
  <2>1. ttbr1 = BootstrapTable /\ pfa_reserved = PHYS_ADDR_INVALID
    BY <1>1, <1>2, <1>3 DEF IInv, Phases
  <2> QED
    BY <1>3, <2>1 DEF Phases
<1>15. MapsWhatWasAsked'
  <2>1. \A va \in VirtualPages : Walk(va)' = Walk(va)
    BY <1>3 DEF Walk, EntryAt
  <2>2. ASSUME NEW d \in 1 .. 5
        PROVE  Done(d)' = Done(d)
    <3>1. Done(d) = IF d < k THEN M[d].page_count ELSE IF d = k THEN M[k].page_count ELSE 0
      BY <1>1, <1>2, <1>3 DEF Done
    <3>2. Done(d)' = IF d < k + 1 THEN M[d].page_count ELSE IF d = k + 1 THEN 0 ELSE 0
      <4>1. locals'.page_i = 0
        BY <1>7, <1>8
      <4>2. Mappings(boot)' = M
        BY <1>1, <1>3
      <4> QED
        BY <1>3, <4>1, <4>2 DEF Done
    <3> QED
      BY <1>2, <3>1, <3>2
  <2> QED
    BY <1>1, <1>3, <2>1, <2>2, MapsKept DEF IInv
<1> QED
  BY <1>11, <1>12, <1>13, <1>14, <1>15 DEF IInv

(* What pmap_vm_init does when all is mapped.                               *)
LEMMA TablesKept ==
  ASSUME IInv, UNCHANGED <<boot, tables, allocation_ptr, call, locals>>
  PROVE  Arena' /\ Tree' /\ Loop' /\ Room' /\ MapsWhatWasAsked' /\ mapping' = mapping
         /\ table_base' = table_base
<1>1. mapping' = mapping /\ table_base' = table_base
  BY DEF mapping, table_base
<1>2. Arena' /\ Tree'
  BY DEF IInv, Arena, Tree, table_base, RefersTo, IsL2
<1>3. Loop'
  BY <1>1 DEF IInv, Loop, RefersTo
<1>4. Room'
  <2>1. \A x, y : L2Used(x)' = L2Used(x) /\ L3Used(x, y)' = L3Used(x, y)
    BY <1>1 DEF L2Used, L3Used, EntryAt
  <2> QED
    BY <1>1, <2>1 DEF IInv, Room
<1>5. MapsWhatWasAsked'
  <2>1. \A va \in VirtualPages : Walk(va)' = Walk(va)
    BY <1>1 DEF Walk, EntryAt
  <2>2. \A c \in 1 .. Len(Mappings(boot)) : Done(c)' = Done(c)
    BY DEF Done
  <2> QED
    BY <2>1, <2>2, MapsKept DEF IInv
<1> QED
  BY <1>1, <1>2, <1>3, <1>4, <1>5

(* Only with all five ranges mapped are the tables put to use,              *)
LEMMA SwitchStep ==
  ASSUME IInv, vm_bootstrap_switch_to_pmap_kernel
  PROVE  IInv'
<1>1. /\ Arena' /\ Tree' /\ Loop' /\ Room' /\ MapsWhatWasAsked'
      /\ mapping' = mapping /\ table_base' = table_base
  BY TablesKept DEF vm_bootstrap_switch_to_pmap_kernel
<1>2. Phases'
  BY <1>1 DEF IInv, Phases, Mapped, vm_bootstrap_switch_to_pmap_kernel
<1> QED
  BY <1>1, <1>2 DEF IInv

(* and only then is the memory behind them handed over.                     *)
LEMMA HandOverStep ==
  ASSUME IInv, pmap_pfa_init
  PROVE  IInv'
<1>1. /\ Arena' /\ Tree' /\ Loop' /\ Room' /\ MapsWhatWasAsked'
      /\ mapping' = mapping /\ table_base' = table_base
  BY TablesKept DEF pmap_pfa_init
<1>2. Phases'
  BY <1>1 DEF IInv, Phases, Mapped, pmap_pfa_init
<1> QED
  BY <1>1, <1>2 DEF IInv

----------------------------------------------------------------------------
(* The theorems                                                             *)

(* At first there is the root, and nothing translates.                      *)
LEMMA InitInv ==
  ASSUME Init
  PROVE  IInv
<1>1. PICK root \in Nat : root = table_base
  <2>1. boot \in Boots
    BY DEF Init
  <2> QED
    BY <2>1, BootFacts DEF table_base
<1>2. /\ boot \in Boots /\ tables = [ p \in {root} |-> EmptyTable ]
      /\ allocation_ptr = root + 1 /\ call = 1 /\ locals = Start(mapping)
      /\ ttbr1 = BootstrapTable /\ pfa_reserved = PHYS_ADDR_INVALID
      /\ mapping = Mappings(boot)[1]
  BY <1>1 DEF Init, mapping
<1>3. /\ DOMAIN tables = {root} /\ tables[root] = EmptyTable
      /\ \A i \in Indexes : tables[root][i] = PTE_INVALID
  BY <1>2 DEF EmptyTable
<1>4. Len(Mappings(boot)) = 5 /\ mapping.vm_base \in Nat /\ mapping.page_count \in Nat
  BY <1>2, MappingFacts
<1>5. LET w == Start(mapping)
      IN  /\ w \in LocalsType /\ w.page_i = 0
          /\ w.l2 = PHYS_ADDR_INVALID /\ w.l3 = PHYS_ADDR_INVALID
          /\ Digits(w.l1_i, w.l2_i, w.l3_i) = mapping.vm_base
  BY <1>4, StartFacts
<1>6. Arena
  <2>1. root .. (root + 1) - 1 = {root}
    OBVIOUS
  <2>2. tables = [ p \in DOMAIN tables |-> tables[p] ]
    BY <1>2
  <2>3. \A p \in DOMAIN tables : tables[p] = [ i \in Indexes |-> tables[p][i] ]
    BY <1>3 DEF EmptyTable
  <2> QED
    BY <1>1, <1>2, <1>3, <2>1, <2>2, <2>3 DEF Arena
<1>7. Tree
  <2>1. \A i \in Indexes : \A q \in DOMAIN tables : ~ RefersTo(root, i, q)
    BY <1>1, <1>3, EntriesAreValid DEF RefersTo
  <2> QED
    BY <1>1, <1>3, <2>1 DEF Tree
<1>8. Loop
  BY <1>2, <1>4, <1>5 DEF Loop
<1>9. Room
  <2>1. PICK used \in Nat : used = L2Used(locals.l1_i) + L3Used(locals.l1_i, locals.l2_i)
    <3>1. L2Used(locals.l1_i) + L3Used(locals.l1_i, locals.l2_i) \in Nat
      BY UsedType
    <3> QED
      BY <3>1
  <2> QED
    BY <1>1, <1>2, <2>1 DEF Room
<1>10. Phases
  BY <1>2 DEF Phases
<1>11. MapsWhatWasAsked
  <2>1. ASSUME NEW va \in VirtualPages
        PROVE  Walk(va) = PTE_INVALID
    <3>1. va \in Nat
      BY DEF VirtualPages
    <3>2. PICK a \in Nat, b \in Indexes, c \in Indexes : va = Digits(a, b, c)
      BY <3>1, DigitsExist
    <3>3. a \in Indexes
      BY <3>2, VirtualDigits
    <3>4. Path(a, b, c) = PTE_INVALID
      BY <1>1, <1>3, <3>3 DEF Path, EntryAt
    <3> QED
      BY <1>6, <3>2, <3>3, <3>4, WalkIsPath
  <2>2. \A c \in 1 .. 5 : Done(c) = 0
    BY <1>2, <1>5 DEF Done
  <2>3. \A va \in VirtualPages : \A c \in 1 .. 5 : ~ Asked(va, c)
    BY <2>2 DEF Asked
  <2> QED
    BY <1>4, <2>1, <2>3 DEF MapsWhatWasAsked
<1> QED
  BY <1>6, <1>7, <1>8, <1>9, <1>10, <1>11 DEF IInv

(* No step of the boot core leaves the invariant.                           *)
LEMMA StepInv ==
  ASSUME IInv, [Next]_vars
  PROVE  IInv'
<1>1. CASE LookupL2
  BY <1>1, LookupL2Step
<1>2. CASE LookupL3
  BY <1>2, LookupL3Step
<1>3. CASE WriteEntry
  BY <1>3, WriteEntryStep
<1>4. CASE NextMapping
  BY <1>4, NextMappingStep
<1>5. CASE vm_bootstrap_switch_to_pmap_kernel
  BY <1>5, SwitchStep
<1>6. CASE pmap_pfa_init
  BY <1>6, HandOverStep
<1>7. CASE UNCHANGED vars
  <2>1. /\ Arena' /\ Tree' /\ Loop' /\ Room' /\ MapsWhatWasAsked'
        /\ mapping' = mapping /\ table_base' = table_base
    BY <1>7, TablesKept DEF vars
  <2>2. Phases'
    BY <1>7, <2>1 DEF IInv, Phases, Mapped, vars
  <2> QED
    BY <2>1, <2>2 DEF IInv
<1> QED
  BY <1>1, <1>2, <1>3, <1>4, <1>5, <1>6, <1>7 DEF Next

(* Whatever the kernel and the machine are, the tables are being built as   *)
(* the invariant says at every moment of pmap_vm_init.                      *)
THEOREM InductiveInvariant == Spec => []IInv
<1>1. Init => IInv
  BY InitInv
<1>2. IInv /\ [Next]_vars => IInv'
  BY StepInv
<1> QED
  BY <1>1, <1>2, PTL DEF Spec

(* MapsWhatWasAsked: pmap_vm_init translates exactly the pages of the       *)
(* ranges it was asked for, up to the page it has got to.                   *)
THEOREM ExactlyTheRangesAreMapped == Spec => []MapsWhatWasAsked
<1>1. IInv => MapsWhatWasAsked
  BY DEF IInv
<1> QED
  BY <1>1, InductiveInvariant, PTL

(* The invariant makes the tables a tree.                                   *)
LEMMA TreeOfTables ==
  ASSUME IInv
  PROVE  TablesFormATree
<1>1. /\ table_base \in DOMAIN tables /\ DOMAIN tables \subseteq Nat
      /\ DOMAIN tables = table_base .. allocation_ptr - 1
  BY BaseIsPage DEF IInv, Arena
<1>2. \A ref : \A q \in DOMAIN tables : ref \in References(q) <=>
        \E p \in DOMAIN tables, i \in Indexes : ref = <<p, i>> /\ RefersTo(p, i, q)
  BY DEF References, RefersTo
<1>3. Cardinality(References(table_base)) = 0
  <2>1. References(table_base) = {}
    BY <1>1, <1>2, RootIsRoot DEF IInv
  <2> QED
    BY <2>1, FS_EmptySet
<1>4. ASSUME NEW q \in DOMAIN tables \ {table_base}
      PROVE  Cardinality(References(q)) = 1
  <2>1. PICK p \in DOMAIN tables, i \in Indexes : RefersTo(p, i, q)
    BY DEF IInv, Tree
  <2>2. \A r \in DOMAIN tables, j \in Indexes : RefersTo(r, j, q) => r = p /\ j = i
    BY <2>1 DEF IInv, Tree
  <2>3. References(q) = {<<p, i>>}
    BY <1>2, <2>1, <2>2
  <2> QED
    BY <2>3, FS_Singleton
<1> QED
  BY <1>1, <1>3, <1>4 DEF TablesFormATree

(* TablesFormATree: no table of the kernel is shared, lost, or referred to  *)
(* by one below it.                                                         *)
THEOREM TablesAreATree == Spec => []TablesFormATree
<1>1. IInv => TablesFormATree
  BY TreeOfTables
<1> QED
  BY <1>1, InductiveInvariant, PTL

(* What BootAssumption leaves room for is enough.                           *)
LEMMA TablesFitRAM ==
  ASSUME IInv
  PROVE  table_base <= allocation_ptr /\ allocation_ptr <= boot.ram_size
<1>1. PICK root \in Nat, ptr \in Nat, ram \in Nat, cnt \in Nat :
        /\ root = table_base /\ ptr = allocation_ptr /\ ram = boot.ram_size
        /\ cnt = physmap_l1_cnt(boot) /\ root < ptr
  <2>1. boot \in Boots /\ allocation_ptr \in Nat /\ table_base < allocation_ptr
    BY DEF IInv, Arena
  <2> QED
    BY <2>1, BaseIsPage, BootFacts, PhysmapFits DEF IInv
<1>2. N \in Nat \ {0}
  BY CountType
<1>3. PICK room \in Nat : room = cnt * (N + 1) /\ root + 3 + room <= ram
  <2>1. cnt * (N + 1) \in Nat
    BY <1>2
  <2>2. bootstrap_pa_reserved(boot) + 3 + cnt * (N + 1) <= ram
    BY <1>1, BootFacts DEF IInv, Arena
  <2> QED
    BY <1>1, <2>1, <2>2 DEF table_base
<1>4. PICK a \in Nat, b \in Indexes, c \in Indexes :
        a = locals.l1_i /\ b = locals.l2_i /\ c = locals.l3_i
  BY Current DEF IInv
<1>5. PICK u2 \in {0, 1}, u3 \in {0, 1} : u2 = L2Used(a) /\ u3 = L3Used(a, b)
  BY UsedType
<1>6. CASE call <= 3
  <2>1. ptr <= root + 1 + (u2 + u3)
    BY <1>1, <1>4, <1>5, <1>6 DEF IInv, Room
  <2> QED
    BY <1>1, <1>3, <1>5, <2>1
<1>7. CASE call > 3
  <2>1. ptr <= root + 3 + (a - (N - cnt)) * (N + 1) + b + (u2 + u3)
    BY <1>1, <1>4, <1>5, <1>7 DEF IInv, Room, PhysmapFirst
  <2>2. b \in 0 .. N - 1
    BY CountType
  <2>3. Digits(a, b, c) <= Digits(N, 0, 0)
    <3>1. Digits(a, b, c) = mapping.vm_base + locals.page_i
      BY <1>4, Position
    <3>2. /\ mapping.vm_base \in Nat /\ locals.page_i \in Nat /\ mapping.page_count \in Nat
          /\ locals.page_i <= mapping.page_count
          /\ mapping.vm_base + mapping.page_count <= N * (N * N)
      BY Current DEF IInv
    <3>3. Digits(N, 0, 0) = N * (N * N) /\ N * (N * N) \in Nat
      BY <1>2 DEF Digits
    <3> QED
      BY <3>1, <3>2, <3>3
  <2>4. a < N \/ (a = N /\ b <= 0)
    <3>1. 0 \in Indexes
      BY CountType
    <3> QED
      BY <1>2, <2>3, <3>1, DigitsOrder
  <2>5. CASE a < N
    <3>1. PICK d \in Nat : N - 1 = a + d
      <4>1. N - 1 - a \in Nat /\ N - 1 = a + (N - 1 - a)
        BY <1>2, <2>5
      <4> QED
        BY <4>1
    <3>2. (a - (N - cnt)) * (N + 1) + (d + 1) * (N + 1) = room
      <4>1. PICK n \in Nat : n = N + 1
        BY <1>2
      <4>2. a - (N - cnt) = cnt - (d + 1)
        BY <1>2, <3>1
      <4>3. (cnt - (d + 1)) * n + (d + 1) * n = cnt * n
        OBVIOUS
      <4> QED
        BY <1>3, <4>1, <4>2, <4>3
    <3>3. N + 1 <= (d + 1) * (N + 1)
      <4>1. 1 * (N + 1) <= (d + 1) * (N + 1)
        BY <1>2, ProductGrows
      <4> QED
        BY <1>2, <4>1
    <3>4. PICK x \in Int, y \in Int :
            x = (a - (N - cnt)) * (N + 1) /\ y = (d + 1) * (N + 1)
      BY <1>2
    <3>5. x + y = room /\ N + 1 <= y
      BY <3>2, <3>3, <3>4
    <3>6. ptr <= root + 3 + x + b + (u2 + u3)
      BY <2>1, <3>4
    <3>7. ptr <= root + 3 + room
      BY <1>2, <2>2, <3>5, <3>6
    <3> QED
      BY <1>1, <1>3, <3>7
  <2>6. CASE a = N /\ b <= 0
    <3>1. u2 = 0 /\ u3 = 0
      BY <1>2, <1>5, <2>6, CountType DEF L2Used, L3Used
    <3>2. a - (N - cnt) = cnt
      BY <1>2, <2>6
    <3>3. ptr <= root + 3 + room + b + 0
      BY <1>3, <2>1, <3>1, <3>2
    <3>4. b = 0
      BY <2>2, <2>6
    <3> QED
      BY <1>1, <1>3, <3>3, <3>4
  <2> QED
    BY <2>4, <2>5, <2>6
<1> QED
  BY <1>6, <1>7, Current DEF IInv

(* SwitchIsSafe: the code that runs when the tables are switched, its data  *)
(* and all of RAM are where the kernel expects them.                        *)
THEOREM TheSwitchIsSafe == Spec => []SwitchIsSafe
<1> SUFFICES ASSUME IInv, ttbr1 # BootstrapTable PROVE SwitchIsSafe
  <2>1. IInv => SwitchIsSafe
    BY DEF SwitchIsSafe
  <2> QED
    BY <2>1, InductiveInvariant, PTL
<1>1. PICK M : M = Mappings(boot)
  OBVIOUS
<1>2. /\ boot \in Boots /\ Len(M) = 5 /\ call = 5 /\ locals.page_i = M[5].page_count
  BY <1>1, MappingFacts DEF IInv, Arena, Phases, Mapped, mapping
<1>3. \A c \in 1 .. 5 : Done(c) = M[c].page_count
  BY <1>1, <1>2 DEF Done
<1>4. \A va \in VirtualPages : \A c \in 1 .. 5 : va - M[c].vm_base \in 0 .. M[c].page_count - 1 =>
        Walk(va) = Entry(M[c].phys_base + (va - M[c].vm_base), M[c].template)
  BY <1>1, <1>2, <1>3 DEF IInv, MapsWhatWasAsked, Asked
<1>5. /\ N \in Nat \ {0} /\ VirtualPages = 0 .. N * (N * N) - 1 /\ N * (N * N) \in Nat
  BY CountType DEF VirtualPages, N
<1>6. \A c \in 1 .. 5 : M[c].vm_base \in Nat /\ M[c].page_count \in Nat
                        /\ M[c].vm_base + M[c].page_count <= N * (N * N)
  BY <1>1, <1>2, MappingFacts
<1>7. /\ M[1].vm_base = 0 /\ M[1].phys_base = boot.kernel_base /\ M[1].page_count = boot.text
      /\ M[2].vm_base = boot.text /\ M[2].phys_base = boot.kernel_base + boot.text
      /\ M[2].page_count = boot.ro_data
      /\ M[3].vm_base = boot.text + boot.ro_data
      /\ M[3].phys_base = boot.kernel_base + (boot.text + boot.ro_data)
      /\ M[3].page_count = boot.rw_data
      /\ M[4].vm_base = physmap_vm_base(boot) /\ M[4].phys_base = 0
      /\ M[4].page_count = boot.ram_size /\ M[4].template = RW
  BY <1>1 DEF Mappings, Mapping, PhysmapPages
<1>8. /\ boot.kernel_base \in Nat /\ boot.text \in Nat /\ boot.ro_data \in Nat
      /\ boot.rw_data \in Nat /\ boot.ram_size \in Nat
      /\ KernelSize(boot) = boot.text + boot.ro_data + boot.rw_data
  BY <1>2, BootFacts DEF KernelSize
<1>9. PICK big \in Nat : big = N * (N * N) /\ VirtualPages = 0 .. big - 1
  BY <1>5
<1>10. \A c \in 1 .. 5 : M[c].vm_base + M[c].page_count <= big
  BY <1>6, <1>9
<1>11. \A p, t : Entry(p, t).frame = p
  BY DEF Entry
<1>12. ASSUME NEW i \in 0 .. KernelSize(boot) - 1
       PROVE  Walk(i).frame = boot.kernel_base + i
  <2>1. i \in VirtualPages
    BY <1>7, <1>8, <1>9, <1>10
  <2>2. \/ i - M[1].vm_base \in 0 .. M[1].page_count - 1
        \/ i - M[2].vm_base \in 0 .. M[2].page_count - 1
        \/ i - M[3].vm_base \in 0 .. M[3].page_count - 1
    BY <1>7, <1>8
  <2>3. /\ M[1].phys_base + (i - M[1].vm_base) = boot.kernel_base + i
        /\ M[2].phys_base + (i - M[2].vm_base) = boot.kernel_base + i
        /\ M[3].phys_base + (i - M[3].vm_base) = boot.kernel_base + i
    BY <1>7, <1>8
  <2> QED
    BY <1>4, <1>11, <2>1, <2>2, <2>3
<1>13. DOMAIN tables \subseteq 0 .. boot.ram_size - 1
  BY <1>8, TablesFitRAM, BaseIsPage DEF IInv, Arena
<1>14. ASSUME NEW p \in 0 .. boot.ram_size - 1
       PROVE  Walk(physmap_vm_base(boot) + p) = Entry(p, RW)
  <2>1. PICK first \in Nat : first = physmap_vm_base(boot)
    BY <1>2, PhysmapFits
  <2>2. first + p \in VirtualPages
    <3>1. M[4].vm_base + M[4].page_count <= big
      BY <1>10
    <3>2. first + boot.ram_size <= big
      BY <1>7, <2>1, <3>1
    <3>3. p \in Nat /\ p < boot.ram_size /\ first + p \in Nat
      BY <1>8
    <3>4. first + p < first + boot.ram_size
      BY <1>8, <3>3
    <3> QED
      BY <1>8, <1>9, <3>2, <3>3, <3>4
  <2>3. (first + p) - M[4].vm_base = p /\ p \in 0 .. M[4].page_count - 1 /\ M[4].phys_base + p = p
    <3>1. M[4].vm_base = first /\ M[4].page_count = boot.ram_size /\ M[4].phys_base = 0
      BY <1>7, <2>1
    <3> QED
      BY <1>8, <3>1
  <2>4. Walk(first + p) = Entry(M[4].phys_base + ((first + p) - M[4].vm_base), M[4].template)
    <3>1. PICK va \in VirtualPages : va = first + p
      BY <2>2
    <3>2. va - M[4].vm_base \in 0 .. M[4].page_count - 1 /\ 4 \in 1 .. 5
      BY <2>3, <3>1
    <3> QED
      BY <1>4, <3>1, <3>2, Zenon
  <2>5. Walk(first + p) = Entry(p, RW)
    BY <1>7, <2>3, <2>4
  <2> QED
    BY <2>1, <2>5
<1> QED
  BY <1>12, <1>13, <1>14 DEF SwitchIsSafe

(* HandOverCoversTables: the memory that the page-frame allocator is given  *)
(* begins behind the last table, in RAM.                                    *)
THEOREM TablesAreNeverHandedOut == Spec => []HandOverCoversTables
<1>1. ASSUME IInv PROVE HandOverCoversTables
  <2>1. \A p \in DOMAIN tables : p < allocation_ptr
    BY <1>1, BaseIsPage DEF IInv, Arena
  <2> QED
    BY <1>1, <2>1, TablesFitRAM DEF HandOverCoversTables, IInv, Phases, table_base
<1> QED
  BY <1>1, InductiveInvariant, PTL

(* The two assertions of the loop of vm_init_map_contiguous never fire: no  *)
(* entry is written twice, and the index of the root does not run over.     *)
THEOREM AssertionsHold == Spec => []WritesAreFresh
<1> SUFFICES ASSUME IInv, ~ Mapped,
                    locals.l2 # PHYS_ADDR_INVALID, locals.l3 # PHYS_ADDR_INVALID
             PROVE  EntryIsFree /\ ~ RollsOver
  <2>1. IInv => WritesAreFresh
    BY DEF WritesAreFresh
  <2> QED
    BY <2>1, InductiveInvariant, PTL
<1>1. PICK a \in Indexes, b \in Indexes, c \in Indexes :
        a = locals.l1_i /\ b = locals.l2_i /\ c = locals.l3_i
  BY Current DEF IInv
<1>2. PICK p \in DOMAIN tables, t \in DOMAIN tables :
        /\ p = locals.l2 /\ t = locals.l3
        /\ tables[table_base][a] = TableEntry(p) /\ tables[p][b] = TableEntry(t)
  BY <1>1 DEF IInv, Loop, RefersTo
<1>3. PICK cur : cur = mapping.vm_base + locals.page_i
  OBVIOUS
<1>4. cur \in VirtualPages /\ cur = Digits(a, b, c)
  BY <1>1, <1>3, Current, Position DEF IInv
<1>5. EntryIsFree
  <2>1. Walk(cur) = PTE_INVALID
    BY <1>3, <1>4, AskedNext DEF IInv, MapsWhatWasAsked
  <2>2. Path(a, b, c) = PTE_INVALID
    BY <1>4, <2>1, WalkIsPath DEF IInv
  <2>3. \A q \in DOMAIN tables : TableEntry(q) # PTE_INVALID /\ TableEntry(q).frame = q
    BY BaseIsPage, EntriesAreValid DEF IInv, TableEntry, Entry
  <2>4. Path(a, b, c) = tables[t][c]
    BY <1>2, <2>3 DEF Path, EntryAt
  <2> QED
    BY <1>1, <1>2, <2>2, <2>4 DEF EntryIsFree
<1>6. ~ RollsOver
  <2> SUFFICES ASSUME locals.page_i + 1 < mapping.page_count
               PROVE  ~ (Advance(locals).l1_i >= PAGE_ENTRY_COUNT)
    BY DEF RollsOver
  <2>1. PICK w : w = Advance(locals)
    OBVIOUS
  <2>2. w \in LocalsType /\ Digits(w.l1_i, w.l2_i, w.l3_i) = cur + 1
    BY <1>1, <1>4, <2>1, Current, AdvanceFacts DEF IInv
  <2>3. w.l1_i \in Nat /\ w.l2_i \in Indexes /\ w.l3_i \in Indexes
    BY <2>2 DEF LocalsType
  <2>4. cur + 1 \in VirtualPages
    <3>1. /\ mapping.vm_base \in Nat /\ locals.page_i \in Nat /\ mapping.page_count \in Nat
          /\ mapping.vm_base + mapping.page_count <= N * (N * N)
      BY Current DEF IInv
    <3>2. VirtualPages = 0 .. N * (N * N) - 1 /\ N * (N * N) \in Nat
      BY CountType DEF VirtualPages, N
    <3> QED
      BY <1>3, <3>1, <3>2
  <2>5. w.l1_i \in Indexes
    BY <2>2, <2>3, <2>4, VirtualDigits
  <2> QED
    BY <2>1, <2>5, CountType DEF N
<1> QED
  BY <1>5, <1>6

----------------------------------------------------------------------------
(* The address space                                                        *)

(* While nothing more was asked for, nothing more translates.               *)
LEMMA SameSpace ==
  ASSUME MapsWhatWasAsked, MapsWhatWasAsked', UNCHANGED boot,
         \A c \in 1 .. Len(Mappings(boot)) : Done(c)' = Done(c)
  PROVE  \A va \in VirtualPages : Walk(va)' = Walk(va)
<1>1. PICK M : M = Mappings(boot)
  OBVIOUS
<1>2. Mappings(boot)' = M
  BY <1>1
<1> SUFFICES ASSUME NEW va \in VirtualPages PROVE Walk(va)' = Walk(va)
  OBVIOUS
<1>3. ASSUME NEW c \in 1 .. Len(M)
      PROVE  Asked(va, c)' <=> Asked(va, c)
  <2>1. Done(c)' = Done(c)
    BY <1>1, <1>3
  <2> QED
    BY <1>1, <1>2, <2>1 DEF Asked
<1>4. /\ \A c \in 1 .. Len(M) : Asked(va, c) =>
           Walk(va) = Entry(M[c].phys_base + (va - M[c].vm_base), M[c].template)
      /\ (\A c \in 1 .. Len(M) : ~ Asked(va, c)) => Walk(va) = PTE_INVALID
  BY <1>1 DEF MapsWhatWasAsked
<1>5. /\ \A c \in 1 .. Len(M) : Asked(va, c)' =>
           Walk(va)' = Entry(M[c].phys_base + (va - M[c].vm_base), M[c].template)
      /\ (\A c \in 1 .. Len(M) : ~ Asked(va, c)') => Walk(va)' = PTE_INVALID
  BY <1>2 DEF MapsWhatWasAsked
<1> QED
  BY <1>3, <1>4, <1>5

(* A written entry maps one page of the space that was not mapped, to a     *)
(* frame of RAM or of the devices.                                          *)
LEMMA WriteMaps ==
  ASSUME IInv, IInv', WriteEntry
  PROVE  Space!Map
<1>1. PICK M : M = Mappings(boot)
  OBVIOUS
<1>2. PICK cur : cur = mapping.vm_base + locals.page_i
  OBVIOUS
<1>3. PICK e : e = Entry(mapping.phys_base + locals.page_i, mapping.template)
  OBVIOUS
<1>4. /\ ~ Mapped /\ ttbr1' = ttbr1 /\ boot' = boot /\ call \in 1 .. 5 /\ Len(M) = 5
      /\ cur \in VirtualPages /\ mapping = M[call] /\ Mappings(boot)' = M
  BY <1>1, <1>2, Current, MappingFacts DEF IInv, Arena, WriteEntry, mapping
<1>5. /\ mapping.vm_base \in Nat /\ mapping.phys_base \in Nat /\ mapping.page_count \in Nat
      /\ mapping.template \in Templates /\ locals.page_i \in Nat
      /\ locals.page_i < mapping.page_count
      /\ mapping.phys_base + mapping.page_count <= MMIO_END
  <2>1. locals.page_i <= mapping.page_count /\ locals.page_i # mapping.page_count
    BY <1>4, Current DEF IInv, Mapped
  <2> QED
    BY <2>1, Current DEF IInv
<1>6. e \in [frame : PhysicalPages, template : Templates]
  <2>1. MMIO_END \in Nat
    BY BootAssumption
  <2>2. mapping.phys_base + locals.page_i \in 0 .. MMIO_END - 1
    BY <1>5, <2>1
  <2> QED
    BY <1>3, <1>5, <2>2 DEF PhysicalPages, Entry
<1>7. \A k \in 1 .. 5 : ~ Asked(cur, k)
  BY <1>1, <1>2, <1>4, AskedNext
<1>8. \A va \in VirtualPages : \A k \in 1 .. 5 :
        Asked(va, k)' <=> Asked(va, k) \/ (k = call /\ va = cur)
  BY <1>2, AskedGrows
<1>9. \A va \in VirtualPages :
        /\ \A k \in 1 .. 5 : Asked(va, k) =>
             Walk(va) = Entry(M[k].phys_base + (va - M[k].vm_base), M[k].template)
        /\ (\A k \in 1 .. 5 : ~ Asked(va, k)) => Walk(va) = PTE_INVALID
  BY <1>1, <1>4 DEF IInv, MapsWhatWasAsked
<1>10. \A va \in VirtualPages :
         /\ \A k \in 1 .. 5 : Asked(va, k)' =>
              Walk(va)' = Entry(M[k].phys_base + (va - M[k].vm_base), M[k].template)
         /\ (\A k \in 1 .. 5 : ~ Asked(va, k)') => Walk(va)' = PTE_INVALID
  BY <1>4 DEF IInv, MapsWhatWasAsked
<1>11. Walk(cur) = PTE_INVALID
  BY <1>4, <1>7, <1>9
<1>12. Walk(cur)' = e
  <2>1. PICK k \in 1 .. 5 : k = call
    BY <1>4
  <2>2. Asked(cur, k)'
    BY <1>4, <1>8, <2>1
  <2>3. cur - M[k].vm_base = locals.page_i /\ mapping = M[k]
    BY <1>2, <1>4, <1>5, <2>1
  <2> QED
    BY <1>3, <1>4, <1>10, <2>2, <2>3
<1>13. ASSUME NEW va \in VirtualPages, va # cur
       PROVE  Walk(va)' = Walk(va)
  <2>1. \A k \in 1 .. 5 : Asked(va, k)' <=> Asked(va, k)
    BY <1>8, <1>13
  <2> QED
    BY <1>9, <1>10, <2>1
<1> DEFINE old == [ va \in VirtualPages |-> Walk(va) ]
<1>14. PICK before, after : before = old /\ after = old'
  OBVIOUS
<1>15. /\ before = [ va \in VirtualPages |-> before[va] ]
       /\ after = [ va \in VirtualPages |-> after[va] ]
       /\ before[cur] = PTE_INVALID /\ after[cur] = e
       /\ \A va \in VirtualPages : va # cur => after[va] = before[va]
  <2>1. \A va \in VirtualPages : before[va] = Walk(va) /\ after[va] = Walk(va)'
    BY <1>14
  <2>2. /\ before = [ va \in VirtualPages |-> before[va] ]
        /\ after = [ va \in VirtualPages |-> after[va] ]
    BY <1>14
  <2> QED
    BY <1>4, <1>11, <1>12, <1>13, <2>1, <2>2
<1>16. after = [before EXCEPT ![cur] = after[cur]]
  BY <1>4, <1>15
<1>17. ttbr1 = BootstrapTable
  BY <1>4 DEF IInv, Phases
<1>18. old[cur] = PTE_INVALID /\ old'[cur] \in [frame : PhysicalPages, template : Templates]
       /\ old' = [old EXCEPT ![cur] = old'[cur]]
  BY <1>6, <1>14, <1>15, <1>16, Zenon
<1> QED
  BY <1>4, <1>17, <1>18 DEF Space!Map

(* A step that maps nothing leaves the space alone.                         *)
LEMMA SpaceKept ==
  ASSUME IInv, IInv', ~ WriteEntry, [Next]_vars
  PROVE  /\ [ va \in VirtualPages |-> Walk(va) ]' = [ va \in VirtualPages |-> Walk(va) ]
         /\ ~ vm_bootstrap_switch_to_pmap_kernel => ttbr1' = ttbr1
<1>1. boot' = boot
  BY DEF Next, vars, LookupL2, LookupL3, WriteEntry, NextMapping,
         vm_bootstrap_switch_to_pmap_kernel, pmap_pfa_init
<1>2. ~ vm_bootstrap_switch_to_pmap_kernel => ttbr1' = ttbr1
  BY DEF Next, vars, LookupL2, LookupL3, WriteEntry, NextMapping, pmap_pfa_init
<1>3. ASSUME NEW c \in 1 .. Len(Mappings(boot))
      PROVE  Done(c)' = Done(c)
  <2>1. CASE LookupL2 \/ LookupL3
    <3>1. locals'.page_i = locals.page_i
      BY <2>1, Current DEF IInv, LookupL2, LookupL3, LocalsType
    <3> QED
      BY <2>1, <3>1 DEF Done, LookupL2, LookupL3
  <2>2. CASE NextMapping
    <3>1. PICK M : M = Mappings(boot)
      OBVIOUS
    <3>2. PICK k \in 1 .. 5 : k = call
      BY Current DEF IInv
    <3>3. /\ boot \in Boots /\ Len(M) = 5 /\ k + 1 \in 1 .. 5 /\ c \in 1 .. 5
          /\ locals.page_i = M[k].page_count /\ call' = k + 1 /\ locals' = Start(M[k + 1])
          /\ Mappings(boot)' = M
      <4>1. boot \in Boots /\ Len(M) = 5 /\ Mappings(boot)' = M
        BY <1>1, <3>1, MappingFacts DEF IInv, Arena
      <4>2. /\ locals.page_i = M[k].page_count /\ call' = k + 1 /\ locals' = Start(M[k + 1])
            /\ k < Len(M)
        BY <2>2, <3>1, <3>2 DEF mapping, Mapped, NextMapping
      <4>3. k + 1 \in 1 .. 5 /\ c \in 1 .. 5
        BY <3>1, <4>1, <4>2
      <4> QED
        BY <4>1, <4>2, <4>3
    <3>4. locals'.page_i = 0
      BY <3>3 DEF Start
    <3>5. Done(c) = IF c < k THEN M[c].page_count ELSE IF c = k THEN M[k].page_count ELSE 0
      BY <3>1, <3>2, <3>3 DEF Done
    <3>6. Done(c)' = IF c < k + 1 THEN M[c].page_count ELSE IF c = k + 1 THEN 0 ELSE 0
      BY <3>3, <3>4 DEF Done
    <3> QED
      BY <3>2, <3>3, <3>5, <3>6
  <2>3. CASE vm_bootstrap_switch_to_pmap_kernel \/ pmap_pfa_init \/ UNCHANGED vars
    BY <2>3 DEF Done, vars, vm_bootstrap_switch_to_pmap_kernel, pmap_pfa_init
  <2> QED
    BY <2>1, <2>2, <2>3 DEF Next
<1>4. \A va \in VirtualPages : Walk(va)' = Walk(va)
  BY <1>1, <1>3, SameSpace DEF IInv
<1>5. [ va \in VirtualPages |-> Walk(va) ]' = [ va \in VirtualPages |-> Walk(va) ]
  BY <1>4
<1> QED
  BY <1>2, <1>5

(* ImplementsAddressSpace: to the kernel pmap_vm_init fills an address      *)
(* space page by page, never disturbs a page it has mapped, and then puts   *)
(* the space to use; tables that appear on demand cannot be seen.           *)
THEOREM TablesAreAnAddressSpace == Spec => ImplementsAddressSpace
<1> DEFINE Seen == <<[ va \in VirtualPages |-> Walk(va) ], ttbr1 # BootstrapTable>>
<1>1. Init => Space!Init
  <2> SUFFICES ASSUME Init PROVE Space!Init
    OBVIOUS
  <2>1. IInv /\ boot \in Boots /\ call = 1 /\ locals = Start(mapping) /\ ttbr1 = BootstrapTable
    BY InitInv DEF Init
  <2>2. Len(Mappings(boot)) = 5
    BY <2>1, MappingFacts
  <2>3. \A c \in 1 .. 5 : Done(c) = 0
    BY <2>1 DEF Done, Start
  <2>4. \A va \in VirtualPages : Walk(va) = PTE_INVALID
    BY <2>1, <2>2, <2>3 DEF IInv, MapsWhatWasAsked, Asked
  <2> QED
    BY <2>1, <2>4 DEF Space!Init
<1>2. ASSUME IInv, IInv', [Next]_vars
      PROVE  [Space!Next]_Seen
  <2>1. CASE WriteEntry
    BY <1>2, <2>1, WriteMaps DEF Space!Next
  <2>2. CASE ~ WriteEntry
    <3>1. /\ [ va \in VirtualPages |-> Walk(va) ]' = [ va \in VirtualPages |-> Walk(va) ]
          /\ ~ vm_bootstrap_switch_to_pmap_kernel => ttbr1' = ttbr1
      BY <1>2, <2>2, SpaceKept
    <3>2. CASE vm_bootstrap_switch_to_pmap_kernel
      <4>1. ttbr1 = BootstrapTable /\ ttbr1' # BootstrapTable
        BY <1>2, <3>2, BaseIsPage, InvalidAssumption DEF IInv, vm_bootstrap_switch_to_pmap_kernel
      <4> QED
        BY <3>1, <4>1 DEF Space!Next, Space!Activate
    <3>3. CASE ~ vm_bootstrap_switch_to_pmap_kernel
      BY <3>1, <3>3
    <3> QED
      BY <3>2, <3>3
  <2> QED
    BY <2>1, <2>2
<1> QED
  BY <1>1, <1>2, InductiveInvariant, PTL DEF Spec, ImplementsAddressSpace, Space!Spec

=============================================================================
