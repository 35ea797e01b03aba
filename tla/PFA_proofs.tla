----------------------------- MODULE PFA_proofs -----------------------------
(* Theorems about PFA for every number of cores, levels, pages and sizes.   *)
(* First facts about the operators of PFA: least and greatest levels,       *)
(* alignment, buddies and roots, the lists, the sizes a search starts at.   *)
(* Then mutual exclusion, an inductive invariant by itself. Then IInv: the  *)
(* state of each call, the store, and the partition of managed memory into  *)
(* reserved, free, held and moving pages. One lemma per way in which pages  *)
(* change hands says that it keeps the partition; each action is one of     *)
(* those. The theorems on the store are for RAM that starts at address 0.   *)
EXTENDS PFA, SequenceTheorems, WellFoundedInduction, TLAPS

----------------------------------------------------------------------------
(* Least and greatest elements                                              *)

(* The pair of a number and a larger one is in the relation.               *)
LEMMA LessThanPair ==
  ASSUME NEW k \in Nat, NEW m \in Nat, k < m
  PROVE  <<k, m>> \in OpToRel(<, Nat)
<1>1. OpToRel(<, Nat) = { ss \in Nat \X Nat : ss[1] < ss[2] }
  BY Zenon DEF OpToRel
<1>2. <<k, m>> \in { ss \in Nat \X Nat : ss[1] < ss[2] }
  OBVIOUS
<1> QED
  BY <1>1, <1>2, Zenon

(* A set of natural numbers that is not empty has a least element.          *)
LEMMA LeastExists ==
  ASSUME NEW S \in SUBSET Nat, S # {}
  PROVE  \E m \in S : \A k \in S : m <= k
<1> DEFINE R == OpToRel(<, Nat)
<1>1. IsWellFoundedOn(R, Nat)
  BY NatLessThanWellFounded, Zenon
<1>2. PICK m \in S : \A k \in S : ~ (<<k, m>> \in R)
  <2> HIDE DEF R
  <2> QED
    BY <1>1, WFMin, Zenon
<1>3. \A k \in S : ~ (k < m)
  BY <1>2, LessThanPair, Zenon
<1> QED
  BY <1>3

(* Min of such a set is one of its members, and no other is smaller.        *)
LEMMA MinIsLeast ==
  ASSUME NEW S \in SUBSET Nat, S # {}
  PROVE  Min(S) \in S /\ \A k \in S : Min(S) <= k
<1> QED
  BY LeastExists, Zenon DEF Min

(* Levels are natural numbers from 0 to TOP, and TOP is one of them.        *)
LEMMA LevelFacts ==
  /\ TOP \in Levels
  /\ Levels \subseteq Nat
  /\ \A l \in Levels : l <= TOP /\ (l # TOP => l < TOP /\ l + 1 \in Levels)
  /\ \A l \in Nat : l <= TOP => l \in Levels
  BY ConstantsAssumption DEF Levels, TOP

(* Max of a set of levels is one of them, and no other is greater.          *)
LEMMA MaxIsGreatest ==
  ASSUME NEW S \in SUBSET Levels, S # {}
  PROVE  Max(S) \in S /\ \A k \in S : Max(S) >= k
<1> DEFINE T == { TOP - l : l \in S }
<1>0. TOP \in Int /\ \A l \in Levels : l \in Nat /\ TOP - l \in Nat
  BY LevelFacts
<1>1. T \in SUBSET Nat /\ T # {}
  BY <1>0
<1>2. PICK m \in T : \A k \in T : m <= k
  BY <1>1, LeastExists
<1>3. PICK x \in S : m = TOP - x
  BY <1>2
<1>4. ASSUME NEW k \in S
      PROVE  x >= k
  <2>1. m <= TOP - k
    BY <1>2
  <2>2. x \in Nat /\ k \in Nat /\ TOP \in Int
    BY <1>0
  <2> QED
    BY <1>3, <2>1, <2>2
<1> QED
  BY <1>4, Zenon DEF Max

----------------------------------------------------------------------------
(* Division                                                                 *)

(* Quotient and remainder of a division.                                    *)
LEMMA Division ==
  ASSUME NEW p \in Nat, NEW n \in Nat \ {0}
  PROVE  /\ p \div n \in Nat
         /\ p % n \in 0 .. n - 1
         /\ p = n * (p \div n) + (p % n)
  OBVIOUS

(* There is only one quotient and one remainder.                            *)
LEMMA DivisionUnique ==
  ASSUME NEW s \in Nat, NEW n \in Nat \ {0}, NEW k \in 0 .. n - 1
  PROVE  (s * n + k) \div n = s /\ (s * n + k) % n = k
  OBVIOUS

(* A number without remainder is the quotient times the divisor.            *)
LEMMA Multiple ==
  ASSUME NEW p \in Nat, NEW n \in Nat \ {0}, p % n = 0
  PROVE  p = (p \div n) * n /\ p \div n \in Nat
  OBVIOUS

(* A multiple leaves no remainder.                                          *)
LEMMA MultipleMod ==
  ASSUME NEW s \in Nat, NEW n \in Nat \ {0}
  PROVE  (s * n) % n = 0 /\ (s * n) \div n = s
  OBVIOUS

(* A multiple of a multiple is a multiple.                                  *)
LEMMA MultipleTransitive ==
  ASSUME NEW p \in Nat, NEW n \in Nat \ {0}, NEW k \in Nat \ {0}, p % n = 0, n % k = 0
  PROVE  p % k = 0
<1>1. PICK a \in Nat, b \in Nat : p = a * n /\ n = b * k
  BY Multiple
<1>2. p = (a * b) * k /\ a * b \in Nat
  BY <1>1
<1> QED
  BY <1>2, MultipleMod

----------------------------------------------------------------------------
(* Blocks, buddies and roots                                                *)

Aligned(page, level) == page % buddy_level_page_count(level) = 0

(* A block has at least one page.                                           *)
LEMMA PageCountType ==
  ASSUME NEW l \in Levels
  PROVE  /\ buddy_level_page_count(l) \in Nat \ {0}
         /\ buddy_level_page_count(l + 1) = 2 * buddy_level_page_count(l)
  BY PageCountAssumption

(* Blocks grow with their level.                                            *)
LEMMA PageCountMonotonic ==
  ASSUME NEW l \in Levels, NEW k \in Levels, k <= l
  PROVE  buddy_level_page_count(k) <= buddy_level_page_count(l)
<1> DEFINE n == buddy_level_page_count(k)
           m == buddy_level_page_count(l)
<1>1. n \in Nat \ {0} /\ m \in Nat \ {0}
  BY PageCountType
<1>2. k \in 0 .. l
  BY LevelFacts
<1>3. m % n = 0
  BY <1>2, PageCountAssumption
<1>4. m = (m \div n) * n /\ m \div n \in Nat
  <2> HIDE DEF n, m
  <2> QED
    BY <1>1, <1>3, Multiple
<1> HIDE DEF n, m
<1>5. m \div n # 0
  BY <1>1, <1>4
<1>6. n <= m
  BY <1>1, <1>4, <1>5
<1> QED
  BY <1>6 DEF n, m

(* Who is aligned to a block is aligned to every smaller one.               *)
LEMMA AlignedBelow ==
  ASSUME NEW p \in Nat, NEW l \in Levels, NEW k \in Levels, k <= l, Aligned(p, l)
  PROVE  Aligned(p, k)
<1> DEFINE n == buddy_level_page_count(k)
           m == buddy_level_page_count(l)
<1>1. n \in Nat \ {0} /\ m \in Nat \ {0}
  BY PageCountType
<1>2. m % n = 0 /\ p % m = 0
  BY LevelFacts, PageCountAssumption DEF Aligned
<1> HIDE DEF n, m
<1>3. p % n = 0
  BY <1>1, <1>2, MultipleTransitive
<1> QED
  BY <1>3 DEF n, Aligned

(* A block and its buddy are the two halves of the block of their root.     *)
LEMMA BuddyHalves ==
  ASSUME NEW p \in Nat, NEW n \in Nat \ {0}, p % n = 0
  PROVE  LET buddy == IF (p \div n) % 2 = 0 THEN p + n ELSE p - n
             root == p - (p % (2 * n))
         IN  /\ buddy \in Nat /\ buddy % n = 0
             /\ root \in Nat /\ root % (2 * n) = 0
             /\ \/ root = p /\ buddy = p + n
                \/ root = buddy /\ p = buddy + n
<1>1. PICK q \in Nat : p = q * n /\ p \div n = q
  BY Multiple
<1>2. PICK m \in Nat \ {0} : m = 2 * n
  OBVIOUS
<1>3. CASE q % 2 = 0
  <2>1. PICK r \in Nat : q = r * 2
    BY <1>3, Multiple
  <2>2. p = r * m
    BY <1>1, <1>2, <2>1
  <2>3. p % m = 0
    BY <2>2, MultipleMod
  <2>4. p + n = (q + 1) * n /\ q + 1 \in Nat
    BY <1>1
  <2>5. (p + n) % n = 0
    BY <2>4, MultipleMod
  <2> QED
    BY <1>1, <1>2, <1>3, <2>3, <2>5
<1>4. CASE q % 2 # 0
  <2>1. PICK r \in Nat : q = r * 2 + 1
    BY <1>4
  <2>2. p = r * m + n /\ n \in 0 .. m - 1
    BY <1>1, <1>2, <2>1
  <2>3. p % m = n
    <3>1. (r * m + n) % m = n
      BY <2>2, SMT
    <3> QED
      BY <2>2, <3>1, Zenon
  <2>4. p - n = r * m /\ p - n \in Nat
    BY <1>2, <2>2
  <2>5. (p - n) % m = 0
    BY <2>4, MultipleMod
  <2>6. p - n = (r * 2) * n /\ r * 2 \in Nat
    BY <1>2, <2>4
  <2>7. (p - n) % n = 0
    BY <2>6, MultipleMod
  <2> QED
    BY <1>1, <1>2, <1>4, <2>2, <2>3, <2>4, <2>5, <2>7
<1> QED
  BY <1>3, <1>4

(* The same for the code's functions, at a level that is not the top.       *)
LEMMA BuddyAndRoot ==
  ASSUME NEW p \in Nat, NEW l \in Levels, l # TOP, Aligned(p, l)
  PROVE  LET buddy == get_buddy_page_id_for_page(p, l)
             root  == get_root_buddy_page_id_for_page(p, l)
         IN  /\ buddy \in Nat /\ Aligned(buddy, l)
             /\ root \in Nat /\ Aligned(root, l + 1)
             /\ Block(root, l + 1) = Block(p, l) \cup Block(buddy, l)
             /\ Block(p, l) \cap Block(buddy, l) = {}
<1> DEFINE n == buddy_level_page_count(l)
           buddy == get_buddy_page_id_for_page(p, l)
           root == get_root_buddy_page_id_for_page(p, l)
<1>1. n \in Nat \ {0} /\ buddy_level_page_count(l + 1) = 2 * n
  BY PageCountType
<1>2. /\ p % n = 0
      /\ buddy = IF (p \div n) % 2 = 0 THEN p + n ELSE p - n
      /\ root = p - (p % (2 * n))
  BY <1>1 DEF Aligned, get_buddy_page_id_for_page, get_root_buddy_page_id_for_page
<1>3. /\ Aligned(buddy, l) <=> buddy % n = 0
      /\ Aligned(root, l + 1) <=> root % (2 * n) = 0
      /\ Block(p, l) = p .. p + n - 1
      /\ Block(buddy, l) = buddy .. buddy + n - 1
      /\ Block(root, l + 1) = root .. root + 2 * n - 1
  BY <1>1 DEF Aligned, Block, Pages
<1> HIDE DEF n, buddy, root
<1>4. /\ buddy \in Nat /\ buddy % n = 0
      /\ root \in Nat /\ root % (2 * n) = 0
      /\ \/ root = p /\ buddy = p + n
         \/ root = buddy /\ p = buddy + n
  BY <1>1, <1>2, BuddyHalves
<1>5. /\ root .. root + 2 * n - 1 = (p .. p + n - 1) \cup (buddy .. buddy + n - 1)
      /\ (p .. p + n - 1) \cap (buddy .. buddy + n - 1) = {}
  BY <1>1, <1>4
<1> QED
  BY <1>3, <1>4, <1>5 DEF buddy, root

(* Roots of different blocks of a level have different slots.               *)
LEMMA SlotsDiffer ==
  ASSUME page_base = 0, NEW l \in Levels, NEW p \in Nat, NEW q \in Nat,
         Aligned(p, l), Aligned(q, l),
         buddy_bitmap_slot(p, l) = buddy_bitmap_slot(q, l)
  PROVE  p = q
<1> DEFINE n == buddy_level_page_count(l)
<1>1. n \in Nat \ {0} /\ p % n = 0 /\ q % n = 0 /\ p \div n = q \div n
  BY PageCountType DEF Aligned, buddy_bitmap_slot
<1> HIDE DEF n
<1>2. p = (p \div n) * n /\ q = (q \div n) * n
  BY <1>1, Multiple
<1> QED
  BY <1>1, <1>2

(* A block contains its root.                                               *)
LEMMA PageInItsBlock ==
  ASSUME NEW l \in Levels, NEW b \in Int
  PROVE  b \in Block(b, l)
  BY PageCountType DEF Block, Pages

(* A block's buddy follows it exactly if the block is the lower half of the *)
(* block one level up.                                                      *)
LEMMA LowerHalf ==
  ASSUME NEW p \in Nat, NEW l \in Levels, Aligned(p, l)
  PROVE  LET n == buddy_level_page_count(l)
         IN  /\ Aligned(p, l + 1) => get_buddy_page_id_for_page(p, l) = p + n
             /\ ~ Aligned(p, l + 1) => get_buddy_page_id_for_page(p, l) = p - n /\ n <= p
<1> DEFINE n == buddy_level_page_count(l)
<1>1. n \in Nat \ {0} /\ buddy_level_page_count(l + 1) = 2 * n /\ p % n = 0
  BY PageCountType DEF Aligned
<1>2. PICK q \in Nat : p = q * n /\ p \div n = q
  <2> HIDE DEF n
  <2> QED
    BY <1>1, Multiple
<1>3. /\ get_buddy_page_id_for_page(p, l) = IF q % 2 = 0 THEN p + n ELSE p - n
      /\ Aligned(p, l + 1) <=> p % (2 * n) = 0
  BY <1>1, <1>2 DEF get_buddy_page_id_for_page, Aligned
<1> HIDE DEF n
<1>4. PICK m \in Nat \ {0} : m = 2 * n
  BY <1>1
<1>5. CASE q % 2 = 0
  <2>1. PICK r \in Nat : q = r * 2
    BY <1>5, Multiple
  <2>2. p = r * m
    BY <1>1, <1>2, <1>4, <2>1
  <2>3. p % m = 0
    BY <2>2, MultipleMod
  <2> QED
    BY <1>3, <1>4, <1>5, <2>3 DEF n
<1>6. CASE q % 2 # 0
  <2>1. PICK r \in Nat : q = r * 2 + 1
    BY <1>6
  <2>2. p = r * m + n /\ n \in 0 .. m - 1
    BY <1>1, <1>2, <1>4, <2>1
  <2>3. p % m = n
    BY <2>2, DivisionUnique
  <2>4. n <= p
    <3>1. r * m \in Nat
      BY <1>4
    <3> QED
      BY <1>1, <2>2, <3>1
  <2> QED
    BY <1>1, <1>3, <1>4, <1>6, <2>3, <2>4 DEF n
<1> QED
  BY <1>5, <1>6

(* The buddy of a block's buddy is the block, and the two differ.           *)
LEMMA BuddyTwice ==
  ASSUME NEW p \in Nat, NEW l \in Levels, Aligned(p, l)
  PROVE  LET buddy == get_buddy_page_id_for_page(p, l)
         IN  /\ buddy \in Nat /\ Aligned(buddy, l) /\ buddy # p
             /\ get_buddy_page_id_for_page(buddy, l) = p
<1> DEFINE n == buddy_level_page_count(l)
           buddy == get_buddy_page_id_for_page(p, l)
<1>1. n \in Nat \ {0} /\ p % n = 0
  BY PageCountType DEF Aligned
<1>2. PICK q \in Nat : p = q * n /\ p \div n = q
  <2> HIDE DEF n
  <2> QED
    BY <1>1, Multiple
<1>3. buddy = IF q % 2 = 0 THEN p + n ELSE p - n
  BY <1>2 DEF get_buddy_page_id_for_page
<1>4. \A x : get_buddy_page_id_for_page(x, l) = IF (x \div n) % 2 = 0 THEN x + n ELSE x - n
  BY DEF get_buddy_page_id_for_page
<1>5. \A x : Aligned(x, l) <=> x % n = 0
  BY DEF Aligned
<1> HIDE DEF n, buddy
<1>6. PICK s \in Nat : s = (IF q % 2 = 0 THEN q + 1 ELSE q - 1) /\ (s % 2 = 0 <=> q % 2 # 0)
  BY <1>2
<1>7. buddy = s * n
  <2>1. s = q + 1 => s * n = q * n + n
    BY <1>1, <1>2
  <2>2. s = q - 1 => s * n = q * n - n
    BY <1>1, <1>2
  <2> QED
    BY <1>2, <1>3, <1>6, <2>1, <2>2
<1>8. buddy % n = 0 /\ buddy \div n = s /\ buddy \in Nat
  <2>1. (s * n) % n = 0 /\ (s * n) \div n = s
    BY <1>1, <1>6, MultipleMod
  <2>2. s * n \in Nat
    BY <1>1, <1>6
  <2> QED
    BY <1>7, <2>1, <2>2
<1>9. get_buddy_page_id_for_page(buddy, l) = p
  BY <1>1, <1>2, <1>3, <1>4, <1>6, <1>8
<1> QED
  BY <1>1, <1>3, <1>5, <1>8, <1>9 DEF buddy

(* Two blocks that share a page are nested: the smaller lies in the larger. *)
LEMMA NestedBlocks ==
  ASSUME NEW b \in Nat, NEW d \in Nat, NEW l \in Levels, NEW k \in Levels, l <= k,
         Aligned(b, l), Aligned(d, k),
         NEW p \in Block(b, l), p \in Block(d, k)
  PROVE  Block(b, l) \subseteq Block(d, k)
<1> DEFINE n == buddy_level_page_count(l)
           m == buddy_level_page_count(k)
<1>1. n \in Nat \ {0} /\ m \in Nat \ {0} /\ b % n = 0 /\ d % n = 0
  BY PageCountType, AlignedBelow DEF Aligned
<1>2. m % n = 0
  BY LevelFacts, PageCountAssumption
<1>3. Block(b, l) = b .. b + n - 1 /\ Block(d, k) = d .. d + m - 1
  BY DEF Block, Pages
<1> HIDE DEF n, m
<1>4. PICK x \in Nat, y \in Nat, t \in Nat : b = x * n /\ d = y * n /\ m = t * n
  <2>1. PICK x \in Nat : b = x * n
    BY <1>1, Multiple
  <2>2. PICK y \in Nat : d = y * n
    BY <1>1, Multiple
  <2>3. PICK t \in Nat : m = t * n
    BY <1>1, <1>2, Multiple
  <2> QED
    BY <2>1, <2>2, <2>3
<1>5. p \in Int /\ b <= p /\ p < b + n /\ d <= p /\ p < d + m
  BY <1>1, <1>3
<1>6. ASSUME NEW i \in Nat, NEW j \in Nat, i * n < j * n
      PROVE  i < j
  <2> SUFFICES ASSUME j <= i PROVE FALSE
    OBVIOUS
  <2>1. j * n <= i * n
    BY <1>1
  <2>2. i * n \in Nat /\ j * n \in Nat
    BY <1>1
  <2> QED
    BY <1>6, <2>1, <2>2
<1>7. y <= x
  <2>1. y * n < (x + 1) * n
    BY <1>1, <1>4, <1>5
  <2>2. y < x + 1
    BY <1>6, <2>1
  <2> QED
    BY <2>2
<1>8. x + 1 <= y + t
  <2>1. x * n < (y + t) * n
    BY <1>1, <1>4, <1>5
  <2>2. x < y + t
    BY <1>6, <2>1
  <2> QED
    BY <2>2
<1>9. d <= b
  BY <1>1, <1>4, <1>7
<1>10. b + n <= d + m
  <2>1. (x + 1) * n <= (y + t) * n
    BY <1>1, <1>8
  <2> QED
    BY <1>1, <1>4, <2>1
<1> QED
  BY <1>1, <1>3, <1>9, <1>10

(* Blocks of one level that share a page are the same block.                *)
LEMMA SameBlock ==
  ASSUME NEW b \in Nat, NEW d \in Nat, NEW l \in Levels, Aligned(b, l), Aligned(d, l),
         NEW p \in Block(b, l), p \in Block(d, l)
  PROVE  b = d
<1>1. l <= l
  BY LevelFacts
<1>2. Block(b, l) \subseteq Block(d, l) /\ Block(d, l) \subseteq Block(b, l)
  BY <1>1, NestedBlocks
<1>3. b \in Block(d, l) /\ d \in Block(b, l)
  BY <1>2, PageInItsBlock
<1>4. d <= b /\ b <= d
  BY <1>3, PageCountType DEF Block, Pages
<1> QED
  BY <1>4

(* A block of level l inside a range that is one block of some level, but   *)
(* not at its beginning, and the first half of a block of the level above:  *)
(* the whole of that block is in the range too.                             *)
LEMMA RangeEnd ==
  ASSUME NEW base \in Nat, NEW g \in Nat, NEW l \in Levels, NEW k \in Levels, l # TOP,
         Aligned(base, k), Aligned(g, l + 1), base < g,
         g + buddy_level_page_count(l) <= base + buddy_level_page_count(k)
  PROVE  g + buddy_level_page_count(l + 1) <= base + buddy_level_page_count(k)
<1> DEFINE n == buddy_level_page_count(l)
           m == buddy_level_page_count(k)
           u == buddy_level_page_count(l + 1)
<1>0. l + 1 \in Levels /\ l \in Nat /\ k \in Nat
  BY LevelFacts
<1>1. n \in Nat \ {0} /\ m \in Nat \ {0} /\ u \in Nat \ {0} /\ u = 2 * n
  BY <1>0, PageCountType
<1>2. g \in Block(base, k)
  BY <1>1 DEF Block, Pages
<1>3. g \in Block(g, l + 1)
  BY <1>0, PageInItsBlock
<1>4. l + 1 <= k
  <2> SUFFICES ASSUME k <= l PROVE FALSE
    BY <1>0
  <2>1. m <= n
    BY PageCountMonotonic
  <2> QED
    BY <1>1, <2>1
<1>5. Block(g, l + 1) \subseteq Block(base, k)
  BY <1>0, <1>2, <1>3, <1>4, NestedBlocks
<1>6. g + u - 1 \in Block(g, l + 1)
  BY <1>1 DEF Block, Pages
<1>7. g + u - 1 \in base .. base + m - 1
  BY <1>5, <1>6 DEF Block, Pages
<1> QED
  BY <1>1, <1>7

----------------------------------------------------------------------------
(* Levels of an insertion and of a search                                   *)

(* The block InsertRange puts on a list starts at a page it can start at    *)
(* and ends before the limit: the second ASSERT of                          *)
(* buddy_insert_range_freed_locked never fails.                             *)
LEMMA InsertLevelFits ==
  ASSUME NEW f, f.free_i \in Nat, f.limit \in Nat, f.free_i < f.limit
  PROVE  /\ InsertLevel(f) \in Levels
         /\ Aligned(f.free_i, InsertLevel(f))
         /\ buddy_level_page_count(InsertLevel(f)) <= f.limit - f.free_i
<1> DEFINE A == max_buddy_level_for_page_alignment(f.free_i)
           F == min_buddy_level_for_size_no_overflow((f.limit - f.free_i) * PAGE_SIZE)
<1>0. 0 \in Levels /\ buddy_level_page_count(0) = 1
  BY LevelFacts, PageCountAssumption
<1>1. A \in Levels /\ Aligned(f.free_i, A)
  <2>1. 0 \in { l \in Levels : f.free_i % buddy_level_page_count(l) = 0 }
    BY <1>0
  <2> QED
    BY <2>1, MaxIsGreatest DEF max_buddy_level_for_page_alignment, Aligned
<1>2. F \in Levels /\ buddy_level_page_count(F) <= f.limit - f.free_i
  <2> DEFINE size == (f.limit - f.free_i) * PAGE_SIZE
  <2> DEFINE S == { l \in Levels : l = 0 \/ buddy_level_page_count(l) * PAGE_SIZE <= size }
  <2>0. S \in SUBSET Levels /\ 0 \in S
    BY <1>0
  <2>1. F = Max(S)
    BY DEF min_buddy_level_for_size_no_overflow
  <2>2. F \in Levels /\ (F = 0 \/ buddy_level_page_count(F) * PAGE_SIZE <= size)
    <3>1. \A x \in S : x \in Levels /\ (x = 0 \/ buddy_level_page_count(x) * PAGE_SIZE <= size)
      OBVIOUS
    <3> HIDE DEF S, F
    <3> QED
      BY <2>0, <2>1, <3>1, MaxIsGreatest
  <2> HIDE DEF F
  <2>3. /\ buddy_level_page_count(F) \in Nat /\ PAGE_SIZE \in Nat \ {0}
        /\ f.limit - f.free_i \in Nat \ {0}
    BY <2>2, PageCountType, ConstantsAssumption
  <2>4. ASSUME NEW a \in Nat, NEW b \in Nat, NEW s \in Nat \ {0}, a * s <= b * s
        PROVE  a <= b
    BY <2>4
  <2> QED
    BY <1>0, <2>2, <2>3, <2>4
<1>3. InsertLevel(f) = Min({A, F})
  BY DEF InsertLevel
<1> HIDE DEF A, F
<1>4. InsertLevel(f) \in {A, F} /\ InsertLevel(f) <= A /\ InsertLevel(f) <= F
  BY <1>1, <1>2, <1>3, LevelFacts, MinIsLeast
<1>5. Aligned(f.free_i, InsertLevel(f))
  BY <1>1, <1>2, <1>4, AlignedBelow
<1>6. /\ buddy_level_page_count(InsertLevel(f)) <= buddy_level_page_count(F)
      /\ buddy_level_page_count(InsertLevel(f)) \in Nat
      /\ buddy_level_page_count(F) \in Nat
  BY <1>1, <1>2, <1>4, PageCountMonotonic, PageCountType
<1> QED
  BY <1>1, <1>2, <1>4, <1>5, <1>6

(* InsertRange chooses the largest block that can start where the range     *)
(* starts and fits it.                                                      *)
LEMMA InsertLevelIsLargest ==
  ASSUME NEW f, f.free_i \in Nat, f.limit \in Nat, f.free_i < f.limit,
         NEW k \in Levels, Aligned(f.free_i, k),
         buddy_level_page_count(k) <= f.limit - f.free_i
  PROVE  k <= InsertLevel(f)
<1> DEFINE SA == { l \in Levels : f.free_i % buddy_level_page_count(l) = 0 }
           size == (f.limit - f.free_i) * PAGE_SIZE
           SF == { l \in Levels : l = 0 \/ buddy_level_page_count(l) * PAGE_SIZE <= size }
<1>1. InsertLevel(f) = Min({Max(SA), Max(SF)})
  BY DEF InsertLevel, max_buddy_level_for_page_alignment, min_buddy_level_for_size_no_overflow
<1>2. k \in SA
  BY DEF Aligned
<1>3. k \in SF
  <2>1. buddy_level_page_count(k) \in Nat /\ PAGE_SIZE \in Nat
    BY PageCountType, ConstantsAssumption
  <2>2. ASSUME NEW a \in Nat, NEW b \in Nat, NEW s \in Nat, a <= b
        PROVE  a * s <= b * s
    BY <2>2
  <2>3. buddy_level_page_count(k) * PAGE_SIZE <= size
    BY <2>1, <2>2
  <2> QED
    BY <2>3
<1>4. SA \in SUBSET Levels /\ SF \in SUBSET Levels
  OBVIOUS
<1> HIDE DEF SA, SF
<1>5. /\ Max(SA) \in Levels /\ k <= Max(SA)
      /\ Max(SF) \in Levels /\ k <= Max(SF)
  BY <1>2, <1>3, <1>4, MaxIsGreatest, LevelFacts
<1>6. Min({Max(SA), Max(SF)}) \in {Max(SA), Max(SF)}
  BY <1>5, LevelFacts, MinIsLeast
<1> QED
  BY <1>1, <1>5, <1>6

(* The search starts at a level.                                            *)
LEMMA SearchLevelIsLevel ==
  ASSUME NEW size \in Nat
  PROVE  min_buddy_level_for_size(size) \in Levels
<1> DEFINE S == {TOP} \cup
                { k \in Levels : size_to_page_count(size) < buddy_level_page_count(k) }
<1>1. S \in SUBSET Levels /\ S \in SUBSET Nat /\ S # {}
  BY LevelFacts
<1>2. Min(S) \in S
  <2> HIDE DEF S
  <2> QED
    BY <1>1, MinIsLeast
<1>3. 0 \in Levels
  BY LevelFacts, ConstantsAssumption DEF Levels
<1> QED
  BY <1>1, <1>2, <1>3 DEF min_buddy_level_for_size

(* The search starts at a level whose blocks hold the request.              *)
LEMMA SearchLevelHolds ==
  ASSUME NEW size \in Nat, size <= MaxRequest, NEW l \in Levels,
         min_buddy_level_for_size(size) <= l
  PROVE  /\ size_to_page_count(size) \in Nat
         /\ size_to_page_count(size) <= buddy_level_page_count(l)
<1> DEFINE m == min_buddy_level_for_size(size)
           count == size_to_page_count(size)
<1>0. PAGE_SIZE \in Nat \ {0} /\ TOP \in Levels
  BY ConstantsAssumption, LevelFacts
<1>1. ASSUME NEW k \in Nat, size <= PAGE_SIZE * k
      PROVE  count \in Nat /\ count <= k
  <2>1. PICK x \in Nat : x = size + PAGE_SIZE - 1
    BY <1>0
  <2>2. x \div PAGE_SIZE \in Nat /\ x = PAGE_SIZE * (x \div PAGE_SIZE) + (x % PAGE_SIZE)
    BY <1>0, Division
  <2>3. x % PAGE_SIZE \in Nat
    BY <1>0, Division
  <2>4. PICK q \in Nat : q = x \div PAGE_SIZE
    BY <2>2
  <2>5. PAGE_SIZE * q <= PAGE_SIZE * k + PAGE_SIZE - 1
    BY <1>0, <1>1, <2>1, <2>2, <2>3, <2>4
  <2>6. ~ (q >= k + 1)
    <3> SUFFICES ASSUME q >= k + 1 PROVE FALSE
      OBVIOUS
    <3>1. PAGE_SIZE * q >= PAGE_SIZE * (k + 1)
      BY <1>0
    <3> QED
      BY <1>0, <2>5, <3>1
  <2> QED
    BY <2>1, <2>4, <2>6 DEF size_to_page_count
<1>2. CASE size <= PAGE_SIZE
  BY <1>0, <1>1, <1>2, PageCountType
<1>3. CASE ~ (size <= PAGE_SIZE)
  <2> DEFINE S == {TOP} \cup { k \in Levels : count < buddy_level_page_count(k) }
  <2>1. m = Min(S)
    BY <1>3 DEF min_buddy_level_for_size
  <2>2. m \in S /\ m \in Levels
    BY <1>0, <2>1, LevelFacts, MinIsLeast
  <2>3. buddy_level_page_count(TOP) \in Nat
    BY <1>0, PageCountType
  <2>4. count \in Nat /\ count <= buddy_level_page_count(TOP)
    BY <1>1, <2>3 DEF MaxRequest
  <2>5. count <= buddy_level_page_count(m)
    BY <2>2, <2>4, PageCountType
  <2>6. buddy_level_page_count(m) <= buddy_level_page_count(l)
    BY <2>2, PageCountMonotonic
  <2> QED
    BY <2>2, <2>4, <2>5, <2>6, PageCountType
<1> QED
  BY <1>2, <1>3

----------------------------------------------------------------------------
(* The lists                                                                *)

(* list_push_front adds the block, and no block twice.                      *)
LEMMA PushFront ==
  ASSUME NEW S, NEW s \in Seq(S), NEW e \in S
  PROVE  /\ <<e>> \o s \in Seq(S)
         /\ ToSet(<<e>> \o s) = ToSet(s) \cup {e}
         /\ IsInjective(s) /\ e \notin ToSet(s) => IsInjective(<<e>> \o s)
<1> DEFINE t == <<e>> \o s
<1>1. /\ <<e>> \in Seq(S) /\ Len(<<e>>) = 1 /\ <<e>>[1] = e
      /\ Len(s) \in Nat /\ DOMAIN s = 1 .. Len(s)
  OBVIOUS
<1>2. /\ t \in Seq(S)
      /\ Len(t) = Len(s) + 1
      /\ \A i \in 1 .. Len(s) + 1 : t[i] = IF i = 1 THEN e ELSE s[i - 1]
  BY <1>1, ConcatProperties
<1> HIDE DEF t
<1>3. DOMAIN t = 1 .. Len(s) + 1
  BY <1>1, <1>2
<1>4. ToSet(t) = ToSet(s) \cup {e}
  <2>1. ASSUME NEW x \in ToSet(s)
        PROVE  x \in ToSet(t)
    <3>1. PICK i \in 1 .. Len(s) : x = s[i]
      BY <1>1, <2>1 DEF ToSet
    <3>2. i + 1 \in DOMAIN t /\ t[i + 1] = x
      BY <1>1, <1>2, <1>3, <3>1
    <3> QED
      BY <3>2 DEF ToSet
  <2>2. 1 \in DOMAIN t /\ t[1] = e
    BY <1>1, <1>2, <1>3
  <2>3. ASSUME NEW x \in ToSet(t)
        PROVE  x = e \/ x \in ToSet(s)
    <3>1. PICK i \in 1 .. Len(s) + 1 : x = t[i]
      BY <1>3, <2>3 DEF ToSet
    <3>2. i # 1 => i - 1 \in DOMAIN s /\ x = s[i - 1]
      BY <1>1, <1>2, <3>1
    <3> QED
      BY <1>1, <1>2, <3>1, <3>2 DEF ToSet
  <2> QED
    BY <2>1, <2>2, <2>3 DEF ToSet
<1>5. ASSUME IsInjective(s), e \notin ToSet(s)
      PROVE  IsInjective(t)
  <2> SUFFICES ASSUME NEW i \in DOMAIN t, NEW j \in DOMAIN t, t[i] = t[j]
               PROVE  i = j
    BY DEF IsInjective
  <2>1. \A k \in DOMAIN s : s[k] # e
    BY <1>5 DEF ToSet
  <2>2. i # 1 => i - 1 \in DOMAIN s /\ t[i] = s[i - 1]
    BY <1>1, <1>2, <1>3
  <2>3. j # 1 => j - 1 \in DOMAIN s /\ t[j] = s[j - 1]
    BY <1>1, <1>2, <1>3
  <2>4. t[1] = e /\ i \in Int /\ j \in Int
    BY <1>1, <1>2, <1>3
  <2> QED
    BY <1>5, <2>1, <2>2, <2>3, <2>4 DEF IsInjective
<1> QED
  BY <1>2, <1>4, <1>5 DEF t

(* The front of a list that is not empty is on the list.                    *)
LEMMA HeadIsIn ==
  ASSUME NEW S, NEW s \in Seq(S), s # << >>
  PROVE  Head(s) \in S /\ Head(s) \in ToSet(s)
<1>1. 1 \in DOMAIN s /\ Head(s) = s[1]
  OBVIOUS
<1> QED
  BY <1>1 DEF ToSet

(* list_remove takes the block and no other off the list.                   *)
LEMMA RemoveOne ==
  ASSUME NEW S, NEW s \in Seq(S), IsInjective(s), NEW e \in ToSet(s)
  PROVE  LET t == RemoveAt(s, CHOOSE i \in DOMAIN s : s[i] = e)
         IN  t \in Seq(S) /\ ToSet(t) = ToSet(s) \ {e} /\ IsInjective(t)
<1> DEFINE n == Len(s)
           k == CHOOSE i \in DOMAIN s : s[i] = e
           t == RemoveAt(s, k)
<1>1. n \in Nat /\ DOMAIN s = 1 .. n /\ \A i \in 1 .. n : s[i] \in S
  BY LenProperties
<1>2. k \in 1 .. n /\ s[k] = e
  BY <1>1 DEF ToSet
<1> HIDE DEF n, k
<1>3. /\ SubSeq(s, 1, k - 1) \in Seq(S)
      /\ Len(SubSeq(s, 1, k - 1)) = k - 1
      /\ \A i \in 1 .. k - 1 : SubSeq(s, 1, k - 1)[i] = s[i]
  BY <1>1, <1>2, SubSeqProperties
<1>4. /\ SubSeq(s, k + 1, n) \in Seq(S)
      /\ Len(SubSeq(s, k + 1, n)) = n - k
      /\ \A i \in 1 .. n - k : SubSeq(s, k + 1, n)[i] = s[i + k]
  BY <1>1, <1>2, SubSeqProperties
<1> DEFINE u == SubSeq(s, 1, k - 1)
           v == SubSeq(s, k + 1, n)
<1>5. t = u \o v
  BY DEF RemoveAt, n
<1> HIDE DEF t, u, v
<1>6. /\ t \in Seq(S)
      /\ DOMAIN t = 1 .. n - 1
      /\ \A i \in 1 .. n - 1 : t[i] = IF i < k THEN s[i] ELSE s[i + 1]
  <2>1. /\ u \in Seq(S) /\ Len(u) = k - 1 /\ \A i \in 1 .. k - 1 : u[i] = s[i]
        /\ v \in Seq(S) /\ Len(v) = n - k /\ \A i \in 1 .. n - k : v[i] = s[i + k]
    BY <1>3, <1>4 DEF u, v
  <2>2. /\ t \in Seq(S) /\ Len(t) = Len(u) + Len(v)
        /\ \A i \in 1 .. Len(u) + Len(v) :
             t[i] = IF i <= Len(u) THEN u[i] ELSE v[i - Len(u)]
    BY <1>5, <2>1, ConcatProperties
  <2>3. Len(t) = n - 1 /\ DOMAIN t = 1 .. n - 1
    BY <1>1, <1>2, <2>1, <2>2, LenProperties
  <2>4. ASSUME NEW i \in 1 .. n - 1
        PROVE  t[i] = IF i < k THEN s[i] ELSE s[i + 1]
    <3>1. CASE i < k
      BY <1>1, <1>2, <2>1, <2>2, <3>1
    <3>2. CASE ~ (i < k)
      <4>1. i - (k - 1) \in 1 .. n - k /\ (i - (k - 1)) + k = i + 1
        BY <1>1, <1>2, <3>2
      <4>2. t[i] = v[i - (k - 1)]
        BY <1>1, <1>2, <2>1, <2>2, <3>2
      <4> QED
        BY <2>1, <3>2, <4>1, <4>2
    <3> QED
      BY <3>1, <3>2
  <2> QED
    BY <2>2, <2>3, <2>4
<1>7. IsInjective(t)
  <2> SUFFICES ASSUME NEW i \in 1 .. n - 1, NEW j \in 1 .. n - 1, t[i] = t[j]
               PROVE  i = j
    BY <1>6 DEF IsInjective
  <2>1. PICK x \in DOMAIN s : x = (IF i < k THEN i ELSE i + 1) /\ t[i] = s[x]
    BY <1>1, <1>2, <1>6
  <2>2. PICK y \in DOMAIN s : y = (IF j < k THEN j ELSE j + 1) /\ t[j] = s[y]
    BY <1>1, <1>2, <1>6
  <2>3. x = y
    BY <2>1, <2>2 DEF IsInjective
  <2> QED
    BY <1>2, <2>1, <2>2, <2>3
<1>8. ToSet(t) = ToSet(s) \ {e}
  <2>1. ASSUME NEW x \in ToSet(t)
        PROVE  x \in ToSet(s) /\ x # e
    <3>1. PICK i \in 1 .. n - 1 : x = t[i]
      BY <1>6, <2>1 DEF ToSet
    <3>2. PICK j \in DOMAIN s : j # k /\ x = s[j]
      <4>1. CASE i < k
        BY <1>1, <1>2, <1>6, <3>1, <4>1
      <4>2. CASE ~ (i < k)
        <5>1. i + 1 \in DOMAIN s /\ i + 1 # k /\ x = s[i + 1]
          BY <1>1, <1>2, <1>6, <3>1, <4>2
        <5> QED
          BY <5>1
      <4> QED
        BY <4>1, <4>2
    <3> QED
      BY <1>1, <1>2, <3>2 DEF ToSet, IsInjective
  <2>2. ASSUME NEW x \in ToSet(s), x # e
        PROVE  x \in ToSet(t)
    <3>1. PICK i \in 1 .. n : s[i] = x /\ i # k
      BY <1>1, <1>2, <2>2 DEF ToSet
    <3>2. CASE i < k
      BY <1>1, <1>2, <1>6, <3>1, <3>2 DEF ToSet
    <3>3. CASE i > k
      <4>1. i - 1 \in DOMAIN t /\ t[i - 1] = x
        BY <1>1, <1>2, <1>6, <3>1, <3>3
      <4> QED
        BY <4>1 DEF ToSet
    <3> QED
      BY <1>1, <1>2, <3>1, <3>2, <3>3
  <2> QED
    BY <2>1, <2>2
<1> QED
  BY <1>6, <1>7, <1>8 DEF t, k

----------------------------------------------------------------------------
(* The store: lists, bitmaps and metadata, and what one block more or less  *)
(* does to them.                                                            *)

StoreTyped ==
  /\ buddy_lists \in [Levels -> Seq(Managed)]
  /\ buddy_bitmaps \in [Levels -> SUBSET Int]
  /\ metadata \in [0 .. page_count - 1 -> Bytes]

(* A block on a list is on it once, starts where a block of its level can   *)
(* start, lies in managed memory and shares no page with another block.     *)
StoreInv ==
  /\ \A l \in Levels : IsInjective(buddy_lists[l])
  /\ \A l \in Levels : \A b \in FreeBlocks(l) :
       Aligned(b, l) /\ Block(b, l) \subseteq Managed
  /\ \A l, k \in Levels : \A b \in FreeBlocks(l), d \in FreeBlocks(k) :
       Block(b, l) \cap Block(d, k) # {} => l = k /\ b = d
  /\ BitmapMatchesLists

(* The managed pages are the natural numbers from page_base on.             *)
LEMMA ManagedPages ==
  ASSUME ram_base = 0
  PROVE  /\ page_base = 0
         /\ page_count \in Nat
         /\ Managed = 0 .. page_count - 1
         /\ \A p \in Int : IsManaged(p) <=> p \in Managed
<1>1. page_base = 0
  BY ConstantsAssumption, Z3 DEF page_base, pa_to_page_id
<1>2. page_count \in Nat
  <2>1. PICK x \in Nat : x = ram_size - ram_base + PAGE_SIZE - 1
    BY ConstantsAssumption
  <2>2. x \div PAGE_SIZE \in Nat
    BY ConstantsAssumption, Division
  <2> QED
    BY <2>1, <2>2 DEF page_count, size_to_page_count
<1> QED
  BY <1>1, <1>2 DEF Managed, IsManaged

(* Setting a bit keeps the types and changes, of the bitmaps that are read, *)
(* one bit of one level.                                                    *)
LEMMA SetBit ==
  ASSUME ram_base = 0, StoreTyped, NEW l \in Levels, NEW p \in Managed,
         NEW v \in BOOLEAN, buddy_bitmap_set_bit_locked(p, l, v)
  PROVE  /\ buddy_bitmaps' \in [Levels -> SUBSET Int]
         /\ metadata' \in [0 .. page_count - 1 -> Bytes]
         /\ \A k \in Levels \ {TOP} :
              buddy_bitmaps'[k] =
                IF k = l THEN WithBit(buddy_bitmaps[k], buddy_bitmap_slot(p, l), v)
                         ELSE buddy_bitmaps[k]
<1> DEFINE slot == buddy_bitmap_slot(p, l)
<1>1. slot \in Nat
  <2>1. slot = p \div buddy_level_page_count(l) /\ p \in Nat
    BY ManagedPages DEF buddy_bitmap_slot
  <2> QED
    BY <2>1, PageCountType, Division
<1>2. slot % 8 \in 0 .. 7
  <2> HIDE DEF slot
  <2> QED
    BY <1>1
<1> HIDE DEF slot
<1>3. CASE l = TOP /\ InMds(slot)
  <2>1. /\ metadata' = [metadata EXCEPT ![MdsByteOf(slot)] = WithBit(@, slot % 8, v)]
        /\ UNCHANGED buddy_bitmaps
    BY <1>3 DEF buddy_bitmap_set_bit_locked, slot
  <2>2. MdsByteOf(slot) \in 0 .. page_count - 1
    BY <1>3 DEF InMds
  <2>3. \A x \in Bytes : WithBit(x, slot % 8, v) \in Bytes
    BY <1>2 DEF WithBit, Bytes
  <2> QED
    BY <1>3, <2>1, <2>2, <2>3 DEF StoreTyped
<1>4. CASE ~ (l = TOP /\ InMds(slot))
  <2>1. /\ buddy_bitmaps' = [buddy_bitmaps EXCEPT ![l] = WithBit(@, slot, v)]
        /\ UNCHANGED metadata
    BY <1>4 DEF buddy_bitmap_set_bit_locked, slot
  <2>2. \A x \in SUBSET Int : WithBit(x, slot, v) \in SUBSET Int
    BY <1>1 DEF WithBit
  <2> QED
    BY <2>1, <2>2 DEF StoreTyped, slot
<1> QED
  BY <1>3, <1>4

(* A block put on its list with its bit set adds exactly its pages to the   *)
(* free ones.                                                               *)
LEMMA AddBlock ==
  ASSUME ram_base = 0, StoreTyped, StoreInv,
         NEW l \in Levels, NEW b \in Managed,
         Aligned(b, l), Block(b, l) \subseteq Managed,
         \A p \in Block(b, l) : ~ IsFree(p),
         list_push_front(l, b),
         buddy_bitmap_set_bit_locked(b, l, BUDDY_BIT_FREE)
  PROVE  /\ StoreTyped'
         /\ StoreInv'
         /\ \A p : IsFree(p)' <=> IsFree(p) \/ p \in Block(b, l)
<1>0. b \notin FreeBlocks(l)
  <2>1. b \in Block(b, l)
    BY PageInItsBlock, ManagedPages
  <2> QED
    BY <2>1 DEF IsFree
<1>1. /\ buddy_lists' \in [Levels -> Seq(Managed)]
      /\ \A k \in Levels : FreeBlocks(k)' =
           IF k = l THEN FreeBlocks(l) \cup {b} ELSE FreeBlocks(k)
      /\ \A k \in Levels : IsInjective(buddy_lists'[k])
  <2>1. buddy_lists[l] \in Seq(Managed)
    BY DEF StoreTyped
  <2>2. /\ <<b>> \o buddy_lists[l] \in Seq(Managed)
        /\ ToSet(<<b>> \o buddy_lists[l]) = ToSet(buddy_lists[l]) \cup {b}
        /\ IsInjective(<<b>> \o buddy_lists[l])
    BY <1>0, <2>1, PushFront DEF FreeBlocks, StoreInv
  <2>3. /\ buddy_lists' \in [Levels -> Seq(Managed)]
        /\ \A k \in Levels : buddy_lists'[k] =
             IF k = l THEN <<b>> \o buddy_lists[l] ELSE buddy_lists[k]
    BY <2>2 DEF list_push_front, StoreTyped
  <2> QED
    BY <2>2, <2>3 DEF FreeBlocks, StoreInv
<1>2. /\ buddy_bitmaps' \in [Levels -> SUBSET Int]
      /\ metadata' \in [0 .. page_count - 1 -> Bytes]
      /\ \A k \in Levels \ {TOP} : buddy_bitmaps'[k] =
           IF k = l THEN buddy_bitmaps[k] \cup {buddy_bitmap_slot(b, l)}
                    ELSE buddy_bitmaps[k]
  BY SetBit DEF BUDDY_BIT_FREE, WithBit
<1>3. StoreTyped'
  BY <1>1, <1>2 DEF StoreTyped
<1>4. ASSUME NEW p
      PROVE  IsFree(p)' <=> IsFree(p) \/ p \in Block(b, l)
  BY <1>1 DEF IsFree
<1>5. \A k \in Levels : \A d \in FreeBlocks(k)' :
        Aligned(d, k) /\ Block(d, k) \subseteq Managed
  BY <1>1 DEF StoreInv
<1>6. ASSUME NEW k \in Levels, NEW m \in Levels,
             NEW d \in FreeBlocks(k)', NEW e \in FreeBlocks(m)',
             Block(d, k) \cap Block(e, m) # {}
      PROVE  k = m /\ d = e
  <2>1. CASE k = l /\ d = b
    BY <1>1, <1>6, <2>1 DEF IsFree
  <2>2. CASE m = l /\ e = b
    BY <1>1, <1>6, <2>2 DEF IsFree
  <2>3. CASE ~ (k = l /\ d = b) /\ ~ (m = l /\ e = b)
    <3>1. d \in FreeBlocks(k) /\ e \in FreeBlocks(m)
      BY <1>1, <2>3
    <3> QED
      BY <1>6, <3>1 DEF StoreInv
  <2> QED
    BY <2>1, <2>2, <2>3
<1>7. BitmapMatchesLists'
  <2> SUFFICES ASSUME NEW k \in Levels \ {TOP}
               PROVE  buddy_bitmaps'[k] = { buddy_bitmap_slot(d, k) : d \in FreeBlocks(k)' }
    BY DEF BitmapMatchesLists, buddy_bitmap_slot
  <2>1. buddy_bitmaps[k] = { buddy_bitmap_slot(d, k) : d \in FreeBlocks(k) }
    BY DEF StoreInv, BitmapMatchesLists
  <2>2. CASE k # l
    BY <1>1, <1>2, <2>1, <2>2
  <2>3. CASE k = l
    BY <1>1, <1>2, <2>1, <2>3
  <2> QED
    BY <2>2, <2>3
<1> QED
  BY <1>1, <1>3, <1>4, <1>5, <1>6, <1>7 DEF StoreInv

(* A block unlinked with its bit cleared takes exactly its pages away.      *)
LEMMA DropBlock ==
  ASSUME ram_base = 0, StoreTyped, StoreInv,
         NEW l \in Levels, NEW b \in FreeBlocks(l),
         list_remove(l, b),
         buddy_bitmap_set_bit_locked(b, l, BUDDY_BIT_ALLCOATED)
  PROVE  /\ StoreTyped'
         /\ StoreInv'
         /\ \A p : IsFree(p)' <=> IsFree(p) /\ p \notin Block(b, l)
<1>0. b \in Managed /\ b \in Nat
  BY ManagedPages DEF FreeBlocks, ToSet, StoreTyped
<1>1. /\ buddy_lists' \in [Levels -> Seq(Managed)]
      /\ \A k \in Levels : FreeBlocks(k)' =
           IF k = l THEN FreeBlocks(l) \ {b} ELSE FreeBlocks(k)
      /\ \A k \in Levels : IsInjective(buddy_lists'[k])
  <2> DEFINE t == RemoveAt(buddy_lists[l],
                           CHOOSE i \in DOMAIN buddy_lists[l] : buddy_lists[l][i] = b)
  <2>1. buddy_lists[l] \in Seq(Managed) /\ IsInjective(buddy_lists[l])
    BY DEF StoreTyped, StoreInv
  <2>2. /\ t \in Seq(Managed)
        /\ ToSet(t) = ToSet(buddy_lists[l]) \ {b}
        /\ IsInjective(t)
    BY <2>1, RemoveOne DEF FreeBlocks
  <2>3. buddy_lists' = [buddy_lists EXCEPT ![l] = t]
    BY DEF list_remove
  <2> HIDE DEF t
  <2>4. /\ buddy_lists' \in [Levels -> Seq(Managed)]
        /\ \A k \in Levels : buddy_lists'[k] = IF k = l THEN t ELSE buddy_lists[k]
    BY <2>2, <2>3 DEF StoreTyped
  <2> QED
    BY <2>2, <2>4 DEF FreeBlocks, StoreInv
<1>2. /\ buddy_bitmaps' \in [Levels -> SUBSET Int]
      /\ metadata' \in [0 .. page_count - 1 -> Bytes]
      /\ \A k \in Levels \ {TOP} : buddy_bitmaps'[k] =
           IF k = l THEN buddy_bitmaps[k] \ {buddy_bitmap_slot(b, l)}
                    ELSE buddy_bitmaps[k]
  BY <1>0, SetBit DEF BUDDY_BIT_ALLCOATED, WithBit
<1>3. StoreTyped'
  BY <1>1, <1>2 DEF StoreTyped
<1>4. ASSUME NEW p
      PROVE  IsFree(p)' <=> IsFree(p) /\ p \notin Block(b, l)
  <2>1. ASSUME NEW k \in Levels, NEW d \in FreeBlocks(k), p \in Block(d, k)
        PROVE  p \in Block(b, l) <=> k = l /\ d = b
    BY <2>1 DEF StoreInv
  <2> QED
    BY <1>1, <2>1 DEF IsFree
<1>5. \A k \in Levels : \A d \in FreeBlocks(k)' : d \in FreeBlocks(k)
  BY <1>1
<1>6. BitmapMatchesLists'
  <2> SUFFICES ASSUME NEW k \in Levels \ {TOP}
               PROVE  buddy_bitmaps'[k] = { buddy_bitmap_slot(d, k) : d \in FreeBlocks(k)' }
    BY DEF BitmapMatchesLists, buddy_bitmap_slot
  <2>1. buddy_bitmaps[k] = { buddy_bitmap_slot(d, k) : d \in FreeBlocks(k) }
    BY DEF StoreInv, BitmapMatchesLists
  <2>2. CASE k # l
    BY <1>1, <1>2, <2>1, <2>2
  <2>3. CASE k = l
    <3>1. \A d \in FreeBlocks(l) : d \in Nat /\ Aligned(d, l)
      BY ManagedPages DEF StoreInv, FreeBlocks, ToSet, StoreTyped
    <3>2. \A d \in FreeBlocks(l) :
            buddy_bitmap_slot(d, l) = buddy_bitmap_slot(b, l) => d = b
      BY <3>1, SlotsDiffer, ManagedPages
    <3> QED
      BY <1>1, <1>2, <2>1, <2>3, <3>2
  <2> QED
    BY <2>2, <2>3
<1> QED
  BY <1>1, <1>3, <1>4, <1>5, <1>6 DEF StoreInv

----------------------------------------------------------------------------
(* Mutual exclusion                                                         *)

Mutex ==
  /\ pc \in [Cores -> Labels]
  /\ lock \in {0, 1}
  /\ MutualExclusion

(* A step of a core that changes neither its being inside nor the lock.     *)
LEMMA StaysAsItIs ==
  ASSUME Mutex, NEW c \in Cores, NEW label \in Labels,
         pc' = [pc EXCEPT ![c] = label], UNCHANGED lock,
         pc[c] \in Holding <=> label \in Holding
  PROVE  Mutex'
<1>1. \A d \in Cores : pc'[d] = IF d = c THEN label ELSE pc[d]
  BY DEF Mutex
<1>2. \A d \in Cores : pc'[d] \in Holding <=> pc[d] \in Holding
  BY <1>1
<1>3. pc' \in [Cores -> Labels]
  BY DEF Mutex
<1> QED
  BY <1>2, <1>3 DEF Mutex, MutualExclusion

(* Every step keeps at most one core between PFA_LOCK and PFA_UNLOCK, and   *)
(* the lock's value in step with it.                                        *)
LEMMA MutexStep == Mutex /\ [Next]_vars => Mutex'
<1> SUFFICES ASSUME Mutex, [Next]_vars PROVE Mutex'
  OBVIOUS
<1>0. \A l : l \in Labels <=> l \in {"boot_insert", "boot_apply", "idle", "lock", "panic"}
                              \/ l \in Holding
  BY DEF Labels
<1> USE DEF Holding
<1>1. ASSUME NEW c \in Cores, Calls(c) PROVE Mutex'
  <2>1. UNCHANGED lock /\ pc[c] = "idle"
        /\ \E label \in {"lock", "panic"} : pc' = [pc EXCEPT ![c] = label]
    BY <1>1 DEF Calls, AllocCall, FreeCall, GetCall, RequireCall, RequireOutOfBounds,
                Call, Goto
  <2> QED
    BY <2>1, <1>0, StaysAsItIs
<1>2. ASSUME NEW c \in Cores, LockAcquire(c) PROVE Mutex'
  <2>1. PICK label \in Holding : pc' = [pc EXCEPT ![c] = label]
    BY <1>2 DEF LockAcquire, Goto
  <2>2. lock = 1 /\ lock' = 0 /\ \A d \in Cores : pc[d] \notin Holding
    BY <1>2 DEF LockAcquire, Mutex, MutualExclusion
  <2>3. \A d \in Cores : pc'[d] \in Holding <=> d = c
    BY <2>1, <2>2 DEF Mutex
  <2>4. pc' \in [Cores -> Labels]
    BY <2>1, <1>0 DEF Mutex
  <2> QED
    BY <2>2, <2>3, <2>4 DEF Mutex, MutualExclusion
<1>3. ASSUME NEW c \in Cores, Unlock(c) PROVE Mutex'
  <2>1. pc' = [pc EXCEPT ![c] = "idle"]
    BY <1>3 DEF Unlock, Goto
  <2>2. /\ lock = 0 /\ lock' = 1
        /\ \A d \in Cores \ {c} : pc[d] \notin Holding
    BY <1>3 DEF Unlock, Mutex, MutualExclusion
  <2>3. \A d \in Cores : pc'[d] \notin Holding
    BY <2>1, <2>2 DEF Mutex
  <2>4. pc' \in [Cores -> Labels]
    BY <2>1, <1>0 DEF Mutex
  <2> QED
    BY <2>2, <2>3, <2>4 DEF Mutex, MutualExclusion
<1>4. ASSUME NEW c \in Cores, Run(c), ~ Unlock(c) PROVE Mutex'
  <2>1. CASE InsertRange(c) \/ MergeUp(c)
    <3>1. UNCHANGED <<lock, pc>>
      BY <2>1 DEF InsertRange, MergeUp
    <3> QED
      BY <3>1 DEF Mutex, MutualExclusion
  <2>2. CASE OutOfMemory(c) \/ TakeBlock(c)
    BY <2>2, <1>0, StaysAsItIs DEF OutOfMemory, TakeBlock, Goto
  <2>3. CASE InsertDone(c)
    BY <2>3, <1>0, StaysAsItIs DEF InsertDone, Goto
  <2>4. CASE ApplyMetadata(c) \/ BootApply(c)
    BY <2>4, <1>0, StaysAsItIs DEF ApplyMetadata, BootApply, Goto
  <2>5. CASE FreePage(c)
    BY <2>5, <1>0, StaysAsItIs DEF FreePage, Goto
  <2>6. CASE GetMetadata(c) \/ RequireRangeType(c) \/ RequirePanic(c)
    BY <2>6, <1>0, StaysAsItIs DEF GetMetadata, RequireRangeType, RequirePanic, Goto
  <2> QED
    BY <1>4, <2>1, <2>2, <2>3, <2>4, <2>5, <2>6 DEF Run
<1>5. CASE UNCHANGED vars
  BY <1>5 DEF vars, Mutex, MutualExclusion
<1> QED
  BY <1>1, <1>2, <1>3, <1>4, <1>5 DEF Next

(* PFA_LOCK and PFA_UNLOCK admit one core at a time, and the lock is free   *)
(* exactly when no core is between them.                                    *)
THEOREM OneCoreInside == Spec => []MutualExclusion
<1>1. Init => Mutex
  BY DEF Init, Mutex, MutualExclusion, Labels, Holding
<1>2. Mutex => MutualExclusion
  BY DEF Mutex
<1> QED
  BY <1>1, <1>2, MutexStep, PTL DEF Spec

----------------------------------------------------------------------------
(* The inductive invariant                                                  *)

Ops == {"none", "boot", "alloc", "free", "get", "require"}

FrameType == [ op : Ops, size : Nat, page_type : Bytes, base : Int, count : Nat,
               free_i : Nat, limit : Nat, page_i : Nat, level_i : Levels ]

CallsTyped ==
  /\ held \in [Managed -> PageTypes \cup {NotHeld}]
  /\ pc \in [Cores -> Labels]
  /\ frame \in [Cores -> FrameType]

(* What the locals of a call say at each place of it.                       *)
CallState(c) ==
  LET f == frame[c]
  IN  /\ pc[c] \in {"search", "insert", "apply"} => f.op = "alloc"
      /\ pc[c] = "merge" => f.op = "free"
      /\ pc[c] = "get" => f.op = "get"
      /\ pc[c] = "require" => f.op = "require"
      /\ pc[c] = "lock" => f.op \in {"alloc", "free", "get", "require"}
      /\ f.op = "alloc" => f.page_type \in PageTypes /\ f.size <= MaxRequest
      /\ f.op = "get" => f.base \in Managed
      /\ pc[c] = "lock" /\ f.op = "free" =>
           /\ f.base \in Managed
           /\ f.free_i = f.base /\ f.limit = f.base + f.count
           /\ f.page_i = f.base /\ f.level_i = 0
      /\ pc[c] \in {"insert", "apply"} =>
           f.base \in Managed /\ f.base + f.count <= page_count
      /\ pc[c] = "insert" => f.base + f.count <= f.free_i
      /\ pc[c] = "merge" =>
           /\ f.free_i < f.limit
           /\ Aligned(f.page_i, f.level_i)
           /\ Growing(c) \cap Remaining(c) = {}

(* Every managed page is in exactly one place.                              *)
Partition ==
  /\ \A c \in Cores : InFlight(c) \subseteq Managed
  /\ \A c, d \in Cores : InFlight(c) \cap InFlight(d) # {} => c = d
  /\ \A p \in Managed :
       /\ ~ (IsFree(p) /\ (IsHeld(p) \/ IsInFlight(p)))
       /\ ~ (IsHeld(p) /\ IsInFlight(p))
       /\ p \in Reserved => ~ IsFree(p) /\ ~ IsHeld(p) /\ ~ IsInFlight(p)
       /\ p \in Reserved \/ IsFree(p) \/ IsHeld(p) \/ IsInFlight(p)

IInv ==
  /\ StoreTyped
  /\ CallsTyped
  /\ StoreInv
  /\ \A c \in Cores : CallState(c)
  /\ Partition

----------------------------------------------------------------------------
(* Pages changing hands                                                     *)

(* The lists stay as they are.                                              *)
LEMMA StoreUnchanged ==
  ASSUME StoreTyped, StoreInv, UNCHANGED <<buddy_lists, buddy_bitmaps>>,
         metadata' \in [0 .. page_count - 1 -> Bytes]
  PROVE  StoreTyped' /\ StoreInv' /\ \A p : IsFree(p)' <=> IsFree(p)
  BY DEF StoreTyped, StoreInv, BitmapMatchesLists, buddy_bitmap_slot, FreeBlocks, IsFree

(* A call whose core does not step is as it was.                            *)
LEMMA OthersUnchanged ==
  ASSUME NEW d \in Cores, pc'[d] = pc[d], frame'[d] = frame[d]
  PROVE  InFlight(d)' = InFlight(d) /\ (CallState(d) => CallState(d)')
  BY DEF InFlight, Result, Growing, Remaining, GotPages, CallState

(* Only core c steps: what a lemma below needs of the other cores.          *)
OnlyCore(c) ==
  \A d \in Cores \ {c} : InFlight(d)' = InFlight(d)

(* A step that moves no page keeps the partition.                           *)
LEMMA NothingMoves ==
  ASSUME Partition, NEW c \in Cores, OnlyCore(c),
         \A p : IsFree(p)' <=> IsFree(p),
         \A p \in Managed : held'[p] = held[p],
         InFlight(c)' = InFlight(c)
  PROVE  Partition'
<1>1. \A d \in Cores : InFlight(d)' = InFlight(d)
  BY DEF OnlyCore
<1>2. \A p \in Managed : /\ IsInFlight(p)' <=> IsInFlight(p)
                         /\ IsHeld(p)' <=> IsHeld(p)
  BY <1>1 DEF IsInFlight, IsHeld
<1> QED
  BY <1>1, <1>2 DEF Partition

(* A call takes free pages.                                                 *)
LEMMA TakesFree ==
  ASSUME Partition, NEW c \in Cores, OnlyCore(c), NEW S \in SUBSET Managed,
         \A p \in S : IsFree(p),
         \A p : IsFree(p)' <=> IsFree(p) /\ p \notin S,
         \A p \in Managed : held'[p] = held[p],
         InFlight(c)' = InFlight(c) \cup S
  PROVE  Partition'
<1>1. \A d \in Cores : InFlight(d)' = IF d = c THEN InFlight(c) \cup S ELSE InFlight(d)
  BY DEF OnlyCore
<1>2. \A p \in Managed : /\ IsInFlight(p)' <=> IsInFlight(p) \/ p \in S
                         /\ IsHeld(p)' <=> IsHeld(p)
  BY <1>1 DEF IsInFlight, IsHeld
<1>3. \A d \in Cores : S \cap InFlight(d) = {}
  BY DEF Partition, IsInFlight
<1>4. \A a, b \in Cores : InFlight(a)' \cap InFlight(b)' # {} => a = b
  BY <1>1, <1>3 DEF Partition
<1>5. \A d \in Cores : InFlight(d)' \subseteq Managed
  BY <1>1 DEF Partition
<1> QED
  BY <1>2, <1>4, <1>5 DEF Partition

(* A call puts pages on a free list.                                        *)
LEMMA GivesFree ==
  ASSUME Partition, NEW c \in Cores, OnlyCore(c), NEW S \in SUBSET InFlight(c),
         \A p : IsFree(p)' <=> IsFree(p) \/ p \in S,
         \A p \in Managed : held'[p] = held[p],
         InFlight(c)' = InFlight(c) \ S
  PROVE  Partition'
<1>1. \A d \in Cores : InFlight(d)' = IF d = c THEN InFlight(c) \ S ELSE InFlight(d)
  BY DEF OnlyCore
<1>2. \A p \in Managed : /\ IsInFlight(p)' <=> IsInFlight(p) /\ p \notin S
                         /\ IsHeld(p)' <=> IsHeld(p)
                         /\ p \in S => IsInFlight(p)
  BY <1>1 DEF IsInFlight, IsHeld, Partition
<1>4. \A a, b \in Cores : InFlight(a)' \cap InFlight(b)' # {} => a = b
  BY <1>1 DEF Partition
<1>5. \A d \in Cores : InFlight(d)' \subseteq Managed
  BY <1>1 DEF Partition
<1> QED
  BY <1>2, <1>4, <1>5 DEF Partition

(* A caller hands pages it holds to its call.                               *)
LEMMA TakesHeld ==
  ASSUME Partition, NEW c \in Cores, OnlyCore(c), NEW S \in SUBSET Managed,
         \A p \in S : IsHeld(p),
         \A p : IsFree(p)' <=> IsFree(p),
         \A p \in Managed : IsHeld(p)' <=> IsHeld(p) /\ p \notin S,
         InFlight(c)' = InFlight(c) \cup S
  PROVE  Partition'
<1>1. \A d \in Cores : InFlight(d)' = IF d = c THEN InFlight(c) \cup S ELSE InFlight(d)
  BY DEF OnlyCore
<1>2. \A p \in Managed : IsInFlight(p)' <=> IsInFlight(p) \/ p \in S
  BY <1>1 DEF IsInFlight
<1>3. \A d \in Cores : S \cap InFlight(d) = {}
  BY DEF Partition, IsInFlight
<1>4. \A a, b \in Cores : InFlight(a)' \cap InFlight(b)' # {} => a = b
  BY <1>1, <1>3 DEF Partition
<1>5. \A d \in Cores : InFlight(d)' \subseteq Managed
  BY <1>1 DEF Partition
<1> QED
  BY <1>2, <1>4, <1>5 DEF Partition

(* A call hands pages to its caller.                                        *)
LEMMA GivesHeld ==
  ASSUME Partition, NEW c \in Cores, OnlyCore(c), NEW S \in SUBSET InFlight(c),
         \A p : IsFree(p)' <=> IsFree(p),
         \A p \in Managed : IsHeld(p)' <=> IsHeld(p) \/ p \in S,
         InFlight(c)' = InFlight(c) \ S
  PROVE  Partition'
<1>1. \A d \in Cores : InFlight(d)' = IF d = c THEN InFlight(c) \ S ELSE InFlight(d)
  BY DEF OnlyCore
<1>2. \A p \in Managed : /\ IsInFlight(p)' <=> IsInFlight(p) /\ p \notin S
                         /\ p \in S => IsInFlight(p)
  BY <1>1 DEF IsInFlight, Partition
<1>4. \A a, b \in Cores : InFlight(a)' \cap InFlight(b)' # {} => a = b
  BY <1>1 DEF Partition
<1>5. \A d \in Cores : InFlight(d)' \subseteq Managed
  BY <1>1 DEF Partition
<1> QED
  BY <1>2, <1>4, <1>5 DEF Partition

(* Where only core c steps, the other calls are as they were.               *)
LEMMA OneCoreSteps ==
  ASSUME IInv, NEW c \in Cores,
         \A d \in Cores \ {c} : pc'[d] = pc[d] /\ frame'[d] = frame[d],
         CallState(c)'
  PROVE  OnlyCore(c) /\ \A d \in Cores : CallState(d)'
<1>1. \A d \in Cores \ {c} : InFlight(d)' = InFlight(d) /\ CallState(d)'
  BY OthersUnchanged DEF IInv
<1> QED
  BY <1>1 DEF OnlyCore

----------------------------------------------------------------------------
(* The steps                                                                *)

(* A size takes a natural number of pages.                                  *)
LEMMA RoundUpIsNatural ==
  ASSUME NEW size \in Nat
  PROVE  size_to_page_count(size) \in Nat
<1>1. PICK x \in Nat : x = size + PAGE_SIZE - 1
  BY ConstantsAssumption
<1>2. x \div PAGE_SIZE \in Nat
  BY ConstantsAssumption, Division
<1> QED
  BY <1>1, <1>2 DEF size_to_page_count

(* The locals a call starts with have their types.                          *)
LEMMA FrameTyped ==
  ASSUME NEW op \in Ops, NEW size \in Nat, NEW type \in Bytes,
         NEW base \in Nat, NEW count \in Nat
  PROVE  Frame(op, size, type, base, count) \in FrameType
<1>1. 0 \in Levels
  BY LevelFacts, ConstantsAssumption DEF Levels
<1> QED
  BY <1>1 DEF Frame, FrameType

(* The locals of an idle core, page types and metadata bytes are typed.     *)
LEMMA Typing ==
  /\ NoFrame \in FrameType
  /\ PageTypes \subseteq Bytes
  /\ \A x \in Bytes : page_type(x) \in Bytes
<1>1. NoFrame \in FrameType
  BY FrameTyped DEF NoFrame, Ops, Bytes
<1> QED
  BY <1>1 DEF Bytes, PageTypes, page_type,
     PMAP_PAGE_TYPE_KERNEL_DATA, PMAP_PAGE_TYPE_KERNEL_TEXT, PMAP_PAGE_TYPE_PAGE_TABLE

(* A call that asks for nothing it would have to move pages for.            *)
LEMMA CallStep ==
  ASSUME ram_base = 0, IInv, NEW c \in Cores,
         AllocCall(c) \/ GetCall(c) \/ RequireCall(c) \/ RequireOutOfBounds(c)
  PROVE  IInv'
<1> DEFINE Good(f) ==
             /\ f \in FrameType
             /\ f.op \in {"alloc", "get", "require"}
             /\ f.op = "alloc" => f.page_type \in PageTypes /\ f.size <= MaxRequest
             /\ f.op = "get" => f.base \in Managed
           Starts(f) ==
             /\ frame' = [frame EXCEPT ![c] = f]
             /\ \E label \in {"lock", "panic"} : pc' = [pc EXCEPT ![c] = label]
<1>1. /\ pc[c] = "idle"
      /\ UNCHANGED <<lock, buddy_lists, buddy_bitmaps, metadata, held>>
  BY DEF AllocCall, GetCall, RequireCall, RequireOutOfBounds, Call
<1>2. \E f : Good(f) /\ Starts(f)
  <2>1. CASE AllocCall(c)
    <3>1. PICK size \in Sizes, type \in RequestTypes :
            size <= MaxRequest /\ Starts(Frame("alloc", size, type, 0, 0))
      BY <2>1 DEF AllocCall, Call, Goto
    <3>2. Frame("alloc", size, type, 0, 0) \in FrameType
      BY FrameTyped, Typing, ConstantsAssumption DEF Ops
    <3> QED
      BY <3>1, <3>2, ConstantsAssumption DEF Frame
  <2>2. CASE GetCall(c)
    <3>1. PICK page \in Managed : Starts(Frame("get", 0, {}, page, 0))
      BY <2>2 DEF GetCall, Call, Goto
    <3>2. Frame("get", 0, {}, page, 0) \in FrameType
      BY FrameTyped, ManagedPages DEF Ops, Bytes
    <3> QED
      BY <3>1, <3>2 DEF Frame
  <2>3. CASE RequireCall(c)
    <3>1. PICK page \in Managed, count \in CheckCounts, type \in PageTypes :
            Starts(Frame("require", 0, type, page, count))
      BY <2>3 DEF RequireCall, Call, Goto
    <3>2. Frame("require", 0, type, page, count) \in FrameType
      BY FrameTyped, Typing, ManagedPages, ConstantsAssumption DEF Ops
    <3> QED
      BY <3>1, <3>2 DEF Frame
  <2>4. CASE RequireOutOfBounds(c)
    <3>1. PICK page \in Managed, count \in CheckCounts :
            Starts(Frame("require", 0, {}, page, count))
      BY <2>4 DEF RequireOutOfBounds, Goto
    <3>2. Frame("require", 0, {}, page, count) \in FrameType
      BY FrameTyped, ManagedPages, ConstantsAssumption DEF Ops, Bytes
    <3> QED
      BY <3>1, <3>2 DEF Frame
  <2> QED
    BY <2>1, <2>2, <2>3, <2>4
<1>3. PICK f : Good(f) /\ Starts(f)
  BY <1>2
<1>4. PICK label \in {"lock", "panic"} : pc' = [pc EXCEPT ![c] = label]
  BY <1>3
<1>5. /\ frame' = [frame EXCEPT ![c] = f]
      /\ f \in FrameType
      /\ f.op \in {"alloc", "get", "require"}
      /\ f.op = "alloc" => f.page_type \in PageTypes /\ f.size <= MaxRequest
      /\ f.op = "get" => f.base \in Managed
  BY <1>3
<1> HIDE DEF Good, Starts
<1>6. CallsTyped'
  BY <1>1, <1>4, <1>5 DEF IInv, CallsTyped, Labels
<1>7. /\ pc'[c] = label /\ frame'[c] = f
      /\ \A d \in Cores \ {c} : pc'[d] = pc[d] /\ frame'[d] = frame[d]
  BY <1>4, <1>5 DEF IInv, CallsTyped
<1>8. CallState(c)'
  BY <1>4, <1>5, <1>7 DEF CallState
<1>9. InFlight(c) = {} /\ InFlight(c)' = {}
  BY <1>1, <1>4, <1>5, <1>7 DEF InFlight, Result, Growing, Remaining
<1>10. StoreTyped' /\ StoreInv' /\ \A p : IsFree(p)' <=> IsFree(p)
  BY <1>1, StoreUnchanged DEF IInv, StoreTyped
<1>11. OnlyCore(c) /\ \A d \in Cores : CallState(d)'
  BY <1>7, <1>8, OneCoreSteps
<1>12. Partition'
  BY <1>1, <1>9, <1>10, <1>11, NothingMoves DEF IInv
<1> QED
  BY <1>6, <1>10, <1>11, <1>12 DEF IInv

(* A caller gives back pages: they are in its call from then on.            *)
LEMMA FreeCallStep ==
  ASSUME ram_base = 0, IInv, NEW c \in Cores, FreeCall(c)
  PROVE  IInv'
<1>1. PICK base \in Managed, size \in Sizes :
        LET count == size_to_page_count(size)
        IN  /\ Pages(base, count) \subseteq Managed
            /\ \A p \in Pages(base, count) : held[p] # NotHeld
            /\ Call(c, Frame("free", size, {}, base, count))
            /\ held' = [ p \in Managed |->
                           IF p \in Pages(base, count) THEN NotHeld ELSE held[p] ]
            /\ UNCHANGED <<lock, buddy_lists, buddy_bitmaps, metadata>>
  BY DEF FreeCall
<1> DEFINE count == size_to_page_count(size)
           f == Frame("free", size, {}, base, count)
<1>2. count \in Nat /\ base \in Nat /\ size \in Nat
  BY RoundUpIsNatural, ManagedPages, ConstantsAssumption
<1>3. f \in FrameType /\ f.base = base /\ f.count = count /\ f.op = "free"
      /\ f.free_i = base /\ f.limit = base + count /\ f.page_i = base /\ f.level_i = 0
  <2> HIDE DEF count
  <2>1. f \in FrameType
    BY <1>2, FrameTyped DEF Ops, Bytes
  <2> QED
    BY <2>1 DEF Frame
<1>4. /\ pc[c] = "idle" /\ pc' = [pc EXCEPT ![c] = "lock"]
      /\ frame' = [frame EXCEPT ![c] = f]
      /\ UNCHANGED <<buddy_lists, buddy_bitmaps, metadata>>
  BY <1>1 DEF Call, Goto
<1>5. Pages(base, count) \subseteq Managed /\ \A p \in Pages(base, count) : held[p] # NotHeld
  BY <1>1
<1>6. held' = [ p \in Managed |-> IF p \in Pages(base, count) THEN NotHeld ELSE held[p] ]
  BY <1>1
<1> HIDE DEF f, count
<1>7. pc'[c] = "lock" /\ frame'[c] = f
      /\ \A d \in Cores \ {c} : pc'[d] = pc[d] /\ frame'[d] = frame[d]
  BY <1>4 DEF IInv, CallsTyped
<1>8. CallsTyped'
  BY <1>3, <1>4, <1>6 DEF IInv, CallsTyped, Labels
<1>9. CallState(c)'
  BY <1>3, <1>7 DEF CallState
<1>10. InFlight(c) = {} /\ InFlight(c)' = Pages(base, count)
  BY <1>3, <1>4, <1>7 DEF InFlight, Result, Growing, Remaining
<1>11. StoreTyped' /\ StoreInv' /\ \A p : IsFree(p)' <=> IsFree(p)
  BY <1>4, StoreUnchanged DEF IInv, StoreTyped
<1>12. OnlyCore(c) /\ \A d \in Cores : CallState(d)'
  BY <1>7, <1>9, OneCoreSteps
<1>13. \A p \in Managed : IsHeld(p)' <=> IsHeld(p) /\ p \notin Pages(base, count)
  BY <1>6 DEF IsHeld
<1>14. Partition'
  BY <1>5, <1>10, <1>11, <1>12, <1>13, TakesHeld DEF IInv, IsHeld
<1> QED
  BY <1>8, <1>11, <1>12, <1>14 DEF IInv

(* A call gets the lock: it has the pages it had.                           *)
LEMMA LockAcquireStep ==
  ASSUME ram_base = 0, IInv, NEW c \in Cores, LockAcquire(c)
  PROVE  IInv'
<1> DEFINE f == frame[c]
<1>1. /\ pc[c] = "lock"
      /\ UNCHANGED <<buddy_lists, buddy_bitmaps, metadata, held, frame>>
      /\ f \in FrameType /\ CallState(c)
  BY DEF LockAcquire, IInv, CallsTyped
<1>2. f.op \in {"alloc", "free", "get", "require"}
  BY <1>1 DEF CallState
<1>3. PICK label : /\ pc' = [pc EXCEPT ![c] = label]
                   /\ f.op = "alloc" => label = "search"
                   /\ f.op = "get" => label = "get"
                   /\ f.op = "require" => label = "require"
                   /\ f.op = "free" => label = IF f.count > 0 THEN "merge" ELSE "unlock"
  BY DEF LockAcquire, Goto
<1>4. label \in {"search", "get", "require", "merge", "unlock"}
  BY <1>2, <1>3
<1>5. CallsTyped'
  BY <1>1, <1>3, <1>4 DEF IInv, CallsTyped, Labels, Holding
<1>6. /\ pc'[c] = label /\ frame'[c] = f
      /\ \A d \in Cores \ {c} : pc'[d] = pc[d] /\ frame'[d] = frame[d]
  BY <1>1, <1>3 DEF IInv, CallsTyped
<1>7. ASSUME f.op = "free", f.count > 0
      PROVE  CallState(c)' /\ InFlight(c)' = InFlight(c)
  <2>1. /\ f.base \in Nat /\ f.free_i = f.base /\ f.limit = f.base + f.count
        /\ f.page_i = f.base /\ f.level_i = 0 /\ f.count \in Nat
    BY <1>1, <1>7, ManagedPages DEF CallState, FrameType
  <2>2. pc'[c] = "merge"
    BY <1>3, <1>6, <1>7
  <2>3. Growing(c)' = f.base .. f.base
    <3>1. Growing(c)' = Block(f.page_i, f.level_i)
      BY <1>6, <2>2 DEF Growing
    <3>2. buddy_level_page_count(0) = 1
      BY PageCountAssumption
    <3> HIDE DEF f
    <3> QED
      BY <2>1, <3>1, <3>2 DEF Block, Pages
  <2>4. Remaining(c)' = f.free_i + 1 .. f.limit - 1
    BY <1>6, <2>2 DEF Remaining
  <2>5. Result(c)' = {} /\ Result(c) = Pages(f.base, f.count)
        /\ Growing(c) = {} /\ Remaining(c) = {}
    BY <1>1, <1>6, <1>7, <2>2 DEF Result, Growing, Remaining
  <2>6. Aligned(f.page_i, f.level_i)
    <3>1. f.base % buddy_level_page_count(0) = 0
      <4> HIDE DEF f
      <4> QED
        BY <2>1, PageCountAssumption
    <3> QED
      BY <2>1, <3>1 DEF Aligned
  <2>7. CallState(c)'
    <3>1. Growing(c)' \cap Remaining(c)' = {} /\ f.free_i < f.limit
      <4> HIDE DEF f
      <4> QED
        BY <1>7, <2>1, <2>3, <2>4
    <3>2. f.op = "free"
      BY <1>7
    <3> QED
      BY <1>6, <2>2, <2>6, <3>1, <3>2 DEF CallState
  <2>8. InFlight(c)' = InFlight(c)
    <3>1. InFlight(c)' = (f.base .. f.base) \cup (f.free_i + 1 .. f.limit - 1)
      BY <2>3, <2>4, <2>5 DEF InFlight
    <3>2. InFlight(c) = f.base .. f.base + f.count - 1
      BY <2>5 DEF InFlight, Pages
    <3> HIDE DEF f
    <3> QED
      BY <1>7, <2>1, <3>1, <3>2
  <2> QED
    BY <2>7, <2>8
<1>8. ASSUME ~ (f.op = "free" /\ f.count > 0)
      PROVE  CallState(c)' /\ InFlight(c)' = InFlight(c)
  <2>1. label \in {"search", "get", "require", "unlock"}
        /\ (label = "search" => f.op = "alloc")
        /\ (label = "get" => f.op = "get")
        /\ (label = "require" => f.op = "require")
        /\ (label = "unlock" => f.op = "free" /\ f.count = 0)
    BY <1>1, <1>2, <1>3, <1>8 DEF FrameType
  <2>2. CallState(c)'
    BY <1>1, <1>6, <2>1 DEF CallState
  <2>3. InFlight(c)' = {}
    BY <1>6, <2>1 DEF InFlight, Result, Growing, Remaining, GotPages
  <2>4. InFlight(c) = {}
    <3>1. f.op = "free" => f.count = 0 /\ f.base \in Nat
      BY <1>1, <1>8, ManagedPages DEF CallState, FrameType
    <3>2. f.op = "free" => Pages(f.base, f.count) = {}
      <4> HIDE DEF f
      <4> QED
        BY <3>1 DEF Pages
    <3> QED
      BY <1>1, <3>2 DEF InFlight, Result, Growing, Remaining
  <2> QED
    BY <2>2, <2>3, <2>4
<1>9. CallState(c)' /\ InFlight(c)' = InFlight(c)
  BY <1>7, <1>8
<1>10. StoreTyped' /\ StoreInv' /\ \A p : IsFree(p)' <=> IsFree(p)
  BY <1>1, StoreUnchanged DEF IInv, StoreTyped
<1>11. OnlyCore(c) /\ \A d \in Cores : CallState(d)'
  BY <1>6, <1>9, OneCoreSteps
<1>12. Partition'
  BY <1>1, <1>9, <1>10, <1>11, NothingMoves DEF IInv
<1> QED
  BY <1>5, <1>10, <1>11, <1>12 DEF IInv

(* A call returns; the pages of an allocation go to its caller.             *)
LEMMA UnlockStep ==
  ASSUME ram_base = 0, IInv, NEW c \in Cores, Unlock(c)
  PROVE  IInv'
<1>1. /\ pc[c] = "unlock" /\ pc' = [pc EXCEPT ![c] = "idle"]
      /\ frame' = [frame EXCEPT ![c] = NoFrame]
      /\ UNCHANGED <<buddy_lists, buddy_bitmaps, metadata>>
  BY DEF Unlock, Goto
<1>2. /\ pc'[c] = "idle" /\ frame'[c] = NoFrame
      /\ \A d \in Cores \ {c} : pc'[d] = pc[d] /\ frame'[d] = frame[d]
  BY <1>1 DEF IInv, CallsTyped
<1>3. CallState(c)'
  BY <1>2 DEF CallState, NoFrame, Frame
<1>4. StoreTyped' /\ StoreInv' /\ \A p : IsFree(p)' <=> IsFree(p)
  BY <1>1, StoreUnchanged DEF IInv, StoreTyped
<1>5. OnlyCore(c) /\ \A d \in Cores : CallState(d)'
  BY <1>2, <1>3, OneCoreSteps
<1>6. InFlight(c)' = {}
  BY <1>2 DEF InFlight, Result, Growing, Remaining
<1>7. pc' \in [Cores -> Labels] /\ frame' \in [Cores -> FrameType]
  BY <1>1, Typing DEF IInv, CallsTyped, Labels
<1>8. CASE GotPages(c)
  <2> DEFINE S == Pages(frame[c].base, frame[c].count)
             type == frame[c].page_type
  <2>1. InFlight(c) = S
    BY <1>1, <1>8 DEF InFlight, Result, Growing, Remaining
  <2>2. held' = [ p \in Managed |-> IF p \in S THEN type ELSE held[p] ]
    BY <1>8 DEF Unlock, GotPages
  <2>3. type \in PageTypes
    BY <1>8 DEF IInv, CallState, GotPages
  <2> HIDE DEF S, type
  <2>4. held' \in [Managed -> PageTypes \cup {NotHeld}]
    BY <2>2, <2>3 DEF IInv, CallsTyped
  <2>5. \A p \in Managed : IsHeld(p)' <=> IsHeld(p) \/ p \in S
    BY <2>2, <2>3, ConstantsAssumption DEF IsHeld
  <2>6. Partition'
    BY <1>4, <1>5, <1>6, <2>1, <2>5, GivesHeld DEF IInv
  <2> QED
    BY <1>4, <1>5, <1>7, <2>4, <2>6 DEF IInv, CallsTyped
<1>9. CASE ~ GotPages(c)
  <2>1. InFlight(c) = {}
    BY <1>1, <1>9 DEF InFlight, Result, Growing, Remaining
  <2>2. held' = held
    BY <1>9 DEF Unlock, GotPages
  <2>3. Partition'
    BY <1>4, <1>5, <1>6, <2>1, <2>2, NothingMoves DEF IInv
  <2> QED
    BY <1>4, <1>5, <1>7, <2>2, <2>3 DEF IInv, CallsTyped
<1> QED
  BY <1>8, <1>9

(* Steps that move no page and leave the lists alone: the end of a search   *)
(* or of an insertion, metadata written and metadata read.                  *)
LEMMA QuietStep ==
  ASSUME IInv, NEW c \in Cores, NEW label \in Labels, NEW f \in FrameType,
         pc' = [pc EXCEPT ![c] = label], frame' = [frame EXCEPT ![c] = f],
         UNCHANGED <<buddy_lists, buddy_bitmaps, held>>,
         metadata' \in [0 .. page_count - 1 -> Bytes],
         CallState(c)', InFlight(c)' = InFlight(c)
  PROVE  IInv'
<1>1. CallsTyped' /\ \A d \in Cores \ {c} : pc'[d] = pc[d] /\ frame'[d] = frame[d]
  BY DEF IInv, CallsTyped
<1>2. StoreTyped' /\ StoreInv' /\ \A p : IsFree(p)' <=> IsFree(p)
  BY StoreUnchanged DEF IInv
<1>3. OnlyCore(c) /\ \A d \in Cores : CallState(d)'
  BY <1>1, OneCoreSteps
<1>4. Partition'
  BY <1>2, <1>3, NothingMoves DEF IInv
<1> QED
  BY <1>1, <1>2, <1>3, <1>4 DEF IInv

(* Metadata stays a function from offsets to bytes.                         *)
LEMMA ApplyRangeTyped ==
  ASSUME NEW mds \in [0 .. page_count - 1 -> Bytes], NEW base, NEW count,
         NEW type \in Bytes
  PROVE  ApplyRange(mds, base, count, type) \in [0 .. page_count - 1 -> Bytes]
  BY DEF ApplyRange

(* A failed search, metadata written and metadata read.                     *)
LEMMA SearchOrApplyOrReadStep ==
  ASSUME ram_base = 0, IInv, NEW c \in Cores,
         OutOfMemory(c) \/ InsertDone(c) \/ ApplyMetadata(c) \/ BootApply(c)
           \/ GetMetadata(c) \/ RequireRangeType(c) \/ RequirePanic(c)
  PROVE  IInv'
<1>0. /\ frame[c] \in FrameType /\ CallState(c)
      /\ metadata \in [0 .. page_count - 1 -> Bytes]
      /\ pc \in [Cores -> Labels] /\ frame \in [Cores -> FrameType]
  BY DEF IInv, CallsTyped, StoreTyped
<1>1. CASE OutOfMemory(c)
  <2> DEFINE f == [frame[c] EXCEPT !.base = PHYS_ADDR_INVALID]
  <2>1. /\ pc[c] = "search" /\ pc' = [pc EXCEPT ![c] = "unlock"]
        /\ frame' = [frame EXCEPT ![c] = f]
        /\ UNCHANGED <<buddy_lists, buddy_bitmaps, metadata, held>>
    BY <1>1 DEF OutOfMemory, Goto
  <2>2. /\ f \in FrameType /\ f.op = frame[c].op /\ f.page_type = frame[c].page_type
        /\ f.size = frame[c].size /\ f.base = PHYS_ADDR_INVALID
    <3>1. PHYS_ADDR_INVALID \in Int
      BY DEF PHYS_ADDR_INVALID
    <3> HIDE DEF PHYS_ADDR_INVALID
    <3> QED
      BY <1>0, <3>1 DEF FrameType
  <2> HIDE DEF f
  <2>3. pc'[c] = "unlock" /\ frame'[c] = f
    BY <1>0, <2>1
  <2>4. CallState(c)'
    BY <1>0, <2>1, <2>2, <2>3 DEF CallState
  <2>5. InFlight(c)' = InFlight(c)
    BY <2>1, <2>2, <2>3 DEF InFlight, Result, Growing, Remaining, GotPages
  <2> QED
    BY <1>0, <2>1, <2>2, <2>4, <2>5, QuietStep DEF Labels, Holding
<1>2. CASE InsertDone(c)
  <2>1. PICK label \in {"apply", "boot_apply"} :
          /\ pc' = [pc EXCEPT ![c] = label]
          /\ label = "apply" <=> pc[c] = "insert"
    BY <1>2 DEF InsertDone, Goto
  <2>2. /\ pc[c] \in {"boot_insert", "insert"} /\ frame[c].free_i >= frame[c].limit
        /\ UNCHANGED <<buddy_lists, buddy_bitmaps, metadata, held, frame>>
    BY <1>2 DEF InsertDone
  <2>3. pc'[c] = label /\ frame'[c] = frame[c] /\ frame' = [frame EXCEPT ![c] = frame[c]]
    BY <1>0, <2>1, <2>2
  <2>4. CallState(c)'
    BY <1>0, <2>1, <2>2, <2>3 DEF CallState
  <2>5. Remaining(c) = {}
    <3>1. PICK i \in Nat, n \in Nat : i = frame[c].free_i /\ n = frame[c].limit
      BY <1>0 DEF FrameType
    <3>2. i .. n - 1 = {}
      BY <2>2, <3>1
    <3> QED
      BY <2>2, <3>1, <3>2 DEF Remaining
  <2>6. InFlight(c)' = InFlight(c)
    BY <2>1, <2>2, <2>3, <2>5 DEF InFlight, Result, Growing, Remaining
  <2> QED
    BY <1>0, <2>1, <2>2, <2>3, <2>4, <2>6, QuietStep DEF Labels, Holding
<1>3. CASE ApplyMetadata(c)
  <2>1. /\ pc[c] = "apply" /\ pc' = [pc EXCEPT ![c] = "unlock"]
        /\ UNCHANGED <<buddy_lists, buddy_bitmaps, held, frame>>
        /\ metadata' = ApplyRange(metadata, frame[c].base, frame[c].count, frame[c].page_type)
    BY <1>3 DEF ApplyMetadata, Goto
  <2>2. pc'[c] = "unlock" /\ frame'[c] = frame[c] /\ frame' = [frame EXCEPT ![c] = frame[c]]
    BY <1>0, <2>1
  <2>3. metadata' \in [0 .. page_count - 1 -> Bytes]
    BY <1>0, <2>1, ApplyRangeTyped DEF FrameType
  <2>4. CallState(c)'
    BY <1>0, <2>1, <2>2 DEF CallState
  <2>5. InFlight(c)' = InFlight(c)
    <3>1. frame[c].op = "alloc" /\ frame[c].base # PHYS_ADDR_INVALID
      BY <1>0, <2>1, ManagedPages DEF CallState, PHYS_ADDR_INVALID
    <3> QED
      BY <2>1, <2>2, <3>1 DEF InFlight, Result, Growing, Remaining, GotPages
  <2> QED
    BY <1>0, <2>1, <2>2, <2>3, <2>4, <2>5, QuietStep DEF Labels, Holding
<1>4. CASE BootApply(c)
  <2>1. /\ pc[c] = "boot_apply" /\ pc' = [pc EXCEPT ![c] = "idle"]
        /\ frame' = [frame EXCEPT ![c] = NoFrame]
        /\ UNCHANGED <<buddy_lists, buddy_bitmaps, held>>
    BY <1>4 DEF BootApply, Goto
  <2>2. pc'[c] = "idle" /\ frame'[c] = NoFrame
    BY <1>0, <2>1
  <2>3. metadata' \in [0 .. page_count - 1 -> Bytes]
    <3> DEFINE After(mds, i) == ApplyRange(mds, BootRanges[i].base, BootRanges[i].count,
                                           BootRanges[i].type)
    <3>1. metadata' = After(After(After(metadata, 1), 2), 3)
      BY <1>4 DEF BootApply
    <3>2. \A i \in 1 .. 3 : BootRanges[i].type \in Bytes
      BY Typing DEF BootRanges, PageTypes
    <3>3. ASSUME NEW mds \in [0 .. page_count - 1 -> Bytes], NEW i \in 1 .. 3
          PROVE  After(mds, i) \in [0 .. page_count - 1 -> Bytes]
      BY <3>2, ApplyRangeTyped
    <3> HIDE DEF After
    <3> QED
      BY <1>0, <3>1, <3>3
  <2>4. CallState(c)'
    BY <2>2 DEF CallState, NoFrame, Frame
  <2>5. InFlight(c)' = InFlight(c)
    BY <2>1, <2>2 DEF InFlight, Result, Growing, Remaining
  <2> QED
    BY <2>1, <2>3, <2>4, <2>5, Typing, QuietStep DEF Labels
<1>5. CASE GetMetadata(c)
  <2> DEFINE type == mds_get_metadata_locked(frame[c].base)
             f == [frame[c] EXCEPT !.page_type = type]
  <2>1. /\ pc[c] = "get" /\ pc' = [pc EXCEPT ![c] = "unlock"]
        /\ frame' = [frame EXCEPT ![c] = f]
        /\ UNCHANGED <<buddy_lists, buddy_bitmaps, metadata, held>>
        /\ frame[c].base \in Managed
    BY <1>5, <1>0, ManagedPages DEF GetMetadata, Goto, FrameType
  <2>2. type \in Bytes
    BY <1>0, <2>1, ManagedPages, Typing DEF mds_get_metadata_locked
  <2>3. frame[c].op # "alloc"
    BY <1>0, <2>1 DEF CallState
  <2>4. f \in FrameType /\ f.op = frame[c].op /\ f.base = frame[c].base
    <3> HIDE DEF type
    <3> QED
      BY <1>0, <2>2 DEF FrameType
  <2> HIDE DEF f
  <2>5. pc'[c] = "unlock" /\ frame'[c] = f
    BY <1>0, <2>1
  <2>6. CallState(c)'
    BY <1>0, <2>1, <2>3, <2>4, <2>5 DEF CallState
  <2>7. InFlight(c)' = InFlight(c)
    BY <2>1, <2>3, <2>4, <2>5 DEF InFlight, Result, Growing, Remaining, GotPages
  <2> QED
    BY <1>0, <2>1, <2>4, <2>6, <2>7, QuietStep DEF Labels, Holding
<1>6. CASE RequireRangeType(c) \/ RequirePanic(c)
  <2>1. PICK label \in {"unlock", "panic_locked"} : pc' = [pc EXCEPT ![c] = label]
    BY <1>6 DEF RequireRangeType, RequirePanic, Goto
  <2>2. /\ pc[c] = "require"
        /\ UNCHANGED <<buddy_lists, buddy_bitmaps, metadata, held, frame>>
    BY <1>6 DEF RequireRangeType, RequirePanic
  <2>3. pc'[c] = label /\ frame'[c] = frame[c] /\ frame' = [frame EXCEPT ![c] = frame[c]]
    BY <1>0, <2>1, <2>2
  <2>4. frame[c].op = "require"
    BY <1>0, <2>2 DEF CallState
  <2>5. CallState(c)'
    BY <1>0, <2>1, <2>2, <2>3, <2>4 DEF CallState
  <2>6. InFlight(c)' = InFlight(c)
    BY <2>1, <2>2, <2>3, <2>4 DEF InFlight, Result, Growing, Remaining, GotPages
  <2> QED
    BY <1>0, <2>1, <2>2, <2>3, <2>5, <2>6, QuietStep DEF Labels, Holding
<1> QED
  BY <1>1, <1>2, <1>3, <1>4, <1>5, <1>6

(* An allocation takes the first block of the lowest list that has one: its *)
(* pages are the request's and what is left over.                           *)
LEMMA TakeBlockStep ==
  ASSUME ram_base = 0, IInv, NEW c \in Cores, TakeBlock(c)
  PROVE  IInv'
<1> DEFINE level == Min(Candidates(frame[c].size))
           page  == Head(buddy_lists[level])
           count == size_to_page_count(frame[c].size)
           f == [frame[c] EXCEPT !.base = page, !.count = count, !.free_i = page + count,
                                 !.limit = page + buddy_level_page_count(level)]
<1>0. /\ frame[c] \in FrameType /\ CallState(c)
      /\ pc \in [Cores -> Labels] /\ frame \in [Cores -> FrameType]
  BY DEF IInv, CallsTyped
<1>1. /\ pc[c] = "search" /\ pc' = [pc EXCEPT ![c] = "insert"]
      /\ frame' = [frame EXCEPT ![c] = f]
      /\ UNCHANGED held
      /\ list_remove(level, page)
      /\ buddy_bitmap_set_bit_locked(page, level, BUDDY_BIT_ALLCOATED)
      /\ Candidates(frame[c].size) # {}
  BY DEF TakeBlock, Goto
<1>2. /\ frame[c].op = "alloc" /\ frame[c].size \in Nat /\ frame[c].size <= MaxRequest
      /\ frame[c].page_type \in PageTypes
  BY <1>0, <1>1 DEF CallState, FrameType
<1>3. /\ level \in Levels /\ buddy_lists[level] # << >>
      /\ min_buddy_level_for_size(frame[c].size) <= level
  <2>1. min_buddy_level_for_size(frame[c].size) \in Nat
    BY <1>2, SearchLevelIsLevel, LevelFacts
  <2>2. /\ Candidates(frame[c].size) \in SUBSET Levels
        /\ \A l \in Candidates(frame[c].size) :
             min_buddy_level_for_size(frame[c].size) <= l /\ buddy_lists[l] # << >>
    BY <2>1, LevelFacts DEF Candidates
  <2>3. level \in Candidates(frame[c].size)
    BY <1>1, <2>2, MinIsLeast, LevelFacts
  <2> QED
    BY <2>2, <2>3
<1>4. page \in FreeBlocks(level) /\ page \in Managed /\ page \in Nat
  <2>1. buddy_lists[level] \in Seq(Managed)
    BY <1>3 DEF IInv, StoreTyped
  <2>2. page \in Managed /\ page \in ToSet(buddy_lists[level])
    BY <1>3, <2>1, HeadIsIn
  <2> QED
    BY <2>2, ManagedPages DEF FreeBlocks
<1>5. count \in Nat /\ count <= buddy_level_page_count(level)
  BY <1>2, <1>3, SearchLevelHolds
<1>6. buddy_level_page_count(level) \in Nat \ {0}
  BY <1>3, PageCountType
<1>7. Aligned(page, level) /\ Block(page, level) \subseteq Managed
  BY <1>3, <1>4 DEF IInv, StoreInv
<1>8. /\ StoreTyped' /\ StoreInv'
      /\ \A p : IsFree(p)' <=> IsFree(p) /\ p \notin Block(page, level)
  BY <1>1, <1>3, <1>4, DropBlock DEF IInv
<1>9. \A p \in Block(page, level) : IsFree(p)
  BY <1>3, <1>4 DEF IsFree
<1> HIDE DEF level, page, count
<1>10. /\ f \in FrameType /\ f.op = "alloc" /\ f.size = frame[c].size
       /\ f.page_type = frame[c].page_type /\ f.base = page /\ f.count = count
       /\ f.free_i = page + count /\ f.limit = page + buddy_level_page_count(level)
  <2> DEFINE n == buddy_level_page_count(level)
             f1 == [frame[c] EXCEPT !.base = page]
             f2 == [f1 EXCEPT !.count = count]
             f3 == [f2 EXCEPT !.free_i = page + count]
             f4 == [f3 EXCEPT !.limit = page + n]
  <2>0. f = f4
    OBVIOUS
  <2> HIDE DEF f, n
  <2>1. /\ f1 \in FrameType /\ f1.op = "alloc" /\ f1.size = frame[c].size
        /\ f1.page_type = frame[c].page_type /\ f1.base = page
    BY <1>0, <1>2, <1>4 DEF FrameType
  <2> HIDE DEF f1
  <2>2. /\ f2 \in FrameType /\ f2.op = "alloc" /\ f2.size = frame[c].size
        /\ f2.page_type = frame[c].page_type /\ f2.base = page /\ f2.count = count
    BY <2>1, <1>5 DEF FrameType
  <2> HIDE DEF f2
  <2>3. /\ f3 \in FrameType /\ f3.op = "alloc" /\ f3.size = frame[c].size
        /\ f3.page_type = frame[c].page_type /\ f3.base = page /\ f3.count = count
        /\ f3.free_i = page + count
    BY <2>2, <1>4, <1>5 DEF FrameType
  <2> HIDE DEF f3
  <2>4. /\ f4 \in FrameType /\ f4.op = "alloc" /\ f4.size = frame[c].size
        /\ f4.page_type = frame[c].page_type /\ f4.base = page /\ f4.count = count
        /\ f4.free_i = page + count /\ f4.limit = page + n
    <3>1. page + n \in Nat
      BY <1>4, <1>6 DEF n
    <3> QED
      BY <2>3, <3>1 DEF FrameType
  <2> QED
    BY <2>0, <2>4 DEF n
<1> HIDE DEF f
<1>11. /\ pc'[c] = "insert" /\ frame'[c] = f
       /\ \A d \in Cores \ {c} : pc'[d] = pc[d] /\ frame'[d] = frame[d]
  BY <1>0, <1>1
<1>12. CallsTyped'
  BY <1>0, <1>1, <1>10 DEF IInv, CallsTyped, Labels, Holding
<1>13. page + count <= page_count
  <2>1. page + buddy_level_page_count(level) - 1 \in Block(page, level)
    BY <1>4, <1>6 DEF Block, Pages
  <2> QED
    BY <1>4, <1>5, <1>6, <1>7, <2>1, ManagedPages
<1>14. CallState(c)'
  <2>1. f.base + f.count <= f.free_i /\ f.base + f.count <= page_count /\ f.base \in Managed
    BY <1>4, <1>5, <1>10, <1>13
  <2>2. f.op = "alloc" /\ f.page_type \in PageTypes /\ f.size <= MaxRequest
    BY <1>2, <1>10
  <2> QED
    BY <1>11, <2>1, <2>2 DEF CallState
<1>15. InFlight(c) = {}
  BY <1>1 DEF InFlight, Result, Growing, Remaining
<1>16. InFlight(c)' = Block(page, level)
  <2>1. InFlight(c)' = Pages(page, count) \cup
                       (page + count .. page + buddy_level_page_count(level) - 1)
    <3>1. Result(c)' = Pages(page, count) /\ Growing(c)' = {}
      BY <1>10, <1>11 DEF Result, Growing
    <3>2. Remaining(c)' = f.free_i .. f.limit - 1
      BY <1>11 DEF Remaining
    <3>3. Remaining(c)' = page + count .. page + buddy_level_page_count(level) - 1
      BY <1>4, <1>5, <1>6, <1>10, <3>2
    <3> QED
      BY <3>1, <3>3 DEF InFlight
  <2> QED
    BY <1>4, <1>5, <1>6, <2>1 DEF Block, Pages
<1>17. OnlyCore(c) /\ \A d \in Cores : CallState(d)'
  BY <1>11, <1>14, OneCoreSteps
<1>18. Partition'
  BY <1>1, <1>7, <1>8, <1>9, <1>15, <1>16, <1>17, TakesFree DEF IInv
<1> QED
  BY <1>8, <1>12, <1>17, <1>18 DEF IInv

(* The first block of the range that is left goes on its list.              *)
LEMMA InsertRangeStep ==
  ASSUME ram_base = 0, IInv, NEW c \in Cores, InsertRange(c)
  PROVE  IInv'
<1> DEFINE level == InsertLevel(frame[c])
           page == frame[c].free_i
           n == buddy_level_page_count(level)
           f == [frame[c] EXCEPT !.free_i = page + n]
<1>0. /\ frame[c] \in FrameType /\ CallState(c)
      /\ pc \in [Cores -> Labels] /\ frame \in [Cores -> FrameType]
      /\ page \in Nat /\ frame[c].limit \in Nat
      /\ frame[c].base \in Int /\ frame[c].count \in Nat
  BY DEF IInv, CallsTyped, FrameType
<1>1. /\ pc[c] \in {"boot_insert", "insert"}
      /\ page < frame[c].limit
      /\ n <= frame[c].limit - page
      /\ list_push_front(level, page)
      /\ buddy_bitmap_set_bit_locked(page, level, BUDDY_BIT_FREE)
      /\ frame' = [frame EXCEPT ![c] = f]
      /\ UNCHANGED <<lock, held, pc>>
  BY <1>0 DEF InsertRange, InsertFits
<1>2. level \in Levels /\ Aligned(page, level) /\ n \in Nat \ {0}
  BY <1>0, <1>1, InsertLevelFits, PageCountType
<1>3. Block(page, level) = page .. page + n - 1
  BY DEF Block, Pages
<1> HIDE DEF level, n
<1>4. Remaining(c) = page .. frame[c].limit - 1
  BY <1>1 DEF Remaining
<1>5. Block(page, level) \subseteq InFlight(c) /\ InFlight(c) \subseteq Managed
  <2>1. page .. page + n - 1 \subseteq page .. frame[c].limit - 1
    BY <1>0, <1>1, <1>2
  <2> QED
    BY <1>3, <1>4, <2>1 DEF InFlight, IInv, Partition
<1>6. page \in Managed
  BY <1>0, <1>2, <1>5, PageInItsBlock
<1>7. \A p \in Block(page, level) : ~ IsFree(p)
  BY <1>5 DEF IInv, Partition, IsInFlight
<1>8. /\ StoreTyped' /\ StoreInv'
      /\ \A p : IsFree(p)' <=> IsFree(p) \/ p \in Block(page, level)
  BY <1>1, <1>2, <1>5, <1>6, <1>7, AddBlock DEF IInv
<1>9. /\ f \in FrameType /\ f.op = frame[c].op /\ f.size = frame[c].size
      /\ f.page_type = frame[c].page_type /\ f.base = frame[c].base
      /\ f.count = frame[c].count /\ f.limit = frame[c].limit /\ f.free_i = page + n
  <2>1. page + n \in Nat
    BY <1>0, <1>2
  <2> QED
    BY <1>0, <2>1 DEF FrameType
<1> HIDE DEF f
<1>10. /\ pc'[c] = pc[c] /\ frame'[c] = f
       /\ \A d \in Cores \ {c} : pc'[d] = pc[d] /\ frame'[d] = frame[d]
  BY <1>0, <1>1
<1>11. CallsTyped'
  BY <1>0, <1>1, <1>9 DEF IInv, CallsTyped
<1>12. pc[c] = "insert" =>
         /\ frame[c].base \in Managed /\ frame[c].base + frame[c].count <= page_count
         /\ frame[c].base + frame[c].count <= page
  BY <1>0 DEF CallState
<1>13. CallState(c)'
  <2>1. pc[c] = "insert" => f.base + f.count <= f.free_i
    <3>1. pc[c] = "insert" => frame[c].base + frame[c].count <= page + n
      BY <1>0, <1>2, <1>12
    <3> QED
      BY <1>9, <3>1
  <2> QED
    BY <1>0, <1>1, <1>9, <1>10, <1>12, <2>1 DEF CallState
<1>14. InFlight(c)' = InFlight(c) \ Block(page, level)
  <2>1. Remaining(c)' = page + n .. frame[c].limit - 1
    BY <1>1, <1>9, <1>10 DEF Remaining
  <2>2. Growing(c) = {} /\ Growing(c)' = {}
    BY <1>1, <1>10 DEF Growing
  <2>3. /\ Result(c)' = Result(c)
        /\ Result(c) = IF pc[c] = "insert" THEN Pages(frame[c].base, frame[c].count) ELSE {}
    BY <1>1, <1>9, <1>10 DEF Result
  <2>4. Result(c) \cap Block(page, level) = {}
    <3>1. CASE pc[c] = "insert"
      BY <1>0, <1>2, <1>3, <1>12, <2>3, <3>1 DEF Pages
    <3> QED
      BY <2>3, <3>1
  <2>5. (page .. frame[c].limit - 1) \ (page .. page + n - 1) = page + n .. frame[c].limit - 1
    BY <1>0, <1>1, <1>2
  <2>6. InFlight(c) = Result(c) \cup (page .. frame[c].limit - 1)
        /\ InFlight(c)' = Result(c) \cup (page + n .. frame[c].limit - 1)
    BY <1>4, <2>1, <2>2, <2>3 DEF InFlight
  <2> QED
    BY <1>3, <2>4, <2>5, <2>6
<1>15. OnlyCore(c) /\ \A d \in Cores : CallState(d)'
  BY <1>10, <1>13, OneCoreSteps
<1>16. Partition'
  BY <1>1, <1>5, <1>8, <1>14, <1>15, GivesFree DEF IInv
<1> QED
  BY <1>8, <1>11, <1>15, <1>16 DEF IInv

(* A buddy whose bit says it is free is on the list of its level.           *)
LEMMA FreeBuddy ==
  ASSUME ram_base = 0, IInv, NEW c \in Cores, pc[c] = "merge", CanMerge(c)
  PROVE  LET l == frame[c].level_i
         IN  /\ l \in Levels /\ l # TOP /\ l + 1 \in Levels
             /\ BuddyOf(c) \in FreeBlocks(l) /\ BuddyOf(c) \in Managed
<1> DEFINE l == frame[c].level_i
           page == frame[c].page_i
           buddy == get_buddy_page_id_for_page(page, l)
<1>1. l \in Levels /\ page \in Nat /\ Aligned(page, l)
  BY DEF IInv, CallsTyped, FrameType, CallState
<1>2. l # TOP /\ l + 1 \in Levels
  <2>1. l < TOP
    BY Zenon DEF CanMerge
  <2>2. TOP \in Int /\ \A k \in Levels : k \in Nat
    BY LevelFacts
  <2> HIDE DEF l
  <2> QED
    BY <1>1, <2>1, <2>2, LevelFacts
<1>3. buddy \in Nat /\ Aligned(buddy, l)
  BY <1>1, <1>2, BuddyAndRoot
<1>4. PICK b \in FreeBlocks(l) : buddy_bitmap_slot(b, l) = buddy_bitmap_slot(buddy, l)
  <2>1. buddy_bitmap_slot(buddy, l) \in buddy_bitmaps[l]
    BY DEF CanMerge, BuddyOf, buddy_bitmap_get_bit_locked
  <2> QED
    BY <1>1, <1>2, <2>1 DEF IInv, StoreInv, BitmapMatchesLists
<1>5. b \in Managed /\ b \in Nat /\ Aligned(b, l)
  BY <1>1, ManagedPages DEF IInv, StoreInv, StoreTyped, FreeBlocks, ToSet
<1>6. b = buddy
  BY <1>1, <1>3, <1>4, <1>5, SlotsDiffer, ManagedPages
<1> QED
  BY <1>1, <1>2, <1>4, <1>5, <1>6 DEF BuddyOf

(* A block that is being freed and its free buddy become one.               *)
LEMMA MergeUpStep ==
  ASSUME ram_base = 0, IInv, NEW c \in Cores, MergeUp(c)
  PROVE  IInv'
<1> DEFINE l == frame[c].level_i
           page == frame[c].page_i
           buddy == get_buddy_page_id_for_page(page, l)
           root == get_root_buddy_page_id_for_page(page, l)
           f == [frame[c] EXCEPT !.page_i = root, !.level_i = l + 1]
<1>0. /\ frame[c] \in FrameType /\ CallState(c)
      /\ pc \in [Cores -> Labels] /\ frame \in [Cores -> FrameType]
      /\ page \in Nat /\ l \in Levels
  BY DEF IInv, CallsTyped, FrameType
<1>1. /\ pc[c] = "merge" /\ CanMerge(c) /\ IsManaged(buddy)
      /\ buddy_bitmap_set_bit_locked(buddy, l, BUDDY_BIT_ALLCOATED)
      /\ list_remove(l, buddy)
      /\ UNCHANGED <<lock, held, pc>>
  BY DEF MergeUp, BuddyOf
<1>2. frame' = [frame EXCEPT ![c] = f]
  BY <1>0 DEF MergeUp
<1>3. l # TOP /\ l + 1 \in Levels /\ buddy \in FreeBlocks(l)
  BY <1>1, FreeBuddy DEF BuddyOf
<1>4. Aligned(page, l) /\ Growing(c) = Block(page, l) /\ Growing(c) \cap Remaining(c) = {}
      /\ frame[c].op = "free" /\ frame[c].free_i < frame[c].limit
      /\ Remaining(c) = frame[c].free_i + 1 .. frame[c].limit - 1
      /\ Result(c) = {}
  BY <1>0, <1>1 DEF CallState, Growing, Remaining, Result
<1>5. /\ buddy \in Nat /\ Aligned(buddy, l)
      /\ root \in Nat /\ Aligned(root, l + 1)
      /\ Block(root, l + 1) = Block(page, l) \cup Block(buddy, l)
  BY <1>0, <1>3, <1>4, BuddyAndRoot
<1>6. /\ StoreTyped' /\ StoreInv'
      /\ \A p : IsFree(p)' <=> IsFree(p) /\ p \notin Block(buddy, l)
  BY <1>0, <1>1, <1>3, DropBlock DEF IInv
<1>7. /\ \A p \in Block(buddy, l) : IsFree(p)
      /\ Block(buddy, l) \subseteq Managed
  BY <1>0, <1>3 DEF IsFree, IInv, StoreInv
<1> HIDE DEF l, page, buddy, root
<1>8. /\ f \in FrameType /\ f.op = "free" /\ f.free_i = frame[c].free_i
      /\ f.limit = frame[c].limit /\ f.page_i = root /\ f.level_i = l + 1
  <2> DEFINE f1 == [frame[c] EXCEPT !.page_i = root]
             f2 == [f1 EXCEPT !.level_i = l + 1]
  <2>0. f = f2
    OBVIOUS
  <2> HIDE DEF f
  <2>1. /\ f1 \in FrameType /\ f1.op = "free" /\ f1.free_i = frame[c].free_i
        /\ f1.limit = frame[c].limit /\ f1.page_i = root
    BY <1>0, <1>4, <1>5 DEF FrameType
  <2> HIDE DEF f1
  <2> QED
    BY <2>0, <2>1, <1>3 DEF FrameType
<1> HIDE DEF f
<1>9. /\ pc'[c] = "merge" /\ frame'[c] = f
       /\ \A d \in Cores \ {c} : pc'[d] = pc[d] /\ frame'[d] = frame[d]
  BY <1>0, <1>1, <1>2
<1>10. CallsTyped'
  BY <1>0, <1>1, <1>2, <1>8 DEF IInv, CallsTyped
<1>11. Growing(c)' = Growing(c) \cup Block(buddy, l)
  <2>1. Growing(c)' = Block(root, l + 1)
    BY <1>8, <1>9 DEF Growing
  <2> QED
    BY <1>4, <1>5, <2>1
<1>12. Remaining(c)' = Remaining(c) /\ Result(c)' = {}
  BY <1>4, <1>8, <1>9 DEF Remaining, Result
<1>13. Remaining(c) \cap Block(buddy, l) = {}
  <2>1. \A p \in Remaining(c) : p \in Managed /\ IsInFlight(p)
    BY DEF IInv, Partition, InFlight, IsInFlight
  <2> QED
    BY <1>7, <2>1 DEF IInv, Partition
<1>14. CallState(c)'
  <2>1. Growing(c)' \cap Remaining(c)' = {}
    BY <1>4, <1>11, <1>12, <1>13
  <2>2. Aligned(f.page_i, f.level_i) /\ f.free_i < f.limit
    BY <1>4, <1>5, <1>8
  <2> QED
    BY <1>8, <1>9, <2>1, <2>2 DEF CallState
<1>15. InFlight(c)' = InFlight(c) \cup Block(buddy, l)
  BY <1>4, <1>11, <1>12 DEF InFlight
<1>16. OnlyCore(c) /\ \A d \in Cores : CallState(d)'
  BY <1>9, <1>14, OneCoreSteps
<1>17. Partition'
  BY <1>1, <1>6, <1>7, <1>15, <1>16, TakesFree DEF IInv
<1> QED
  BY <1>6, <1>10, <1>16, <1>17 DEF IInv

(* The block a page has grown to goes on its list.                          *)
LEMMA FreePageStep ==
  ASSUME ram_base = 0, IInv, NEW c \in Cores, FreePage(c)
  PROVE  IInv'
<1> DEFINE l == frame[c].level_i
           page == frame[c].page_i
           i == frame[c].free_i
           f == [frame[c] EXCEPT !.free_i = i + 1, !.page_i = i + 1, !.level_i = 0]
<1>0. /\ frame[c] \in FrameType /\ CallState(c)
      /\ pc \in [Cores -> Labels] /\ frame \in [Cores -> FrameType]
      /\ page \in Nat /\ l \in Levels /\ i \in Nat /\ frame[c].limit \in Nat
  BY DEF IInv, CallsTyped, FrameType
<1>1. /\ pc[c] = "merge" /\ IsManaged(page)
      /\ list_push_front(l, page)
      /\ buddy_bitmap_set_bit_locked(page, l, BUDDY_BIT_FREE)
      /\ frame' = [frame EXCEPT ![c] = f]
      /\ UNCHANGED <<lock, held>>
  BY <1>0 DEF FreePage
<1>2. PICK label : /\ pc' = [pc EXCEPT ![c] = label]
                   /\ label = IF i + 1 < frame[c].limit THEN "merge" ELSE "unlock"
  BY DEF FreePage, Goto
<1>3. /\ Aligned(page, l) /\ Growing(c) = Block(page, l) /\ Growing(c) \cap Remaining(c) = {}
      /\ frame[c].op = "free" /\ i < frame[c].limit
      /\ Remaining(c) = i + 1 .. frame[c].limit - 1
      /\ Result(c) = {}
  BY <1>0, <1>1 DEF CallState, Growing, Remaining, Result
<1>4. InFlight(c) = Block(page, l) \cup (i + 1 .. frame[c].limit - 1)
  BY <1>3 DEF InFlight
<1>5. /\ Block(page, l) \subseteq Managed
      /\ \A p \in Block(page, l) : ~ IsFree(p)
  BY <1>4 DEF IInv, Partition, IsInFlight
<1>6. page \in Managed
  BY <1>0, <1>1, ManagedPages
<1>7. /\ StoreTyped' /\ StoreInv'
      /\ \A p : IsFree(p)' <=> IsFree(p) \/ p \in Block(page, l)
  BY <1>0, <1>1, <1>3, <1>5, <1>6, AddBlock DEF IInv
<1> HIDE DEF l, page, i
<1>8. /\ f \in FrameType /\ f.op = "free" /\ f.free_i = i + 1
      /\ f.limit = frame[c].limit /\ f.page_i = i + 1 /\ f.level_i = 0
  <2> DEFINE f1 == [frame[c] EXCEPT !.free_i = i + 1]
             f2 == [f1 EXCEPT !.page_i = i + 1]
             f3 == [f2 EXCEPT !.level_i = 0]
  <2>0. f = f3 /\ i + 1 \in Nat /\ 0 \in Levels
    BY <1>0, LevelFacts, ConstantsAssumption DEF Levels
  <2> HIDE DEF f
  <2>1. f1 \in FrameType /\ f1.op = "free" /\ f1.free_i = i + 1 /\ f1.limit = frame[c].limit
    BY <1>0, <1>3, <2>0 DEF FrameType
  <2> HIDE DEF f1
  <2>2. /\ f2 \in FrameType /\ f2.op = "free" /\ f2.free_i = i + 1
        /\ f2.limit = frame[c].limit /\ f2.page_i = i + 1
    BY <2>0, <2>1 DEF FrameType
  <2> HIDE DEF f2
  <2> QED
    BY <2>0, <2>2 DEF FrameType
<1> HIDE DEF f
<1>9. /\ pc'[c] = label /\ frame'[c] = f
      /\ \A d \in Cores \ {c} : pc'[d] = pc[d] /\ frame'[d] = frame[d]
  BY <1>0, <1>1, <1>2
<1>10. CallsTyped'
  BY <1>0, <1>1, <1>2, <1>8 DEF IInv, CallsTyped, Labels, Holding
<1>11. CallState(c)' /\ InFlight(c)' = i + 1 .. frame[c].limit - 1
  <2>1. ASSUME i + 1 < frame[c].limit
        PROVE  CallState(c)' /\ InFlight(c)' = i + 1 .. frame[c].limit - 1
    <3>1. pc'[c] = "merge"
      BY <1>2, <1>9, <2>1
    <3>2. buddy_level_page_count(0) = 1
      BY PageCountAssumption
    <3>3. Block(i + 1, 0) = i + 1 .. i + 1
      BY <1>0, <3>2 DEF Block, Pages
    <3>4. Growing(c)' = i + 1 .. i + 1
      BY <1>8, <1>9, <3>1, <3>3 DEF Growing
    <3>5. Remaining(c)' = i + 2 .. frame[c].limit - 1 /\ Result(c)' = {}
      <4>1. (i + 1) + 1 = i + 2
        BY <1>0
      <4>2. Remaining(c)' = f.free_i + 1 .. f.limit - 1 /\ Result(c)' = {}
        BY <1>9, <3>1 DEF Remaining, Result
      <4> QED
        BY <1>8, <4>1, <4>2
    <3>6. InFlight(c)' = (i + 1 .. i + 1) \cup (i + 2 .. frame[c].limit - 1)
      BY <3>4, <3>5 DEF InFlight
    <3>7. InFlight(c)' = i + 1 .. frame[c].limit - 1
      BY <1>0, <2>1, <3>6
    <3>8. Growing(c)' \cap Remaining(c)' = {}
      BY <1>0, <3>4, <3>5
    <3>9. Aligned(f.page_i, f.level_i) /\ f.free_i < f.limit
      BY <1>0, <1>8, <2>1, <3>2 DEF Aligned
    <3> QED
      BY <1>8, <1>9, <3>1, <3>7, <3>8, <3>9 DEF CallState
  <2>2. ASSUME ~ (i + 1 < frame[c].limit)
        PROVE  CallState(c)' /\ InFlight(c)' = i + 1 .. frame[c].limit - 1
    <3>1. pc'[c] = "unlock"
      BY <1>2, <1>9, <2>2
    <3>2. CallState(c)'
      BY <1>8, <1>9, <3>1 DEF CallState
    <3>3. InFlight(c)' = {}
      BY <1>8, <1>9, <3>1 DEF InFlight, Result, Growing, Remaining, GotPages
    <3>4. i + 1 .. frame[c].limit - 1 = {}
      BY <1>0, <2>2
    <3> QED
      BY <3>2, <3>3, <3>4
  <2> QED
    BY <2>1, <2>2
<1>12. InFlight(c)' = InFlight(c) \ Block(page, l)
  BY <1>3, <1>4, <1>11
<1>13. OnlyCore(c) /\ \A d \in Cores : CallState(d)'
  BY <1>9, <1>11, OneCoreSteps
<1>14. Partition'
  BY <1>1, <1>4, <1>7, <1>12, <1>13, GivesFree DEF IInv
<1> QED
  BY <1>7, <1>10, <1>13, <1>14 DEF IInv

----------------------------------------------------------------------------
(* The beginning                                                            *)

(* All unreserved pages are the boot core's.                                *)
LEMMA AllUnreserved ==
  ASSUME ram_base = 0
  PROVE  FirstFree \in Nat /\ FreeLimit = page_count /\ FirstFree <= FreeLimit
<1>1. PICK x \in Nat : x = ram_size - bootstrap_pa_reserved + PAGE_SIZE - 1
  BY ConstantsAssumption
<1>2. /\ FirstFree = bootstrap_pa_reserved \div PAGE_SIZE
      /\ FreeLimit = FirstFree + (x \div PAGE_SIZE)
  <2>1. ram_size - 0 - bootstrap_pa_reserved + PAGE_SIZE - 1 = x
    BY <1>1, ConstantsAssumption
  <2> QED
    BY <2>1 DEF FirstFree, FreeLimit, pa_to_page_id, size_to_page_count
<1>3. /\ FirstFree \in Nat
      /\ bootstrap_pa_reserved = FirstFree * PAGE_SIZE
  BY <1>2, ConstantsAssumption, Multiple
<1>4. PICK q \in Nat, r \in 0 .. PAGE_SIZE - 1 :
        x = PAGE_SIZE * q + r /\ q = x \div PAGE_SIZE
  BY <1>1, ConstantsAssumption, Division
<1>5. page_count = ((FirstFree + q) * PAGE_SIZE + r) \div PAGE_SIZE
  <2>1. page_count = (ram_size - 0 + PAGE_SIZE - 1) \div PAGE_SIZE
    BY DEF page_count, size_to_page_count
  <2>2. ram_size - 0 + PAGE_SIZE - 1 = x + bootstrap_pa_reserved
    BY <1>1, ConstantsAssumption
  <2>3. x + bootstrap_pa_reserved = (FirstFree + q) * PAGE_SIZE + r
    BY <1>3, <1>4, ConstantsAssumption
  <2> QED
    BY <2>1, <2>2, <2>3
<1>6. page_count = FirstFree + q
  <2>1. PICK s \in Nat : s = FirstFree + q
    BY <1>3, <1>4
  <2>2. (s * PAGE_SIZE + r) \div PAGE_SIZE = s
    BY <1>4, ConstantsAssumption, DivisionUnique
  <2> QED
    BY <1>5, <2>1, <2>2
<1>7. FreeLimit = FirstFree + q
  BY <1>2, <1>4
<1> QED
  BY <1>3, <1>4, <1>6, <1>7

(* The state pmap_pfa_init starts to insert from satisfies the invariant.   *)
LEMMA InitIInv ==
  ASSUME ram_base = 0, Init
  PROVE  IInv
<1>1. StoreTyped
  <2>1. buddy_lists \in [Levels -> Seq(Managed)] /\ buddy_bitmaps \in [Levels -> SUBSET Int]
    BY DEF Init
  <2>2. PICK g \in Garbage :
          metadata = [ j \in 0 .. page_count - 1 |-> IF j < PFA_SIZE THEN {} ELSE g ]
    BY DEF Init
  <2>3. g \in Bytes /\ {} \in Bytes
    BY ConstantsAssumption DEF Bytes
  <2> QED
    BY <2>1, <2>2, <2>3 DEF StoreTyped
<1> DEFINE boot == Frame("boot", 0, {}, FirstFree, FreeLimit - FirstFree)
<1>2. boot \in FrameType
  BY AllUnreserved, ManagedPages, FrameTyped DEF Ops, Bytes
<1>3. /\ pc \in [Cores -> Labels]
      /\ \A c \in Cores : pc[c] = IF c = BootCore THEN "boot_insert" ELSE "idle"
  BY DEF Init, Labels
<1>4. /\ frame \in [Cores -> FrameType]
      /\ \A c \in Cores : frame[c] = IF c = BootCore THEN boot ELSE NoFrame
  <2> HIDE DEF boot
  <2> QED
    BY <1>2, Typing DEF Init, boot
<1>5. CallsTyped
  BY <1>3, <1>4 DEF Init, CallsTyped
<1>6. \A l \in Levels : buddy_lists[l] = << >> /\ FreeBlocks(l) = {} /\ buddy_bitmaps[l] = {}
  BY DEF Init, FreeBlocks, ToSet
<1>7. StoreInv
  <2>1. IsInjective(<< >>)
    BY DEF IsInjective
  <2> QED
    BY <1>6, <2>1 DEF StoreInv, BitmapMatchesLists
<1>8. \A c \in Cores : CallState(c)
  BY <1>3, <1>4 DEF CallState, NoFrame, Frame
<1>9. \A c \in Cores : InFlight(c) = IF c = BootCore THEN FirstFree .. page_count - 1 ELSE {}
  <2>1. boot.free_i = FirstFree /\ boot.limit = page_count
    BY AllUnreserved, ManagedPages DEF Frame
  <2> HIDE DEF boot
  <2> QED
    BY <1>3, <1>4, <2>1 DEF InFlight, Result, Growing, Remaining
<1>10. /\ \A p \in Managed : ~ IsFree(p) /\ ~ IsHeld(p)
       /\ \A p \in Managed : IsInFlight(p) <=> p >= FirstFree
       /\ \A p \in Managed : p \in Reserved <=> p < FirstFree
  <2>1. \A p \in Managed : ~ IsFree(p) /\ ~ IsHeld(p)
    BY <1>6 DEF Init, IsFree, IsHeld
  <2>2. \A p \in Managed : IsInFlight(p) <=> p >= FirstFree
    BY <1>9, ManagedPages, AllUnreserved, ConstantsAssumption DEF IsInFlight
  <2>3. \A p \in Managed : p \in Reserved <=> p < FirstFree
    BY ManagedPages, AllUnreserved DEF Reserved
  <2> QED
    BY <2>1, <2>2, <2>3
<1>11. Partition
  <2>1. \A c \in Cores : InFlight(c) \subseteq Managed
    BY <1>9, ManagedPages, AllUnreserved
  <2>2. \A c, d \in Cores : InFlight(c) \cap InFlight(d) # {} => c = d
    BY <1>9
  <2>3. \A p \in Managed : p < FirstFree \/ p >= FirstFree
    BY ManagedPages, AllUnreserved
  <2>4. \A p \in Managed : ~ (p < FirstFree /\ p >= FirstFree)
    BY ManagedPages, AllUnreserved
  <2> QED
    BY <1>10, <2>1, <2>2, <2>3, <2>4 DEF Partition
<1> QED
  BY <1>1, <1>5, <1>7, <1>8, <1>11 DEF IInv

----------------------------------------------------------------------------
(* The theorems                                                             *)

(* Every step keeps the invariant.                                          *)
LEMMA IInvStep ==
  ASSUME ram_base = 0, IInv, [Next]_vars
  PROVE  IInv'
<1>1. ASSUME NEW c \in Cores, Calls(c)
      PROVE  IInv'
  BY <1>1, CallStep, FreeCallStep DEF Calls
<1>2. ASSUME NEW c \in Cores, LockAcquire(c)
      PROVE  IInv'
  BY <1>2, LockAcquireStep
<1>3. ASSUME NEW c \in Cores, Run(c)
      PROVE  IInv'
  BY <1>3, UnlockStep, TakeBlockStep, InsertRangeStep, MergeUpStep, FreePageStep,
     SearchOrApplyOrReadStep DEF Run
<1>4. CASE UNCHANGED vars
  <2>1. UNCHANGED <<buddy_lists, buddy_bitmaps, metadata, held, pc, frame>>
    BY <1>4 DEF vars
  <2>2. StoreTyped' /\ StoreInv' /\ \A p : IsFree(p)' <=> IsFree(p)
    BY <2>1, StoreUnchanged DEF IInv, StoreTyped
  <2>3. \A d \in Cores : InFlight(d)' = InFlight(d) /\ CallState(d)'
    BY <2>1, OthersUnchanged DEF IInv
  <2>4. BootCore \in Cores
    BY ConstantsAssumption
  <2>5. OnlyCore(BootCore)
    BY <2>3 DEF OnlyCore
  <2>6. Partition'
    BY <2>1, <2>2, <2>3, <2>4, <2>5, NothingMoves DEF IInv
  <2> QED
    BY <2>1, <2>2, <2>3, <2>6 DEF IInv, CallsTyped
<1> QED
  BY <1>1, <1>2, <1>3, <1>4 DEF Next

(* The state of the calls, the store and the partition of memory hold at    *)
(* every moment.                                                            *)
THEOREM InductiveInvariant ==
  ASSUME ram_base = 0
  PROVE  Spec => [](Mutex /\ IInv)
<1>1. Init => Mutex /\ IInv
  <2>1. Init => Mutex
    BY DEF Init, Mutex, MutualExclusion, Labels, Holding
  <2> QED
    BY <2>1, InitIInv
<1>2. Mutex /\ IInv /\ [Next]_vars => (Mutex /\ IInv)'
  BY MutexStep, IInvStep
<1> QED
  BY <1>1, <1>2, PTL DEF Spec

(* Every variable keeps its type: lists of managed pages at every level,    *)
(* whatever is allocated and freed.                                         *)
THEOREM TypesKept ==
  ASSUME ram_base = 0
  PROVE  Spec => []TypeOK
<1>1. Mutex /\ IInv => TypeOK
  BY DEF Mutex, IInv, StoreTyped, CallsTyped, FrameType, TypeOK
<1> QED
  BY <1>1, InductiveInvariant, PTL

(* pmap_pfa_alloc_contig never hands out a page that is reserved, held,     *)
(* free as part of another block or moved by another call.                  *)
THEOREM PagesHaveOneOwner ==
  ASSUME ram_base = 0
  PROVE  Spec => []NoDoubleOwner
<1>1. IInv => NoDoubleOwner
  BY DEF IInv, StoreInv, Partition, NoDoubleOwner
<1> QED
  BY <1>1, InductiveInvariant, PTL

(* Splitting, merging and giving back only a part leak no page.             *)
THEOREM PagesAreKept ==
  ASSUME ram_base = 0
  PROVE  Spec => []NoPageLost
<1>1. IInv => NoPageLost
  BY DEF IInv, Partition, NoPageLost
<1> QED
  BY <1>1, InductiveInvariant, PTL

(* The bit that tells a free that its buddy can be merged is right.         *)
THEOREM BitmapsAreExact ==
  ASSUME ram_base = 0
  PROVE  Spec => []BitmapMatchesLists
<1>1. IInv => BitmapMatchesLists
  BY DEF IInv, StoreInv
<1> QED
  BY <1>1, InductiveInvariant, PTL

(* The pages of a part of the kernel image end before the first free page.  *)
LEMMA ImageIsReserved ==
  ASSUME NEW base \in Nat, NEW size \in Nat,
         base % PAGE_SIZE = 0, base + size <= bootstrap_pa_reserved
  PROVE  /\ pa_to_page_id(base) \in Nat /\ size_to_page_count(size) \in Nat
         /\ pa_to_page_id(base) + size_to_page_count(size) <= FirstFree
<1>1. PICK b \in Nat : b = pa_to_page_id(base) /\ base = b * PAGE_SIZE
  BY ConstantsAssumption, Multiple DEF pa_to_page_id
<1>2. FirstFree \in Nat /\ bootstrap_pa_reserved = FirstFree * PAGE_SIZE
  BY ConstantsAssumption, Multiple DEF FirstFree, pa_to_page_id
<1>3. PICK x \in Nat : x = size + PAGE_SIZE - 1
  BY ConstantsAssumption
<1>4. PICK q \in Nat, r \in 0 .. PAGE_SIZE - 1 :
        x = PAGE_SIZE * q + r /\ q = x \div PAGE_SIZE
  BY <1>3, ConstantsAssumption, Division
<1>5. size_to_page_count(size) = q
  BY <1>3, <1>4 DEF size_to_page_count
<1>6. PAGE_SIZE * q <= size + PAGE_SIZE - 1
  BY <1>3, <1>4, ConstantsAssumption
<1>7. b + q <= FirstFree
  <2>1. SUFFICES ASSUME b + q >= FirstFree + 1 PROVE FALSE
    BY <1>2
  <2>2. (b + q) * PAGE_SIZE >= (FirstFree + 1) * PAGE_SIZE
    BY <1>2, <2>1, ConstantsAssumption
  <2>3. b * PAGE_SIZE + q * PAGE_SIZE >= FirstFree * PAGE_SIZE + PAGE_SIZE
    BY <1>2, <2>2, ConstantsAssumption
  <2> QED
    BY <1>1, <1>2, <1>6, <2>3, ConstantsAssumption
<1> QED
  BY <1>1, <1>5, <1>7

(* So its metadata is inside the store.                                     *)
LEMMA ImageInBounds ==
  ASSUME ram_base = 0, NEW base \in Nat, NEW size \in Nat,
         base % PAGE_SIZE = 0, base + size <= bootstrap_pa_reserved
  PROVE  apply_in_bounds(pa_to_page_id(base), size_to_page_count(size))
  BY ImageIsReserved, AllUnreserved, ManagedPages DEF apply_in_bounds

(* No ASSERT of the allocator ever stops a core, from pmap_pfa_init on.     *)
THEOREM AssertionsNeverFail ==
  ASSUME ram_base = 0
  PROVE  Spec => []AssertionsHold
<1>1. ASSUME IInv, NEW c \in Cores
      PROVE  /\ pc[c] \in {"boot_insert", "insert"} /\ frame[c].free_i < frame[c].limit
                  => InsertFits(frame[c])
             /\ pc[c] = "apply" => apply_in_bounds(frame[c].base, frame[c].count)
             /\ pc[c] = "boot_apply" => BootInBounds
             /\ pc[c] = "merge" =>
                  IsManaged(IF CanMerge(c) THEN BuddyOf(c) ELSE frame[c].page_i)
             /\ pc[c] = "get" => IsManaged(frame[c].base)
  <2>0. /\ CallState(c) /\ frame[c].free_i \in Nat /\ frame[c].limit \in Nat
        /\ frame[c].base \in Int /\ frame[c].count \in Nat
        /\ frame[c].page_i \in Nat /\ frame[c].level_i \in Levels
    BY <1>1 DEF IInv, CallsTyped, FrameType
  <2>1. frame[c].free_i < frame[c].limit => InsertFits(frame[c])
    BY <2>0, InsertLevelFits DEF InsertFits
  <2>2. pc[c] = "apply" => apply_in_bounds(frame[c].base, frame[c].count)
    BY <2>0, ManagedPages DEF CallState, apply_in_bounds
  <2>3. BootInBounds
    <3>1. bootstrap_pa_reserved - ram_base = bootstrap_pa_reserved /\ pa_to_page_id(0) = 0
      BY ConstantsAssumption DEF pa_to_page_id
    <3>2. 0 % PAGE_SIZE = 0
      BY ConstantsAssumption
    <3>3. apply_in_bounds(ram_base, size_to_page_count(bootstrap_pa_reserved - ram_base))
      BY <3>1, <3>2, ImageInBounds, ConstantsAssumption
    <3>4. /\ apply_in_bounds(pa_to_page_id(kernel_data_base),
                             size_to_page_count(kernel_data_size))
          /\ apply_in_bounds(pa_to_page_id(kernel_text_base),
                             size_to_page_count(kernel_text_size))
      BY ImageInBounds, KernelImageAssumption
    <3> QED
      BY <3>3, <3>4 DEF BootInBounds, BootRanges
  <2>4. ASSUME pc[c] = "merge", CanMerge(c)
        PROVE  BuddyOf(c) \in Managed
    BY <1>1, <2>4, FreeBuddy
  <2>5. ASSUME pc[c] = "merge"
        PROVE  frame[c].page_i \in Managed
    <3>1. frame[c].page_i \in Growing(c)
      BY <2>0, <2>5, PageInItsBlock DEF Growing
    <3> QED
      BY <1>1, <3>1 DEF IInv, Partition, InFlight
  <2>6. pc[c] = "get" => frame[c].base \in Managed
    BY <2>0 DEF CallState
  <2>7. \A p \in Managed : IsManaged(p)
    BY ManagedPages
  <2> QED
    BY <2>1, <2>2, <2>3, <2>4, <2>5, <2>6, <2>7
<1>2. IInv => AssertionsHold
  BY <1>1 DEF AssertionsHold
<1> QED
  BY <1>2, InductiveInvariant, PTL

=============================================================================
