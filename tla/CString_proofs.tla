--------------------------- MODULE CString_proofs ---------------------------
(* Theorems about CString for a memory of any size: what each loop stops at *)
(* and what it has copied, and over any sequence of calls of strtok_r that  *)
(* the tokens are the words of the string.                                  *)
EXTENDS CString, SequenceTheorems, WellFoundedInduction, TLAPS

----------------------------------------------------------------------------
(* Numbers                                                                  *)

(* The library's order on the natural numbers, as a set of pairs.           *)
LEMMA LessThanPair ==
  ASSUME NEW k \in Nat, NEW m \in Nat, k < m
  PROVE  <<k, m>> \in OpToRel(<, Nat)
<1>1. OpToRel(<, Nat) = { ss \in Nat \X Nat : ss[1] < ss[2] }
  BY Zenon DEF OpToRel
<1>2. <<k, m>> \in { ss \in Nat \X Nat : ss[1] < ss[2] }
  OBVIOUS
<1> QED
  BY <1>1, <1>2, Zenon

(* A set of natural numbers that is not empty has a least element.          *)
LEMMA LeastExists ==
  ASSUME NEW S \in SUBSET Nat, S # {}
  PROVE  \E m \in S : \A k \in S : m <= k
<1> DEFINE R == OpToRel(<, Nat)
<1>1. IsWellFoundedOn(R, Nat)
  BY NatLessThanWellFounded, Zenon
<1>2. PICK m \in S : \A k \in S : ~ (<<k, m>> \in R)
  <2> HIDE DEF R
  <2> QED
    BY <1>1, WFMin, Zenon
<1>3. \A k \in S : ~ (k < m)
  BY <1>2, LessThanPair, Zenon
<1> QED
  BY <1>3

(* What holds of 0 and goes from each number to the next one holds of all:  *)
(* S has the numbers up to n of which it holds.                             *)
LEMMA UpTo ==
  ASSUME NEW n \in Nat, NEW S, 0 \in S, \A k \in 0 .. n - 1 : k \in S => k + 1 \in S
  PROVE  0 .. n \subseteq S
<1> DEFINE T == { k \in 0 .. n : k \notin S }
<1>1. SUFFICES ASSUME T # {} PROVE FALSE
  OBVIOUS
<1>2. T \in SUBSET Nat
  OBVIOUS
<1>3. PICK k \in T : \A j \in T : k <= j
  <2> HIDE DEF T
  <2> QED
    BY <1>1, <1>2, LeastExists
<1>4. k \in 1 .. n
  OBVIOUS
<1>5. k - 1 \in 0 .. n - 1 /\ k - 1 \notin T
  BY <1>3, <1>4
<1> QED
  BY <1>4, <1>5

(* And downwards from n.                                                    *)
LEMMA DownTo ==
  ASSUME NEW n \in Nat, NEW S, n \in S, \A k \in 0 .. n - 1 : k + 1 \in S => k \in S
  PROVE  0 .. n \subseteq S
<1> DEFINE T == { d \in 0 .. n : n - d \in S }
<1>1. 0 \in T
  OBVIOUS
<1>2. ASSUME NEW d \in 0 .. n - 1, d \in T
      PROVE  d + 1 \in T
  <2>1. n - (d + 1) \in 0 .. n - 1 /\ (n - (d + 1)) + 1 = n - d
    OBVIOUS
  <2>2. n - (d + 1) \in S
    BY <1>2, <2>1
  <2> QED
    BY <2>2
<1>3. 0 .. n \subseteq T
  <2> HIDE DEF T
  <2> QED
    BY <1>1, <1>2, UpTo
<1>4. ASSUME NEW k \in 0 .. n
      PROVE  k \in S
  <2>1. n - k \in 0 .. n /\ n - (n - k) = k
    OBVIOUS
  <2>2. n - (n - k) \in S
    BY <1>3, <2>1
  <2> QED
    BY <2>1, <2>2
<1> QED
  BY <1>4

(* Min is the least element.                                                *)
LEMMA MinIs ==
  ASSUME NEW S \in SUBSET Int, NEW k \in S, \A j \in S : k <= j
  PROVE  Min(S) = k
<1>1. \A x \in S : (\A y \in S : x <= y) => x = k
  OBVIOUS
<1> QED
  BY <1>1 DEF Min

LEMMA MaxIs ==
  ASSUME NEW S \in SUBSET Int, NEW k \in S, \A j \in S : j <= k
  PROVE  Max(S) = k
<1>1. \A x \in S : (\A y \in S : x >= y) => x = k
  OBVIOUS
<1> QED
  BY <1>1 DEF Max

(* Of two numbers.                                                          *)
LEMMA MinOfTwo ==
  ASSUME NEW a \in Int, NEW b \in Int
  PROVE  Min({a, b}) = IF a <= b THEN a ELSE b
<1>1. CASE a <= b
  BY <1>1, MinIs
<1>2. CASE ~ (a <= b)
  BY <1>2, MinIs
<1> QED
  BY <1>1, <1>2

LEMMA MaxOfTwo ==
  ASSUME NEW a \in Int, NEW b \in Int
  PROVE  Max({a, b}) = IF a >= b THEN a ELSE b
<1>1. CASE a >= b
  BY <1>1, MaxIs
<1>2. CASE ~ (a >= b)
  BY <1>2, MaxIs
<1> QED
  BY <1>1, <1>2

(* The first of some places is the one before which there is none.          *)
LEMMA FirstIs ==
  ASSUME NEW S \in SUBSET Int, NEW k \in S, \A j \in S : k <= j
  PROVE  First(S) = k
<1>1. S # {}
  OBVIOUS
<1> QED
  BY <1>1, MinIs DEF First

----------------------------------------------------------------------------
(* Loops that look for a place                                              *)

(* The function that Up defines exists.                                     *)
IsUp(f, i, n, ends) == f = [k \in i .. n |-> IF k = n \/ k \in ends THEN k ELSE f[k + 1]]

LEMMA UpExists ==
  ASSUME NEW i \in Nat, NEW n \in Nat, NEW ends
  PROVE  \E f : IsUp(f, i, n, ends)
<1> DEFINE Here(k) == { j \in k .. n : j = n \/ j \in ends }
           Least(k, j) == j \in Here(k) /\ \A h \in Here(k) : j <= h
           f == [k \in i .. n |-> CHOOSE j \in Nat : Least(k, j)]
<1>1. ASSUME NEW k \in i .. n
      PROVE  f[k] \in Nat /\ Least(k, f[k])
  <2>1. n \in Here(k) /\ Here(k) \in SUBSET Nat
    OBVIOUS
  <2>2. PICK j \in Here(k) : \A h \in Here(k) : j <= h
    <3> HIDE DEF Here
    <3> QED
      BY <2>1, LeastExists
  <2>3. j \in Nat /\ Least(k, j)
    BY <2>1, <2>2
  <2>4. f[k] = CHOOSE h \in Nat : Least(k, h)
    OBVIOUS
  <2> HIDE DEF f, Least, Here
  <2> QED
    BY <2>3, <2>4
<1>0. f = [k \in i .. n |-> f[k]]
  OBVIOUS
<1> HIDE DEF f, Least
<1>2. ASSUME NEW k \in i .. n
      PROVE  f[k] = IF k = n \/ k \in ends THEN k ELSE f[k + 1]
  <2>1. PICK j \in Nat : j = f[k] /\ Least(k, j)
    BY <1>1
  <2>2. CASE k = n \/ k \in ends
    <3>1. k \in Here(k)
      BY <2>2
    <3>2. j \in k .. n /\ j <= k
      BY <2>1, <3>1 DEF Least
    <3> QED
      BY <2>1, <2>2, <3>2
  <2>3. CASE ~ (k = n \/ k \in ends)
    <3>1. k + 1 \in i .. n
      BY <2>3
    <3>2. PICK h \in Nat : h = f[k + 1] /\ Least(k + 1, h)
      BY <1>1, <3>1
    <3>3. Here(k) = Here(k + 1)
      BY <2>3
    <3>4. j <= h /\ h <= j
      <4> HIDE DEF Here
      <4> QED
        BY <2>1, <3>2, <3>3 DEF Least
    <3> QED
      BY <2>1, <2>3, <3>2, <3>4
  <2> QED
    BY <2>2, <2>3
<1>3. f = [k \in i .. n |-> IF k = n \/ k \in ends THEN k ELSE f[k + 1]]
  BY <1>0, <1>2
<1> HIDE DEF Here
<1> QED
  BY <1>3 DEF IsUp

(* A loop stops at the first place where it ends, or at its limit.          *)
LEMMA UpStops ==
  ASSUME NEW i \in Nat, NEW n \in Nat, i <= n, NEW ends
  PROVE  /\ Up(i, n, ends) \in i .. n
         /\ Up(i, n, ends) = n \/ Up(i, n, ends) \in ends
         /\ \A j \in i .. Up(i, n, ends) - 1 : j \notin ends
<1> DEFINE at[k \in i .. n] == IF k = n \/ k \in ends THEN k ELSE at[k + 1]
<1>1. at = [k \in i .. n |-> IF k = n \/ k \in ends THEN k ELSE at[k + 1]]
  <2>1. \E f : IsUp(f, i, n, ends)
    BY UpExists
  <2> QED
    BY <2>1, Zenon DEF IsUp
<1>2. Up(i, n, ends) = at[i]
  BY Zenon DEF Up
<1> HIDE DEF at
<1> DEFINE Stops(k) == /\ at[k] \in k .. n
                       /\ at[k] = n \/ at[k] \in ends
                       /\ \A j \in k .. at[k] - 1 : j \notin ends
           S == { k \in 0 .. n : k >= i => Stops(k) }
<1>3. \A k \in i .. n : at[k] = IF k = n \/ k \in ends THEN k ELSE at[k + 1]
  BY <1>1
<1>4. n \in S
  BY <1>3
<1>5. ASSUME NEW k \in 0 .. n - 1, k + 1 \in S, k >= i
      PROVE  Stops(k)
  <2>1. k \in i .. n /\ k # n /\ Stops(k + 1)
    BY <1>5
  <2>2. CASE k \in ends
    BY <1>3, <2>1, <2>2
  <2>3. CASE k \notin ends
    <3>1. at[k] = at[k + 1]
      BY <1>3, <2>1, <2>3
    <3> QED
      BY <2>1, <2>3, <3>1
  <2> QED
    BY <2>2, <2>3
<1>6. 0 .. n \subseteq S
  <2>1. \A k \in 0 .. n - 1 : k + 1 \in S => k \in S
    BY <1>5
  <2> HIDE DEF S
  <2> QED
    BY <1>4, <2>1, DownTo
<1>7. Stops(i)
  BY <1>6
<1> QED
  BY <1>2, <1>7

(* And a place with these properties is where it stops.                     *)
LEMMA UpIs ==
  ASSUME NEW i \in Nat, NEW n \in Nat, NEW ends, NEW k \in i .. n, k = n \/ k \in ends,
         \A j \in i .. k - 1 : j \notin ends
  PROVE  Up(i, n, ends) = k
<1>1. PICK u \in i .. n : /\ u = Up(i, n, ends)
                          /\ u = n \/ u \in ends
                          /\ \A j \in i .. u - 1 : j \notin ends
  BY UpStops
<1>2. ~ (u < k) /\ ~ (k < u)
  BY <1>1
<1> QED
  BY <1>1, <1>2

----------------------------------------------------------------------------
(* Strings                                                                  *)

Memory == [Cells -> 0 .. 255]

(* A string begins in the memory and goes up to its first terminator.       *)
EndsAt(m, p, e) ==
  p \in Cells /\ e \in p .. Size - 1 /\ m[e] = NUL /\ \A q \in p .. e - 1 : m[q] # NUL

LEMMA Places == Size \in Nat \ {0} /\ Cells \subseteq Pointers /\ Pointers \subseteq Nat /\ NULL \notin Pointers
<1> QED
  BY CStringAssumption DEF Cells, Pointers

LEMMA StringEnds ==
  ASSUME NEW m, NEW p, IsString(m, p)
  PROVE  \E e \in Cells : EndsAt(m, p, e)
<1> DEFINE T == { q \in Terminators(m) : q >= p }
<1>1. T # {} /\ T \in SUBSET Nat
  BY Places DEF IsString, Terminators
<1>2. PICK e \in T : \A q \in T : e <= q
  <2> HIDE DEF T
  <2> QED
    BY <1>1, LeastExists
<1>3. e \in Cells /\ p \in Cells /\ e >= p /\ m[e] = NUL
  BY <1>2 DEF Terminators, IsString
<1>4. ASSUME NEW q \in p .. e - 1
      PROVE  m[q] # NUL
  <2>1. q \in Cells /\ q >= p /\ ~ (e <= q)
    BY <1>3, Places DEF Cells
  <2> QED
    BY <1>2, <2>1 DEF Terminators
<1> QED
  BY <1>3, <1>4, Places DEF EndsAt, Cells

(* strlen and the length of a string are how far its terminator is.         *)
LEMMA LengthIs ==
  ASSUME NEW m, NEW p, NEW e, EndsAt(m, p, e)
  PROVE  /\ IsString(m, p) /\ p \in Nat /\ e \in Cells
         /\ Length(m, p) = e - p
         /\ strlen(m, p) = e - p
<1>1. p \in Nat /\ e \in Nat /\ p <= e /\ e < Size /\ p \in Cells /\ e \in Cells
  BY Places DEF EndsAt, Cells
<1>2. e \in Terminators(m)
  BY <1>1 DEF EndsAt, Terminators
<1>3. ASSUME NEW q \in Terminators(m), q >= p
      PROVE  e <= q
  <2>1. q \in Nat /\ m[q] = NUL
    BY Places DEF Terminators, Cells
  <2> QED
    BY <1>1, <1>3, <2>1 DEF EndsAt
<1> DEFINE T == { q \in Terminators(m) : q >= p }
<1>4. Min(T) = e
  <2>1. e \in T /\ T \in SUBSET Int /\ \A q \in T : e <= q
    BY <1>1, <1>2, <1>3, Places DEF Terminators, Cells
  <2> HIDE DEF T
  <2> QED
    BY <2>1, MinIs
<1>5. Up(p, Size, Terminators(m)) = e
  <2>1. e \in p .. Size
    BY <1>1, Places
  <2>2. \A j \in p .. e - 1 : j \notin Terminators(m)
    BY Zenon DEF EndsAt, Terminators
  <2> QED
    BY <1>1, <1>2, <2>1, <2>2, UpIs, Places
<1> QED
  BY <1>1, <1>2, <1>4, <1>5 DEF IsString, Length, strlen

(* What StringAt is.                                                        *)
LEMMA StringAtIs ==
  ASSUME NEW m \in Memory, NEW p, NEW e, EndsAt(m, p, e)
  PROVE  /\ StringAt(m, p) = [i \in 1 .. e - p |-> m[p + i - 1]]
         /\ StringAt(m, p) \in Seq(0 .. 255) /\ Len(StringAt(m, p)) = e - p
         /\ \A i \in 1 .. e - p : StringAt(m, p)[i] = m[p + i - 1]
<1>1. p \in Nat /\ e \in Nat /\ p <= e /\ e < Size /\ e - p \in Nat
  BY Places DEF EndsAt, Cells
<1>2. StringAt(m, p) = [i \in 1 .. e - p |-> m[p + i - 1]]
  BY LengthIs DEF StringAt
<1>3. \A i \in 1 .. e - p : m[p + i - 1] \in 0 .. 255
  <2>1. \A i \in 1 .. e - p : p + i - 1 \in Cells
    BY <1>1, Places DEF Cells
  <2> QED
    BY <2>1 DEF Memory
<1> QED
  BY <1>1, <1>2, <1>3

(* A string has strings in it, one from each of its places on.              *)
LEMMA Suffixes ==
  ASSUME NEW m, NEW p, NEW e, EndsAt(m, p, e), NEW q \in p .. e
  PROVE  EndsAt(m, q, e)
BY Places DEF EndsAt, Cells

(* A string has a single end.                                               *)
LEMMA OneEnd ==
  ASSUME NEW m, NEW p, NEW e, NEW d, EndsAt(m, p, e), EndsAt(m, p, d)
  PROVE  d = e
<1>1. ~ (d < e) /\ ~ (e < d)
  BY Places DEF EndsAt, Cells
<1> QED
  BY <1>1, Places DEF EndsAt, Cells

(* The first elements of a sequence.                                        *)
LEMMA PrefixIs ==
  ASSUME NEW S, NEW s \in Seq(S), NEW n \in Nat
  PROVE  \E k \in 0 .. Len(s) :
           /\ k = IF n <= Len(s) THEN n ELSE Len(s)
           /\ Prefix(s, n) = [i \in 1 .. k |-> s[i]]
           /\ Prefix(s, n) \in Seq(S) /\ Len(Prefix(s, n)) = k
<1>1. Len(s) \in Nat
  OBVIOUS
<1>2. PICK k \in 0 .. Len(s) : k = IF n <= Len(s) THEN n ELSE Len(s)
  BY <1>1
<1>3. Min({n, Len(s)}) = k
  BY <1>1, <1>2, MinOfTwo
<1>4. Prefix(s, n) = SubSeq(s, 1, k)
  BY <1>3 DEF Prefix
<1> QED
  BY <1>1, <1>2, <1>4

----------------------------------------------------------------------------
(* Searches in blocks                                                       *)

(* memcmp finds the first difference, if there is one.                      *)
LEMMA MemcmpIs ==
  ASSUME NEW m, NEW a, NEW b, NEW size \in Nat
  PROVE  \/ /\ \A k \in 0 .. size - 1 : m[a + k] = m[b + k]
            /\ memcmp(m, a, b, size) = 0
         \/ \E i \in 0 .. size - 1 :
              /\ m[a + i] # m[b + i]
              /\ \A k \in 0 .. i - 1 : m[a + k] = m[b + k]
              /\ memcmp(m, a, b, size) = IF m[a + i] > m[b + i] THEN 1 ELSE -1
<1> DEFINE D == { k \in 0 .. size - 1 : m[a + k] # m[b + k] }
<1>1. PICK i \in 0 .. size : /\ i = Up(0, size, D)
                             /\ i = size \/ i \in D
                             /\ \A j \in 0 .. i - 1 : j \notin D
  <2> HIDE DEF D
  <2> QED
    BY UpStops
<1>2. memcmp(m, a, b, size) = IF i = size THEN 0 ELSE IF m[a + i] > m[b + i] THEN 1 ELSE -1
  BY <1>1 DEF memcmp
<1>3. \A j \in 0 .. i - 1 : m[a + j] = m[b + j]
  <2>1. \A j \in 0 .. i - 1 : j \in 0 .. size - 1
    BY <1>1
  <2> QED
    BY <1>1, <2>1, Zenon
<1>4. CASE i = size
  BY <1>2, <1>3, <1>4
<1>5. CASE i # size
  <2>1. i \in 0 .. size - 1 /\ m[a + i] # m[b + i]
    BY <1>1, <1>5
  <2> QED
    BY <1>2, <1>3, <1>5, <2>1
<1> QED
  BY <1>4, <1>5

(* memchr finds the first occurrence in the block, if there is one.         *)
LEMMA MemchrIs ==
  ASSUME NEW m, NEW block \in Nat, NEW ch, NEW size \in Nat, block + size <= Size
  PROVE  \/ /\ \A q \in Span(block, size) : m[q] # Char(ch)
            /\ memchr(m, block, ch, size) = NULL
         \/ \E p \in Span(block, size) :
              /\ m[p] = Char(ch)
              /\ \A q \in block .. p - 1 : m[q] # Char(ch)
              /\ memchr(m, block, ch, size) = p
<1> DEFINE H == { q \in Cells : m[q] = Char(ch) }
           n == block + size
<1>1. PICK p \in block .. n : /\ p = Up(block, n, H)
                              /\ p = n \/ p \in H
                              /\ \A j \in block .. p - 1 : j \notin H
  <2>1. n \in Nat /\ block <= n
    OBVIOUS
  <2> HIDE DEF H, n
  <2> QED
    BY <2>1, UpStops
<1>2. memchr(m, block, ch, size) = IF p = n THEN NULL ELSE p
  BY <1>1 DEF memchr
<1>3. \A q \in block .. p - 1 : m[q] # Char(ch)
  <2>1. \A q \in block .. p - 1 : q \in Cells
    BY <1>1, Places DEF Cells
  <2> QED
    BY <1>1, <2>1, Zenon
<1>4. CASE p = n
  BY <1>2, <1>3, <1>4 DEF Span
<1>5. CASE p # n
  <2>1. p \in Span(block, size) /\ m[p] = Char(ch)
    BY <1>1, <1>5 DEF Span
  <2> QED
    BY <1>2, <1>3, <1>5, <2>1
<1> QED
  BY <1>4, <1>5

----------------------------------------------------------------------------
(* Searches in strings                                                      *)

LEMMA StrnlenIs ==
  ASSUME NEW m, NEW p, NEW e, EndsAt(m, p, e), NEW n \in Nat
  PROVE  strnlen(m, p, n) = Min({n, e - p})
<1>1. p \in Nat /\ e \in Nat /\ p <= e /\ e \in Cells
  BY LengthIs, Places DEF EndsAt, Cells
<1>2. \A j \in p .. e - 1 : j \notin Terminators(m)
  BY Zenon DEF EndsAt, Terminators
<1>3. e \in Terminators(m)
  BY <1>1 DEF EndsAt, Terminators
<1>4. PICK k \in p .. p + n : k = IF n <= e - p THEN p + n ELSE e
  BY <1>1
<1>5. Up(p, p + n, Terminators(m)) = k
  <2>1. k = p + n \/ k \in Terminators(m)
    BY <1>3, <1>4
  <2>2. k <= e
    BY <1>1, <1>4
  <2>3. \A j \in p .. k - 1 : j \notin Terminators(m)
    BY <1>1, <1>2, <2>2
  <2>4. p + n \in Nat
    BY <1>1
  <2> QED
    BY <1>1, <2>1, <2>3, <2>4, UpIs
<1>6. strnlen(m, p, n) = k - p
  BY <1>5 DEF strnlen
<1>7. Min({n, e - p}) = k - p
  BY <1>1, <1>4, MinOfTwo
<1> QED
  BY <1>6, <1>7

(* A loop over a string that ends at its terminator at the latest.          *)
LEMMA UpInString ==
  ASSUME NEW m, NEW p, NEW e, EndsAt(m, p, e), NEW ends, e \in ends
  PROVE  /\ Up(p, Size, ends) \in p .. e
         /\ Up(p, Size, ends) \in ends
         /\ \A j \in p .. Up(p, Size, ends) - 1 : j \notin ends
<1>1. p \in Nat /\ e \in Nat /\ p <= e /\ e < Size /\ Size \in Nat
  BY LengthIs, Places DEF EndsAt, Cells
<1>2. PICK u \in p .. Size : /\ u = Up(p, Size, ends)
                             /\ u = Size \/ u \in ends
                             /\ \A j \in p .. u - 1 : j \notin ends
  BY <1>1, UpStops
<1>3. u <= e
  BY <1>1, <1>2
<1> QED
  BY <1>1, <1>2, <1>3

LEMMA StrchrIs ==
  ASSUME NEW m, NEW p, NEW e, EndsAt(m, p, e), NEW c
  PROVE  strchr(m, p, c) = First({ q \in p .. e : m[q] = Char(c) })
<1> DEFINE ends == { q \in Cells : m[q] = Char(c) \/ m[q] = NUL }
           H == { q \in p .. e : m[q] = Char(c) }
<1>1. p \in Nat /\ e \in Nat /\ p <= e /\ e < Size /\ e \in Cells /\ m[e] = NUL
  BY LengthIs, Places DEF EndsAt, Cells
<1>2. PICK u \in p .. e : u = Up(p, Size, ends) /\ u \in ends /\ \A j \in p .. u - 1 : j \notin ends
  <2>1. e \in ends
    BY <1>1
  <2> HIDE DEF ends
  <2> QED
    BY <2>1, UpInString
<1>3. strchr(m, p, c) = IF m[u] = Char(c) THEN u ELSE NULL
  BY <1>2 DEF strchr
<1>4. \A j \in p .. u - 1 : m[j] # Char(c) /\ m[j] # NUL
  <2>1. \A j \in p .. u - 1 : j \in Cells
    BY <1>1, Places DEF Cells
  <2> QED
    BY <1>2, <2>1
<1>5. CASE m[u] = Char(c)
  <2>1. u \in H /\ H \in SUBSET Int /\ \A j \in H : u <= j
    BY <1>1, <1>4, <1>5
  <2>2. First(H) = u
    <3> HIDE DEF H
    <3> QED
      BY <2>1, FirstIs
  <2> QED
    BY <1>3, <1>5, <2>2
<1>6. CASE m[u] # Char(c)
  <2>1. m[u] = NUL
    BY <1>2, <1>6
  <2>2. u = e
    BY <1>1, <2>1 DEF EndsAt
  <2>3. H = {}
    BY <1>1, <1>4, <1>6, <2>2
  <2> QED
    BY <1>3, <1>6, <2>3 DEF First
<1> QED
  BY <1>5, <1>6

(* strcspn, strspn and strpbrk stop at the first character of the literal,  *)
(* or not of it, or at the end.                                             *)
LEMMA SpansAre ==
  ASSUME NEW m, NEW p, NEW e, EndsAt(m, p, e), NEW S, NUL \notin S
  PROVE  /\ p + strspn(m, p, S) = Min({ q \in p .. e : m[q] \notin S })
         /\ p + strcspn(m, p, S) = Min({ q \in p .. e : m[q] \in S \/ m[q] = NUL })
         /\ strpbrk(m, p, S) = First({ q \in p .. e : m[q] \in S })
         /\ PastThese(m, p, S) \in p .. e /\ m[PastThese(m, p, S)] \notin S
         /\ \A j \in p .. PastThese(m, p, S) - 1 : m[j] \in S
         /\ UpToOneOf(m, p, S) \in p .. e /\ m[UpToOneOf(m, p, S)] \in S \cup {NUL}
         /\ \A j \in p .. UpToOneOf(m, p, S) - 1 : m[j] \notin S \cup {NUL}
<1>1. p \in Nat /\ e \in Nat /\ p <= e /\ e < Size /\ e \in Cells /\ m[e] = NUL
      /\ \A j \in p .. e : j \in Cells
  BY LengthIs, Places DEF EndsAt, Cells
<1>2. PICK u \in p .. e : u = UpToOneOf(m, p, S) /\ m[u] \in S \cup {NUL}
                          /\ \A j \in p .. u - 1 : m[j] \notin S \cup {NUL}
  <2> DEFINE ends == { q \in Cells : OneOf(S, m[q]) }
  <2>1. e \in ends
    BY <1>1 DEF OneOf
  <2>2. PICK u \in p .. e : u = Up(p, Size, ends) /\ u \in ends /\ \A j \in p .. u - 1 : j \notin ends
    <3> HIDE DEF ends
    <3> QED
      BY <2>1, UpInString
  <2>3. u = UpToOneOf(m, p, S)
    BY <2>2 DEF UpToOneOf
  <2>4. \A j \in p .. u - 1 : j \in Cells
    BY <1>1
  <2> QED
    BY <2>2, <2>3, <2>4 DEF OneOf
<1>3. PICK v \in p .. e : v = PastThese(m, p, S) /\ m[v] \notin S
                          /\ \A j \in p .. v - 1 : m[j] \in S
  <2> DEFINE ends == { q \in Cells : m[q] = NUL \/ ~ OneOf(S, m[q]) }
  <2>1. e \in ends
    BY <1>1
  <2>2. PICK v \in p .. e : v = Up(p, Size, ends) /\ v \in ends /\ \A j \in p .. v - 1 : j \notin ends
    <3> HIDE DEF ends
    <3> QED
      BY <2>1, UpInString
  <2>3. v = PastThese(m, p, S)
    BY <2>2 DEF PastThese
  <2>4. \A j \in p .. v - 1 : j \in Cells
    BY <1>1
  <2> QED
    BY <2>2, <2>3, <2>4 DEF OneOf
<1>4. p + strspn(m, p, S) = v /\ p + strcspn(m, p, S) = u
  BY <1>1, <1>2, <1>3 DEF strspn, strcspn
<1>5. v = Min({ q \in p .. e : m[q] \notin S })
  <2> DEFINE T == { q \in p .. e : m[q] \notin S }
  <2>1. v \in T /\ T \in SUBSET Int /\ \A j \in T : v <= j
    BY <1>1, <1>3
  <2>2. v = Min(T)
    <3> HIDE DEF T
    <3> QED
      BY <2>1, MinIs
  <2> QED
    BY <2>2
<1>6. u = Min({ q \in p .. e : m[q] \in S \/ m[q] = NUL })
  <2> DEFINE T == { q \in p .. e : m[q] \in S \/ m[q] = NUL }
  <2>1. u \in T /\ T \in SUBSET Int /\ \A j \in T : u <= j
    BY <1>1, <1>2
  <2>2. u = Min(T)
    <3> HIDE DEF T
    <3> QED
      BY <2>1, MinIs
  <2> QED
    BY <2>2
<1>7. strpbrk(m, p, S) = First({ q \in p .. e : m[q] \in S })
  <2> DEFINE T == { q \in p .. e : m[q] \in S }
  <2>1. strpbrk(m, p, S) = IF m[u] = NUL THEN NULL ELSE u
    BY <1>2 DEF strpbrk
  <2>2. CASE m[u] = NUL
    <3>1. u = e
      BY <1>1, <2>2 DEF EndsAt
    <3>2. T = {}
      BY <1>1, <1>2, <2>2, <3>1
    <3> QED
      BY <2>1, <2>2, <3>2 DEF First
  <2>3. CASE m[u] # NUL
    <3>1. u \in T /\ T \in SUBSET Int /\ \A j \in T : u <= j
      BY <1>1, <1>2, <2>3
    <3>2. First(T) = u
      <4> HIDE DEF T
      <4> QED
        BY <3>1, FirstIs
    <3> QED
      BY <2>1, <2>3, <3>2
  <2> QED
    BY <2>2, <2>3
<1> QED
  BY <1>2, <1>3, <1>4, <1>5, <1>6, <1>7

(* The last place before s where c is, or NULL without one.                 *)
LastBefore(m, p, s, c, x) ==
  \/ x = NULL /\ \A q \in p .. s - 1 : m[q] # Char(c)
  \/ x \in p .. s - 1 /\ m[x] = Char(c) /\ \A q \in x + 1 .. s - 1 : m[q] # Char(c)

(* The loop of strrchr goes from one to the next.                           *)
LEMMA LastMoves ==
  ASSUME NEW m, NEW p \in Nat, NEW e \in Nat, e < Size, NEW c,
         NEW s \in p .. e - 1, NEW x, LastBefore(m, p, s, c, x)
  PROVE  LastBefore(m, p, s + 1, c, IF m[s] = Char(c) THEN s ELSE x)
<1>1. s \in Nat /\ p <= s /\ NULL \notin p .. s
  BY Places DEF Pointers
<1>2. CASE m[s] = Char(c)
  BY <1>1, <1>2 DEF LastBefore
<1>3. CASE m[s] # Char(c)
  <2>1. CASE x = NULL /\ \A q \in p .. s - 1 : m[q] # Char(c)
    <3>1. \A q \in p .. (s + 1) - 1 : m[q] # Char(c)
      BY <1>1, <1>3, <2>1
    <3> QED
      BY <1>3, <2>1, <3>1 DEF LastBefore
  <2>2. CASE x \in p .. s - 1 /\ m[x] = Char(c) /\ \A q \in x + 1 .. s - 1 : m[q] # Char(c)
    <3>1. x \in p .. (s + 1) - 1 /\ \A q \in x + 1 .. (s + 1) - 1 : m[q] # Char(c)
      BY <1>1, <1>3, <2>2
    <3> QED
      BY <1>3, <2>2, <3>1 DEF LastBefore
  <2> QED
    BY <2>1, <2>2 DEF LastBefore
<1> QED
  BY <1>2, <1>3

LEMMA LastIsOne ==
  ASSUME NEW m, NEW p \in Nat, NEW s \in Nat, s <= Size, NEW c, NEW x, NEW y,
         LastBefore(m, p, s, c, x), LastBefore(m, p, s, c, y)
  PROVE  x = y
<1>1. NULL \notin p .. s - 1
  BY Places DEF Pointers
<1>2. CASE x \in p .. s - 1 /\ y \in p .. s - 1
  BY <1>1, <1>2 DEF LastBefore
<1>3. CASE x = NULL \/ y = NULL
  BY <1>1, <1>3 DEF LastBefore
<1> QED
  BY <1>2, <1>3 DEF LastBefore

(* The function that strrchr defines.                                       *)
IsLast(f, m, p, e, c) ==
  f = [s \in p .. e |-> IF s = p THEN NULL ELSE IF m[s - 1] = Char(c) THEN s - 1 ELSE f[s - 1]]

LEMMA LastExists ==
  ASSUME NEW m, NEW p \in Nat, NEW e \in Nat, p <= e, e < Size, NEW c
  PROVE  \E f : IsLast(f, m, p, e, c)
<1> DEFINE S == { d \in 0 .. e - p : \E x : LastBefore(m, p, p + d, c, x) }
           f == [s \in p .. e |-> CHOOSE x : LastBefore(m, p, s, c, x)]
<1>1. LastBefore(m, p, p, c, NULL)
  BY DEF LastBefore
<1>2. 0 \in S
  BY <1>1
<1>3. ASSUME NEW d \in 0 .. e - p - 1, d \in S
      PROVE  d + 1 \in S
  <2>1. PICK x : LastBefore(m, p, p + d, c, x)
    BY <1>3
  <2>2. p + d \in p .. e - 1 /\ (p + d) + 1 = p + (d + 1) /\ d + 1 \in 0 .. e - p
    OBVIOUS
  <2>3. LastBefore(m, p, (p + d) + 1, c, IF m[p + d] = Char(c) THEN p + d ELSE x)
    BY <2>1, <2>2, LastMoves
  <2> QED
    BY <2>2, <2>3
<1>4. 0 .. e - p \subseteq S
  <2>1. e - p \in Nat
    OBVIOUS
  <2> HIDE DEF S
  <2> QED
    BY <1>2, <1>3, <2>1, UpTo
<1>5. ASSUME NEW s \in p .. e
      PROVE  LastBefore(m, p, s, c, f[s])
  <2>1. s - p \in 0 .. e - p /\ p + (s - p) = s
    OBVIOUS
  <2>2. \E x : LastBefore(m, p, s, c, x)
    BY <1>4, <2>1
  <2>3. f[s] = CHOOSE x : LastBefore(m, p, s, c, x)
    OBVIOUS
  <2> HIDE DEF f
  <2> QED
    BY <2>2, <2>3, Zenon
<1>6. f = [s \in p .. e |-> f[s]]
  OBVIOUS
<1> HIDE DEF f, S
<1>7. ASSUME NEW s \in p .. e
      PROVE  f[s] = IF s = p THEN NULL ELSE IF m[s - 1] = Char(c) THEN s - 1 ELSE f[s - 1]
  <2>1. s \in Nat /\ s <= Size
    BY Places
  <2>2. CASE s = p
    BY <1>1, <1>5, <2>1, <2>2, LastIsOne
  <2>3. CASE s # p
    <3>1. s - 1 \in p .. e - 1 /\ s - 1 \in p .. e /\ (s - 1) + 1 = s
      BY <2>3
    <3>2. LastBefore(m, p, s, c, IF m[s - 1] = Char(c) THEN s - 1 ELSE f[s - 1])
      <4>1. LastBefore(m, p, s - 1, c, f[s - 1])
        BY <1>5, <3>1
      <4>2. LastBefore(m, p, (s - 1) + 1, c, IF m[s - 1] = Char(c) THEN s - 1 ELSE f[s - 1])
        BY <3>1, <4>1, LastMoves
      <4> QED
        BY <3>1, <4>2
    <3> QED
      BY <1>5, <2>1, <2>3, <3>2, LastIsOne
  <2> QED
    BY <2>2, <2>3
<1>8. f = [s \in p .. e |-> IF s = p THEN NULL ELSE IF m[s - 1] = Char(c) THEN s - 1 ELSE f[s - 1]]
  BY <1>6, <1>7
<1> QED
  BY <1>8 DEF IsLast

LEMMA StrrchrIs ==
  ASSUME NEW m, NEW p, NEW e, EndsAt(m, p, e), NEW c
  PROVE  LET hits == { q \in p .. e : m[q] = Char(c) }
         IN  strrchr(m, p, c) = IF Char(c) = NUL \/ hits = {} THEN NULL ELSE Max(hits)
<1> DEFINE hits == { q \in p .. e : m[q] = Char(c) }
           end == p + strlen(m, p)
           last[s \in p .. end] ==
             IF s = p THEN NULL ELSE IF m[s - 1] = Char(c) THEN s - 1 ELSE last[s - 1]
<1>1. p \in Nat /\ e \in Nat /\ p <= e /\ e < Size /\ m[e] = NUL /\ \A q \in p .. e - 1 : m[q] # NUL
  BY LengthIs, Places DEF EndsAt, Cells
<1>2. end = e
  BY <1>1, LengthIs
<1>3. strrchr(m, p, c) = last[end]
  BY Zenon DEF strrchr
<1> HIDE DEF end
<1>4. last = [s \in p .. end |-> IF s = p THEN NULL
                                 ELSE IF m[s - 1] = Char(c) THEN s - 1 ELSE last[s - 1]]
  <2>1. \E f : IsLast(f, m, p, end, c)
    BY <1>1, <1>2, LastExists
  <2> QED
    BY <2>1, Zenon DEF IsLast
<1> HIDE DEF last
<1>5. \A s \in p .. e : last[s] = IF s = p THEN NULL
                                  ELSE IF m[s - 1] = Char(c) THEN s - 1 ELSE last[s - 1]
  BY <1>2, <1>4
<1> DEFINE S == { d \in 0 .. e - p : LastBefore(m, p, p + d, c, last[p + d]) }
<1>6. 0 \in S
  <2>1. last[p] = NULL
    BY <1>1, <1>5
  <2>2. LastBefore(m, p, p, c, NULL)
    BY <1>1 DEF LastBefore
  <2>3. p + 0 = p /\ 0 \in 0 .. e - p
    BY <1>1
  <2> QED
    BY <2>1, <2>2, <2>3
<1>7. ASSUME NEW d \in 0 .. e - p - 1, d \in S
      PROVE  d + 1 \in S
  <2>1. PICK s \in p .. e - 1 : s = p + d /\ s + 1 = p + (d + 1) /\ s + 1 \in p .. e
    BY <1>1
  <2>2. LastBefore(m, p, s, c, last[s])
    BY <1>7, <2>1
  <2>3. LastBefore(m, p, s + 1, c, IF m[s] = Char(c) THEN s ELSE last[s])
    BY <1>1, <2>2, LastMoves
  <2>4. last[s + 1] = IF m[s] = Char(c) THEN s ELSE last[s]
    <3>1. s + 1 # p /\ (s + 1) - 1 = s
      BY <1>1, <2>1
    <3> QED
      BY <1>5, <2>1, <3>1
  <2>5. d + 1 \in 0 .. e - p
    BY <1>1
  <2> QED
    BY <2>1, <2>3, <2>4, <2>5
<1>8. LastBefore(m, p, e, c, last[e])
  <2>1. e - p \in Nat /\ e - p \in 0 .. e - p /\ p + (e - p) = e
    BY <1>1
  <2>2. 0 .. e - p \subseteq S
    <3> HIDE DEF S
    <3> QED
      BY <1>6, <1>7, <2>1, UpTo
  <2>3. LastBefore(m, p, p + (e - p), c, last[p + (e - p)])
    BY <2>1, <2>2
  <2> QED
    BY <2>1, <2>3
<1>9. PICK x : x = last[e] /\ LastBefore(m, p, e, c, x) /\ strrchr(m, p, c) = x
  BY <1>2, <1>3, <1>8
<1>10. CASE Char(c) = NUL
  <2>1. x = NULL
    BY <1>1, <1>9, <1>10 DEF LastBefore
  <2> QED
    BY <1>9, <1>10, <2>1
<1>11. CASE Char(c) # NUL
  <2>1. CASE x = NULL /\ \A q \in p .. e - 1 : m[q] # Char(c)
    <3>1. hits = {}
      BY <1>1, <1>11, <2>1
    <3> QED
      BY <1>9, <2>1, <3>1
  <2>2. CASE x \in p .. e - 1 /\ m[x] = Char(c) /\ \A q \in x + 1 .. e - 1 : m[q] # Char(c)
    <3>1. x \in hits /\ hits \in SUBSET Int /\ \A q \in hits : q <= x
      BY <1>1, <1>11, <2>2
    <3>2. Max(hits) = x /\ hits # {}
      <4> HIDE DEF hits
      <4> QED
        BY <3>1, MaxIs
    <3> QED
      BY <1>9, <1>11, <3>2
  <2> QED
    BY <1>9, <2>1, <2>2 DEF LastBefore
<1> QED
  BY <1>10, <1>11

(* strcmp stops where the strings differ, or where both end.                *)
LEMMA StrcmpStops ==
  ASSUME NEW m, NEW p, NEW e, EndsAt(m, p, e), NEW q, NEW d, EndsAt(m, q, d)
  PROVE  \E i \in 0 .. e - p :
           /\ i <= d - q
           /\ \A k \in 0 .. i - 1 : m[p + k] = m[q + k]
           /\ m[p + i] = NUL \/ m[p + i] # m[q + i]
           /\ strcmp(m, p, q) =
                IF m[p + i] < m[q + i] THEN -1 ELSE IF m[p + i] > m[q + i] THEN 1 ELSE 0
<1>1. /\ p \in Nat /\ e \in Nat /\ p <= e /\ e < Size /\ m[e] = NUL
      /\ q \in Nat /\ d \in Nat /\ q <= d /\ d < Size /\ m[d] = NUL /\ Size \in Nat
  BY LengthIs, Places DEF EndsAt, Cells
<1>2. PICK far \in Int : far = Max({p, q}) /\ p <= far /\ q <= far /\ (far = p \/ far = q)
  BY <1>1, MaxOfTwo
<1>3. Mismatches(m, p, q) = { k \in 0 .. Size - 1 - far : m[p + k] = NUL \/ m[p + k] # m[q + k] }
  BY <1>2 DEF Mismatches
<1>4. PICK k \in Nat : k = IF e - p <= d - q THEN e - p ELSE d - q
  <2>1. e - p \in Nat /\ d - q \in Nat
    BY <1>1
  <2> QED
    BY <2>1
<1>5. k <= e - p /\ k <= d - q /\ k \in 0 .. Size - 1 - far /\ k \in 0 .. Size
  BY <1>1, <1>2, <1>4
<1>6. k \in Mismatches(m, p, q)
  <2>1. CASE e - p <= d - q
    <3>1. p + k = e
      BY <1>1, <1>4, <2>1
    <3> QED
      BY <1>1, <1>3, <1>5, <3>1
  <2>2. CASE ~ (e - p <= d - q)
    <3>1. q + k = d
      BY <1>1, <1>4, <2>2
    <3>2. m[q + k] = NUL
      BY <1>1, <3>1
    <3> QED
      BY <1>3, <1>5, <3>2
  <2> QED
    BY <2>1, <2>2
<1>7. PICK i \in 0 .. Size : /\ i = Up(0, Size, Mismatches(m, p, q))
                             /\ i = Size \/ i \in Mismatches(m, p, q)
                             /\ \A j \in 0 .. i - 1 : j \notin Mismatches(m, p, q)
  BY <1>1, UpStops
<1>8. i <= k
  BY <1>5, <1>6, <1>7
<1>9. i \in Mismatches(m, p, q)
  BY <1>1, <1>5, <1>7, <1>8
<1>10. \A j \in 0 .. i - 1 : m[p + j] = m[q + j]
  <2>1. \A j \in 0 .. i - 1 : j \in 0 .. Size - 1 - far
    BY <1>1, <1>2, <1>5, <1>8
  <2> QED
    BY <1>3, <1>7, <2>1
<1>11. strcmp(m, p, q) = IF m[p + i] < m[q + i] THEN -1 ELSE IF m[p + i] > m[q + i] THEN 1 ELSE 0
  BY <1>7 DEF strcmp
<1> QED
  BY <1>1, <1>3, <1>5, <1>8, <1>9, <1>10, <1>11

(* s comes before t as words do in a dictionary.                            *)
Less(s, t) ==
  \E i \in 0 .. Len(s) :
    /\ i < Len(t)
    /\ \A k \in 1 .. i : s[k] = t[k]
    /\ i = Len(s) \/ s[i + 1] < t[i + 1]

LEMMA StrcmpIs ==
  ASSUME NEW m \in Memory, NEW p, NEW e, EndsAt(m, p, e), NEW q, NEW d, EndsAt(m, q, d)
  PROVE  strcmp(m, p, q) = IF StringAt(m, p) = StringAt(m, q) THEN 0
                           ELSE IF Less(StringAt(m, p), StringAt(m, q)) THEN -1 ELSE 1
<1>1. /\ p \in Nat /\ e \in Nat /\ p <= e /\ e < Size /\ m[e] = NUL
      /\ q \in Nat /\ d \in Nat /\ q <= d /\ d < Size /\ m[d] = NUL
      /\ \A j \in 0 .. e - p - 1 : m[p + j] # NUL
      /\ \A j \in 0 .. d - q - 1 : m[q + j] # NUL
  <2>1. \A j \in 0 .. e - p - 1 : p + j \in p .. e - 1
    BY LengthIs, Places DEF EndsAt, Cells
  <2>2. \A j \in 0 .. d - q - 1 : q + j \in q .. d - 1
    BY LengthIs, Places DEF EndsAt, Cells
  <2> QED
    BY <2>1, <2>2, LengthIs, Places DEF EndsAt, Cells
<1>2. PICK s \in Seq(0 .. 255) : /\ s = StringAt(m, p) /\ Len(s) = e - p
                                 /\ \A i \in 1 .. e - p : s[i] = m[p + i - 1]
  BY StringAtIs
<1>3. PICK t \in Seq(0 .. 255) : /\ t = StringAt(m, q) /\ Len(t) = d - q
                                 /\ \A i \in 1 .. d - q : t[i] = m[q + i - 1]
  BY StringAtIs
<1>4. PICK i \in 0 .. e - p :
        /\ i <= d - q
        /\ \A k \in 0 .. i - 1 : m[p + k] = m[q + k]
        /\ m[p + i] = NUL \/ m[p + i] # m[q + i]
        /\ strcmp(m, p, q) =
             IF m[p + i] < m[q + i] THEN -1 ELSE IF m[p + i] > m[q + i] THEN 1 ELSE 0
  BY StrcmpStops
<1>5. PICK x \in 0 .. 255, y \in 0 .. 255 : x = m[p + i] /\ y = m[q + i]
  <2>1. p + i \in Cells /\ q + i \in Cells
    BY <1>1, <1>4, Places DEF Cells
  <2>2. m[p + i] \in 0 .. 255 /\ m[q + i] \in 0 .. 255
    BY <2>1 DEF Memory
  <2> QED
    BY <2>2, Zenon
<1>6. strcmp(m, p, q) = (IF x < y THEN -1 ELSE IF x > y THEN 1 ELSE 0) /\ (x = 0 \/ x # y)
  BY <1>4, <1>5 DEF NUL
<1>7. \A k \in 1 .. i : k <= Len(s) /\ k <= Len(t) /\ s[k] = t[k] /\ s[k] \in 0 .. 255
  <2> TAKE k \in 1 .. i
  <2>1. k - 1 \in 0 .. i - 1 /\ k \in 1 .. e - p /\ k \in 1 .. d - q
    BY <1>1, <1>4
  <2>2. s[k] = m[p + k - 1] /\ t[k] = m[q + k - 1]
    BY <1>2, <1>3, <2>1
  <2>3. m[p + (k - 1)] = m[q + (k - 1)] /\ p + (k - 1) = p + k - 1 /\ q + (k - 1) = q + k - 1
    BY <1>1, <1>4, <2>1
  <2>4. k \in 1 .. Len(s)
    BY <1>2, <2>1
  <2>5. s[k] \in 0 .. 255
    BY <2>4, ElementOfSeq, Zenon
  <2> QED
    BY <1>2, <1>3, <2>1, <2>2, <2>3, <2>5
<1>8. /\ i < e - p => x # 0 /\ s[i + 1] = x
      /\ i < d - q => y # 0 /\ t[i + 1] = y
      /\ i = e - p => x = 0
      /\ i = d - q => y = 0
  <2>1. i < e - p => i \in 0 .. e - p - 1 /\ i + 1 \in 1 .. e - p /\ p + (i + 1) - 1 = p + i
    BY <1>1, <1>4
  <2>2. i < d - q => i \in 0 .. d - q - 1 /\ i + 1 \in 1 .. d - q /\ q + (i + 1) - 1 = q + i
    BY <1>1, <1>4
  <2>3. (i = e - p => p + i = e) /\ (i = d - q => q + i = d)
    BY <1>1, <1>4
  <2> QED
    BY <1>1, <1>2, <1>3, <1>5, <2>1, <2>2, <2>3 DEF NUL
<1>9. ASSUME NEW j \in 0 .. Len(s), j < Len(t), \A k \in 1 .. j : s[k] = t[k],
             j = Len(s) \/ s[j + 1] < t[j + 1]
      PROVE  ~ (j < i)
  <2>1. SUFFICES ASSUME j < i PROVE FALSE
    OBVIOUS
  <2>2. j + 1 \in 1 .. i
    BY <2>1
  <2>3. PICK z \in 0 .. 255 : z = s[j + 1] /\ z = t[j + 1] /\ j + 1 <= Len(s)
    BY <1>7, <2>2
  <2> QED
    BY <1>9, <2>3
<1>10. CASE i = e - p /\ i = d - q
  <2>1. s = t
    <3>1. Len(s) = Len(t) /\ \A k \in 1 .. Len(s) : s[k] = t[k]
      BY <1>2, <1>3, <1>7, <1>10
    <3> QED
      BY <3>1
  <2> QED
    BY <1>2, <1>3, <1>6, <1>8, <1>10, <2>1
<1>11. CASE i = e - p /\ i < d - q
  <2>1. s # t
    BY <1>1, <1>2, <1>3, <1>11
  <2>2. Less(s, t)
    BY <1>2, <1>3, <1>4, <1>7, <1>11 DEF Less
  <2> QED
    BY <1>2, <1>3, <1>6, <1>8, <1>11, <2>1, <2>2
<1>12. CASE i < e - p /\ i = d - q
  <2>1. s # t
    BY <1>1, <1>2, <1>3, <1>12
  <2>2. ~ Less(s, t)
    BY <1>3, <1>9, <1>12 DEF Less
  <2> QED
    BY <1>2, <1>3, <1>6, <1>8, <1>12, <2>1, <2>2
<1>13. CASE i < e - p /\ i < d - q
  <2>1. x # y /\ s[i + 1] = x /\ t[i + 1] = y
    BY <1>6, <1>8, <1>13
  <2>2. s # t
    BY <2>1
  <2>3. CASE x < y
    <3>1. Less(s, t)
      BY <1>2, <1>3, <1>4, <1>7, <1>13, <2>1, <2>3 DEF Less
    <3> QED
      BY <1>2, <1>3, <1>6, <2>2, <2>3, <3>1
  <2>4. CASE ~ (x < y)
    <3>1. ~ Less(s, t)
      <4>1. SUFFICES ASSUME NEW j \in 0 .. Len(s), j < Len(t), \A k \in 1 .. j : s[k] = t[k],
                            j = Len(s) \/ s[j + 1] < t[j + 1]
                     PROVE  FALSE
        BY DEF Less
      <4>2. j \in Nat /\ i \in Nat /\ Len(s) \in Nat /\ i < Len(s) /\ ~ (j < i)
        BY <1>2, <1>9, <1>13, <4>1
      <4>3. CASE j = i
        BY <2>1, <2>4, <4>1, <4>2, <4>3
      <4>4. CASE j > i
        <5>1. i + 1 \in 1 .. j
          BY <4>2, <4>4
        <5> QED
          BY <2>1, <4>1, <5>1
      <4> QED
        BY <4>2, <4>3, <4>4
    <3>2. x > y
      BY <2>1, <2>4
    <3> QED
      BY <1>2, <1>3, <1>6, <2>2, <2>4, <3>1, <3>2
  <2> QED
    BY <2>3, <2>4
<1> QED
  BY <1>1, <1>4, <1>10, <1>11, <1>12, <1>13

(* A needle lies at a place if it fits there and memcmp sees no difference. *)
LEMMA MatchIs ==
  ASSUME NEW m \in Memory, NEW r, NEW e, EndsAt(m, r, e), NEW q, NEW d, EndsAt(m, q, d)
  PROVE  Prefix(StringAt(m, r), d - q) = StringAt(m, q)
           <=> r + (d - q) <= e /\ memcmp(m, r, q, d - q) = 0
<1> DEFINE n == d - q
<1>1. /\ r \in Nat /\ e \in Nat /\ r <= e /\ e < Size
      /\ q \in Nat /\ d \in Nat /\ q <= d /\ d < Size /\ n \in Nat
  BY LengthIs, Places DEF EndsAt, Cells
<1>2. PICK s \in Seq(0 .. 255) : /\ s = StringAt(m, r) /\ Len(s) = e - r
                                 /\ \A i \in 1 .. e - r : s[i] = m[r + i - 1]
  BY StringAtIs
<1>3. PICK t \in Seq(0 .. 255) : /\ t = StringAt(m, q) /\ Len(t) = n
                                 /\ \A i \in 1 .. n : t[i] = m[q + i - 1]
  BY StringAtIs
<1>4. PICK k \in 0 .. Len(s) : /\ k = IF n <= Len(s) THEN n ELSE Len(s)
                               /\ Prefix(s, n) = [i \in 1 .. k |-> s[i]]
                               /\ Prefix(s, n) \in Seq(0 .. 255) /\ Len(Prefix(s, n)) = k
  <2>1. n \in Nat
    BY <1>1
  <2> HIDE DEF n
  <2> QED
    BY <2>1, PrefixIs, Zenon
<1>5. \/ (\A j \in 0 .. n - 1 : m[r + j] = m[q + j]) /\ memcmp(m, r, q, n) = 0
      \/ (\E j \in 0 .. n - 1 : m[r + j] # m[q + j]) /\ memcmp(m, r, q, n) # 0
  <2>1. n \in Nat
    BY <1>1
  <2> HIDE DEF n
  <2>2. \/ /\ \A j \in 0 .. n - 1 : m[r + j] = m[q + j]
           /\ memcmp(m, r, q, n) = 0
        \/ \E j \in 0 .. n - 1 :
             /\ m[r + j] # m[q + j]
             /\ \A h \in 0 .. j - 1 : m[r + h] = m[q + h]
             /\ memcmp(m, r, q, n) = IF m[r + j] > m[q + j] THEN 1 ELSE -1
    BY <2>1, MemcmpIs
  <2>3. 1 # 0 /\ -1 # 0
    OBVIOUS
  <2> QED
    BY <2>2, <2>3, Zenon
<1> HIDE DEF n
<1>6. CASE r + n <= e
  <2>1. k = n /\ \A i \in 1 .. n : Prefix(s, n)[i] = m[r + (i - 1)]
    <3>1. k = n /\ \A i \in 1 .. n : i \in 1 .. e - r /\ r + (i - 1) = r + i - 1
      BY <1>1, <1>2, <1>4, <1>6
    <3> QED
      BY <1>2, <1>4, <3>1
  <2>2. \A i \in 1 .. n : t[i] = m[q + (i - 1)]
    <3>1. \A i \in 1 .. n : q + (i - 1) = q + i - 1
      BY <1>1
    <3> QED
      BY <1>3, <3>1
  <2>3. ASSUME \A j \in 0 .. n - 1 : m[r + j] = m[q + j]
        PROVE  Prefix(s, n) = t
    <3>1. \A i \in 1 .. n : i - 1 \in 0 .. n - 1
      BY <1>1
    <3>2. \A i \in 1 .. n : Prefix(s, n)[i] = t[i]
      BY <2>1, <2>2, <2>3, <3>1
    <3>3. PICK u \in Seq(0 .. 255) : u = Prefix(s, n) /\ Len(u) = n
      BY <1>4, <2>1, Zenon
    <3>4. u = t
      BY <1>3, <3>2, <3>3
    <3> QED
      BY <3>3, <3>4
  <2>4. ASSUME Prefix(s, n) = t
        PROVE  \A j \in 0 .. n - 1 : m[r + j] = m[q + j]
    <3> TAKE j \in 0 .. n - 1
    <3>1. j + 1 \in 1 .. n /\ (j + 1) - 1 = j
      BY <1>1
    <3>2. Prefix(s, n)[j + 1] = m[r + j] /\ t[j + 1] = m[q + j]
      BY <2>1, <2>2, <3>1
    <3> QED
      BY <2>4, <3>2
  <2> QED
    BY <1>2, <1>3, <1>5, <1>6, <2>3, <2>4 DEF n
<1>7. CASE ~ (r + n <= e)
  <2>1. Len(Prefix(s, n)) # Len(t)
    BY <1>1, <1>2, <1>3, <1>4, <1>7
  <2> QED
    BY <1>2, <1>3, <1>7, <2>1 DEF n
<1> QED
  BY <1>6, <1>7

(* strstr finds the first place of the needle, a needle that ends with the  *)
(* haystack included.                                                       *)
LEMMA StrstrIs ==
  ASSUME NEW m \in Memory, NEW p, NEW e, EndsAt(m, p, e), NEW q, NEW d, EndsAt(m, q, d)
  PROVE  strstr(m, p, q) =
           First({ r \in p .. e : Prefix(StringAt(m, r), d - q) = StringAt(m, q) })
<1> DEFINE n == d - q
           R == { r \in p .. e : Prefix(StringAt(m, r), d - q) = StringAt(m, q) }
           tries == (e - p) - n + 1
           K == { k \in 0 .. tries - 1 : memcmp(m, p + k, q, n) = 0 }
           i == Up(0, tries, K)
<1>1. p \in Nat /\ e \in Nat /\ p <= e /\ n \in Nat
  BY LengthIs, Places DEF EndsAt, Cells
<1>2. strstr(m, p, q) = IF e - p < n \/ i = tries THEN NULL ELSE p + i
  BY LengthIs DEF strstr
<1>3. ASSUME NEW r \in p .. e
      PROVE  r \in R <=> r + n <= e /\ memcmp(m, r, q, n) = 0
  BY <1>3, MatchIs, Suffixes
<1>4. R \in SUBSET Int
  BY <1>1
<1> HIDE DEF R, n
<1>5. CASE e - p < n
  <2>1. R = {}
    <3>1. \A r \in p .. e : ~ (r + n <= e)
      BY <1>1, <1>5
    <3> QED
      BY <1>3, <3>1 DEF R
  <2> QED
    BY <1>2, <1>5, <2>1 DEF First, R
<1>6. CASE ~ (e - p < n)
  <2>1. tries \in Nat
    BY <1>1, <1>6
  <2>2. PICK j \in 0 .. tries : /\ j = i
                                /\ j = tries \/ j \in K
                                /\ \A h \in 0 .. j - 1 : h \notin K
    <3> HIDE DEF tries, K
    <3> QED
      BY <2>1, UpStops
  <2>3. ASSUME NEW r \in R
        PROVE  r - p \in K /\ r - p \in Nat
    <3>1. r \in p .. e /\ r + n <= e /\ memcmp(m, r, q, n) = 0
      BY <1>3 DEF R
    <3>2. r - p \in 0 .. tries - 1 /\ p + (r - p) = r
      BY <1>1, <3>1
    <3> QED
      BY <3>1, <3>2
  <2>4. CASE j = tries
    <3>1. R = {}
      <4>1. SUFFICES ASSUME NEW r \in R PROVE FALSE
        OBVIOUS
      <4> QED
        BY <2>2, <2>3, <2>4
    <3> QED
      BY <1>2, <2>2, <2>4, <3>1 DEF First, R
  <2>5. CASE j # tries
    <3>1. j \in K
      BY <2>2, <2>5
    <3>2. p + j \in R
      <4>1. p + j \in p .. e /\ (p + j) + n <= e
        BY <1>1, <3>1
      <4> QED
        BY <1>3, <3>1, <4>1
    <3>3. ASSUME NEW r \in R
          PROVE  p + j <= r
      <4>1. r - p \in K /\ r - p \in Nat /\ r \in Int
        BY <1>4, <2>3
      <4>2. ~ (r - p < j)
        BY <2>2, <4>1
      <4> QED
        BY <1>1, <4>1, <4>2
    <3>4. First(R) = p + j
      BY <1>4, <3>2, <3>3, FirstIs
    <3> QED
      BY <1>2, <1>6, <2>2, <2>5, <3>4 DEF R
  <2> QED
    BY <2>4, <2>5
<1> QED
  BY <1>5, <1>6

----------------------------------------------------------------------------
(* Copies                                                                   *)

LEMMA CopiedType ==
  ASSUME NEW m \in Memory, NEW dst \in Nat, NEW src \in Nat, NEW size \in Nat, src + size <= Size
  PROVE  Copied(m, dst, src, size) \in Memory
<1>1. \A c \in Cells : c \in Span(dst, size) => src + c - dst \in Cells
  BY Places DEF Cells, Span
<1> QED
  BY <1>1 DEF Copied, Memory

(* One byte more, upwards: it has not been overwritten yet.                 *)
LEMMA CopiedUp ==
  ASSUME NEW m \in Memory, NEW dst \in Nat, NEW src \in Nat, NEW i \in Nat, i # 0,
         dst + i <= Size, src + i <= Size, dst <= src \/ src + i <= dst
  PROVE  Copied(m, dst, src, i) =
           [Copied(m, dst, src, i - 1) EXCEPT ![dst + i - 1] = Copied(m, dst, src, i - 1)[src + i - 1]]
<1> DEFINE before == Copied(m, dst, src, i - 1)
<1>1. src + i - 1 \in Cells /\ src + i - 1 \notin Span(dst, i - 1) /\ dst + i - 1 \in Cells
  BY Places DEF Cells, Span
<1>2. before[src + i - 1] = m[src + i - 1]
  BY <1>1 DEF Copied
<1>3. before = [c \in Cells |-> before[c]]
  BY DEF Copied
<1>4. \A c \in Cells : before[c] = IF c \in Span(dst, i - 1) THEN m[src + c - dst] ELSE m[c]
  BY DEF Copied
<1> HIDE DEF before
<1>5. \A c \in Cells : /\ c \in Span(dst, i) <=> c \in Span(dst, i - 1) \/ c = dst + i - 1
                       /\ c = dst + i - 1 => src + c - dst = src + i - 1
  BY Places DEF Cells, Span
<1>6. [before EXCEPT ![dst + i - 1] = before[src + i - 1]] =
        [c \in Cells |-> IF c = dst + i - 1 THEN m[src + i - 1] ELSE before[c]]
  BY <1>1, <1>2, <1>3, Zenon
<1>7. \A c \in Cells : (IF c = dst + i - 1 THEN m[src + i - 1] ELSE before[c]) =
                       IF c \in Span(dst, i) THEN m[src + c - dst] ELSE m[c]
  BY <1>4, <1>5, Zenon
<1> QED
  BY <1>6, <1>7, Zenon DEF Copied, before

(* What memcpy's loop has copied, byte by byte.                             *)
IsCopy(f, m, dst, src, size) ==
  f = [i \in 0 .. size |->
         IF i = 0 THEN m ELSE [f[i - 1] EXCEPT ![dst + i - 1] = f[i - 1][src + i - 1]]]

(* Upwards is right when the destination does not begin inside the source.  *)
LEMMA MemcpyIs ==
  ASSUME NEW m \in Memory, NEW dst \in Nat, NEW src \in Nat, NEW size \in Nat,
         dst + size <= Size, src + size <= Size, dst <= src \/ src + size <= dst
  PROVE  memcpy(m, dst, src, size) = Copied(m, dst, src, size)
<1> DEFINE copied[i \in 0 .. size] ==
             IF i = 0 THEN m
             ELSE [copied[i - 1] EXCEPT ![dst + i - 1] = copied[i - 1][src + i - 1]]
           f == [i \in 0 .. size |-> Copied(m, dst, src, i)]
<1>1. memcpy(m, dst, src, size) = copied[size]
  BY Zenon DEF memcpy
<1>2. Copied(m, dst, src, 0) = m
  <2>1. \A c \in Cells : c \notin Span(dst, 0)
    BY Places DEF Cells, Span
  <2> QED
    BY <2>1 DEF Copied, Memory
<1>3. ASSUME NEW i \in 0 .. size, i # 0
      PROVE  /\ i - 1 \in 0 .. size
             /\ Copied(m, dst, src, i) = [Copied(m, dst, src, i - 1) EXCEPT
                  ![dst + i - 1] = Copied(m, dst, src, i - 1)[src + i - 1]]
  <2>1. i \in Nat /\ dst + i <= Size /\ src + i <= Size /\ (dst <= src \/ src + i <= dst)
    BY Places
  <2>2. i - 1 \in 0 .. size
    BY <1>3
  <2> QED
    BY <1>3, <2>1, <2>2, CopiedUp
<1>4. IsCopy(f, m, dst, src, size)
  <2>1. \A i \in 0 .. size : f[i] = Copied(m, dst, src, i)
    OBVIOUS
  <2>2. f = [i \in 0 .. size |-> f[i]]
    OBVIOUS
  <2> HIDE DEF f
  <2>3. \A i \in 0 .. size :
          f[i] = IF i = 0 THEN m ELSE [f[i - 1] EXCEPT ![dst + i - 1] = f[i - 1][src + i - 1]]
    BY <1>2, <1>3, <2>1, Zenon
  <2> QED
    BY <2>2, <2>3, Zenon DEF IsCopy
<1> HIDE DEF f
<1>5. copied = [i \in 0 .. size |->
                  IF i = 0 THEN m
                  ELSE [copied[i - 1] EXCEPT ![dst + i - 1] = copied[i - 1][src + i - 1]]]
  <2>1. \E g : IsCopy(g, m, dst, src, size)
    BY <1>4
  <2> QED
    BY <2>1, Zenon DEF IsCopy
<1> HIDE DEF copied
<1> DEFINE S == { i \in 0 .. size : copied[i] = Copied(m, dst, src, i) }
<1>6. 0 \in S
  <2>1. 0 \in 0 .. size
    OBVIOUS
  <2> QED
    BY <1>2, <1>5, <2>1
<1>7. ASSUME NEW i \in 0 .. size - 1, i \in S
      PROVE  i + 1 \in S
  <2>1. i + 1 \in 0 .. size /\ i + 1 # 0 /\ (i + 1) - 1 = i
    OBVIOUS
  <2>2. copied[i + 1] = [copied[i] EXCEPT ![dst + (i + 1) - 1] = copied[i][src + (i + 1) - 1]]
    BY <1>5, <2>1
  <2> QED
    BY <1>3, <1>7, <2>1, <2>2
<1>8. 0 .. size \subseteq S
  <2> HIDE DEF S
  <2> QED
    BY <1>6, <1>7, UpTo
<1> QED
  BY <1>1, <1>8

(* What copy_backwards has copied after i bytes: the last i ones.           *)
CopiedEnd(m, dst, src, size, i) ==
  [c \in Cells |-> IF c \in dst + size - i .. dst + size - 1 THEN m[src + c - dst] ELSE m[c]]

(* One byte more, downwards.                                                *)
LEMMA CopiedDown ==
  ASSUME NEW m \in Memory, NEW dst \in Nat, NEW src \in Nat, NEW size \in Nat,
         dst + size <= Size, src + size <= Size, dst >= src, NEW i \in 1 .. size
  PROVE  CopiedEnd(m, dst, src, size, i) =
           [CopiedEnd(m, dst, src, size, i - 1) EXCEPT
              ![dst + size - i] = CopiedEnd(m, dst, src, size, i - 1)[src + size - i]]
<1> DEFINE before == CopiedEnd(m, dst, src, size, i - 1)
           lo == dst + size - i
           Old == dst + size - (i - 1) .. dst + size - 1
<1>1. src + size - i \in Cells /\ src + size - i \notin Old /\ lo \in Cells
  BY Places DEF Cells
<1>2. before[src + size - i] = m[src + size - i]
  BY <1>1 DEF CopiedEnd
<1>3. before = [c \in Cells |-> before[c]]
  BY DEF CopiedEnd
<1>4. \A c \in Cells : before[c] = IF c \in Old THEN m[src + c - dst] ELSE m[c]
  BY DEF CopiedEnd
<1> HIDE DEF before
<1>5. \A c \in Cells : /\ c \in dst + size - i .. dst + size - 1 <=> c \in Old \/ c = lo
                       /\ c = lo => src + c - dst = src + size - i
  BY Places DEF Cells
<1>6. [before EXCEPT ![lo] = before[src + size - i]] =
        [c \in Cells |-> IF c = lo THEN m[src + size - i] ELSE before[c]]
  BY <1>1, <1>2, <1>3, Zenon
<1> HIDE DEF Old
<1>7. \A c \in Cells : (IF c = lo THEN m[src + size - i] ELSE before[c]) =
                       IF c \in dst + size - i .. dst + size - 1 THEN m[src + c - dst] ELSE m[c]
  <2> HIDE DEF lo
  <2> QED
    BY <1>4, <1>5, Zenon
<1> QED
  BY <1>6, <1>7, Zenon DEF CopiedEnd, before

IsCopyBack(f, m, dst, src, size) ==
  f = [i \in 0 .. size |->
         IF i = 0 THEN m ELSE [f[i - 1] EXCEPT ![dst + size - i] = f[i - 1][src + size - i]]]

(* Downwards is right when the source does not begin inside the destination. *)
LEMMA CopyBackwardsIs ==
  ASSUME NEW m \in Memory, NEW dst \in Nat, NEW src \in Nat, NEW size \in Nat,
         dst + size <= Size, src + size <= Size, dst >= src
  PROVE  copy_backwards(m, dst, src, size) = Copied(m, dst, src, size)
<1> DEFINE copied[i \in 0 .. size] ==
             IF i = 0 THEN m
             ELSE [copied[i - 1] EXCEPT ![dst + size - i] = copied[i - 1][src + size - i]]
           f == [i \in 0 .. size |-> CopiedEnd(m, dst, src, size, i)]
<1>1. copy_backwards(m, dst, src, size) = copied[size]
  BY Zenon DEF copy_backwards
<1>2. CopiedEnd(m, dst, src, size, 0) = m
  <2>1. \A c \in Cells : c \notin dst + size - 0 .. dst + size - 1
    BY Places DEF Cells
  <2> QED
    BY <2>1 DEF CopiedEnd, Memory
<1>3. ASSUME NEW i \in 0 .. size, i # 0
      PROVE  /\ i - 1 \in 0 .. size
             /\ CopiedEnd(m, dst, src, size, i) = [CopiedEnd(m, dst, src, size, i - 1) EXCEPT
                  ![dst + size - i] = CopiedEnd(m, dst, src, size, i - 1)[src + size - i]]
  <2>1. i \in 1 .. size /\ i - 1 \in 0 .. size
    BY <1>3
  <2> QED
    BY <2>1, CopiedDown
<1>4. IsCopyBack(f, m, dst, src, size)
  <2>1. \A i \in 0 .. size : f[i] = CopiedEnd(m, dst, src, size, i)
    OBVIOUS
  <2>2. f = [i \in 0 .. size |-> f[i]]
    OBVIOUS
  <2> HIDE DEF f
  <2>3. \A i \in 0 .. size :
          f[i] = IF i = 0 THEN m ELSE [f[i - 1] EXCEPT ![dst + size - i] = f[i - 1][src + size - i]]
    BY <1>2, <1>3, <2>1, Zenon
  <2> QED
    BY <2>2, <2>3, Zenon DEF IsCopyBack
<1> HIDE DEF f
<1>5. copied = [i \in 0 .. size |->
                  IF i = 0 THEN m
                  ELSE [copied[i - 1] EXCEPT ![dst + size - i] = copied[i - 1][src + size - i]]]
  <2>1. \E g : IsCopyBack(g, m, dst, src, size)
    BY <1>4
  <2> QED
    BY <2>1, Zenon DEF IsCopyBack
<1> HIDE DEF copied
<1> DEFINE S == { i \in 0 .. size : copied[i] = CopiedEnd(m, dst, src, size, i) }
<1>6. 0 \in S
  <2>1. 0 \in 0 .. size
    OBVIOUS
  <2> QED
    BY <1>2, <1>5, <2>1
<1>7. ASSUME NEW i \in 0 .. size - 1, i \in S
      PROVE  i + 1 \in S
  <2>1. i + 1 \in 0 .. size /\ i + 1 # 0 /\ (i + 1) - 1 = i
    OBVIOUS
  <2>2. copied[i + 1] = [copied[i] EXCEPT ![dst + size - (i + 1)] = copied[i][src + size - (i + 1)]]
    BY <1>5, <2>1
  <2> QED
    BY <1>3, <1>7, <2>1, <2>2
<1>8. 0 .. size \subseteq S
  <2> HIDE DEF S
  <2> QED
    BY <1>6, <1>7, UpTo
<1>9. CopiedEnd(m, dst, src, size, size) = Copied(m, dst, src, size)
  <2>1. dst + size - size = dst
    OBVIOUS
  <2> QED
    BY <2>1 DEF CopiedEnd, Copied, Span
<1> QED
  BY <1>1, <1>8, <1>9

LEMMA MemmoveIs ==
  ASSUME NEW m \in Memory, NEW dst \in Nat, NEW src \in Nat, NEW size \in Nat,
         dst + size <= Size, src + size <= Size
  PROVE  memmove(m, dst, src, size) = Copied(m, dst, src, size)
<1>1. CASE dst < src
  BY <1>1, MemcpyIs DEF memmove
<1>2. CASE ~ (dst < src)
  BY <1>2, CopyBackwardsIs DEF memmove
<1> QED
  BY <1>1, <1>2

(* Stretches without a common place lie one behind the other.               *)
LEMMA DisjointSpans ==
  ASSUME NEW p \in Nat, NEW n \in Nat, NEW q \in Nat, NEW k \in Nat, Disjoint(p, n, q, k)
  PROVE  n = 0 \/ k = 0 \/ p + n <= q \/ q + k <= p
<1>1. SUFFICES ASSUME n # 0, k # 0, ~ (p + n <= q), ~ (q + k <= p) PROVE FALSE
  OBVIOUS
<1>2. CASE p <= q
  <2>1. q \in Span(p, n) /\ q \in Span(q, k)
    BY <1>1, <1>2 DEF Span
  <2> QED
    BY <2>1 DEF Disjoint
<1>3. CASE q <= p
  <2>1. p \in Span(p, n) /\ p \in Span(q, k)
    BY <1>1, <1>3 DEF Span
  <2> QED
    BY <2>1 DEF Disjoint
<1> QED
  BY <1>2, <1>3

LEMMA MemcpyOfDisjoint ==
  ASSUME NEW m \in Memory, NEW dst \in Nat, NEW src \in Nat, NEW size \in Nat,
         dst + size <= Size, src + size <= Size, Disjoint(dst, size, src, size)
  PROVE  memcpy(m, dst, src, size) = Copied(m, dst, src, size)
<1>1. size = 0 \/ dst + size <= src \/ src + size <= dst
  BY DisjointSpans
<1>2. dst <= src \/ src + size <= dst
  BY <1>1
<1> QED
  BY <1>2, MemcpyIs

(* What strlcpy and strlcat make of the destination, D characters of which  *)
(* are there already: k characters of the source and a terminator.          *)
Appends(w, m, dst, D, end, src, e, k, stop) ==
  /\ m \in Memory /\ EndsAt(m, src, e)
  /\ dst \in Nat /\ D \in Nat /\ k \in Nat /\ k <= e - src
  /\ end = dst + D /\ stop = end + k /\ stop < Size
  /\ stop <= src \/ src + k <= end
  /\ \A c \in dst .. end - 1 : m[c] # NUL
  /\ w = [memcpy(m, end, src, k) EXCEPT ![stop] = NUL]

\* What the memory holds when the NUL of that copy is written.
Appended(w, m, dst, D, end, src, k, stop) ==
  /\ w \in Memory
  /\ \A c \in Cells \ (end .. stop) : w[c] = m[c]
  /\ EndsAt(w, dst, stop)
  /\ StringAt(w, dst) \in Seq(0 .. 255) /\ Len(StringAt(w, dst)) = D + k
  /\ \A i \in 1 .. D : StringAt(w, dst)[i] = m[dst + i - 1]
  /\ \A i \in D + 1 .. D + k : StringAt(w, dst)[i] = StringAt(m, src)[i - D]

LEMMA AppendsIs ==
  ASSUME NEW w, NEW m, NEW dst, NEW D, NEW end, NEW src, NEW e, NEW k, NEW stop,
         Appends(w, m, dst, D, end, src, e, k, stop)
  PROVE  Appended(w, m, dst, D, end, src, k, stop)
<1>0. /\ m \in Memory /\ EndsAt(m, src, e)
      /\ dst \in Nat /\ D \in Nat /\ k \in Nat /\ k <= e - src
      /\ end = dst + D /\ stop = end + k /\ stop < Size /\ (stop <= src \/ src + k <= end)
      /\ \A c \in dst .. end - 1 : m[c] # NUL
  BY Zenon DEF Appends
<1> DEFINE M == Copied(m, end, src, k)
<1>1. /\ src \in Nat /\ e \in Nat /\ src <= e /\ e < Size /\ end \in Nat /\ end + k < Size
      /\ Size \in Nat /\ src + k <= Size /\ k \in Nat /\ k <= e - src /\ dst \in Nat /\ D \in Nat
  <2>1. src \in Nat /\ e \in Nat /\ src <= e /\ e < Size /\ Size \in Nat
    BY <1>0, LengthIs, Places DEF EndsAt, Cells
  <2> QED
    BY <1>0, <2>1
<1>2. memcpy(m, end, src, k) = M /\ M \in Memory
  BY <1>0, <1>1, MemcpyIs, CopiedType
<1>3. w = [M EXCEPT ![end + k] = NUL]
  BY <1>0, <1>2, Zenon DEF Appends
<1>4. \A c \in Cells : M[c] = IF c \in Span(end, k) THEN m[src + c - end] ELSE m[c]
  BY DEF Copied
<1> HIDE DEF M
<1>5. w \in Memory /\ \A c \in Cells : w[c] = IF c = end + k THEN NUL ELSE M[c]
  <2>1. M = [c \in Cells |-> M[c]] /\ \A c \in Cells : M[c] \in 0 .. 255
    BY <1>2 DEF Memory
  <2>2. w = [c \in Cells |-> IF c = end + k THEN NUL ELSE M[c]]
    BY <1>3, <2>1, Zenon
  <2>3. NUL \in 0 .. 255
    BY DEF NUL
  <2> QED
    BY <2>1, <2>2, <2>3 DEF Memory
<1>6. \A c \in Cells \ (end .. end + k) : w[c] = m[c]
  <2>1. \A c \in Cells \ (end .. end + k) : c # end + k /\ c \notin Span(end, k)
    BY <1>1, Places DEF Cells, Span
  <2> QED
    BY <1>4, <1>5, <2>1
<1>7. \A j \in 0 .. k - 1 : end + j \in Cells /\ w[end + j] = m[src + j]
  <2> TAKE j \in 0 .. k - 1
  <2>1. end + j \in Cells /\ end + j # end + k /\ end + j \in Span(end, k) /\ src + (end + j) - end = src + j
    BY <1>1, Places DEF Cells, Span
  <2> QED
    BY <1>4, <1>5, <2>1
<1>8. \A c \in dst .. end - 1 : c \in Cells /\ w[c] = m[c]
  <2>1. \A c \in dst .. end - 1 : c \in Cells \ (end .. end + k)
    BY <1>0, <1>1, Places DEF Cells
  <2> QED
    BY <1>6, <2>1
<1>9. EndsAt(w, dst, stop)
  <2>1. dst \in Cells /\ stop \in dst .. Size - 1 /\ end + k \in Cells /\ stop = end + k
    BY <1>0, <1>1, Places DEF Cells
  <2>2. w[stop] = NUL
    BY <1>5, <2>1
  <2>3. ASSUME NEW c \in dst .. stop - 1
        PROVE  w[c] # NUL
    <3>1. CASE c < end
      <4>1. c \in dst .. end - 1
        BY <3>1, <1>1, <2>1
      <4> QED
        BY <1>0, <1>8, <4>1
    <3>2. CASE ~ (c < end)
      <4>1. c - end \in 0 .. k - 1 /\ end + (c - end) = c /\ src + (c - end) \in src .. e - 1
        BY <3>2, <1>1, <2>1
      <4> QED
        BY <1>0, <1>7, <4>1 DEF EndsAt
    <3> QED
      BY <3>1, <3>2
  <2> QED
    BY <2>1, <2>2, <2>3 DEF EndsAt
<1>10. (end + k) - dst = D + k
  BY <1>0
<1>11. /\ StringAt(w, dst) \in Seq(0 .. 255) /\ Len(StringAt(w, dst)) = D + k
       /\ \A i \in 1 .. D + k : StringAt(w, dst)[i] = w[dst + i - 1]
  <2>1. stop - dst = D + k /\ w \in Memory /\ EndsAt(w, dst, stop)
    BY <1>0, <1>5, <1>9, <1>10
  <2>2. /\ StringAt(w, dst) \in Seq(0 .. 255) /\ Len(StringAt(w, dst)) = stop - dst
        /\ \A i \in 1 .. stop - dst : StringAt(w, dst)[i] = w[dst + i - 1]
    <3>1. w \in Memory /\ EndsAt(w, dst, stop)
      BY <2>1
    <3> QED
      BY <3>1, StringAtIs
  <2> QED
    BY <2>1, <2>2
<1>12. \A i \in 1 .. D : StringAt(w, dst)[i] = m[dst + i - 1]
  <2>1. \A i \in 1 .. D : i \in 1 .. D + k /\ dst + i - 1 \in dst .. end - 1
    BY <1>0
  <2> QED
    BY <1>8, <1>11, <2>1
<1>13. \A i \in D + 1 .. D + k : StringAt(w, dst)[i] = StringAt(m, src)[i - D]
  <2> TAKE i \in D + 1 .. D + k
  <2>1. /\ i \in 1 .. D + k /\ i - D \in 1 .. e - src
        /\ dst + i - 1 = end + (i - D - 1) /\ i - D - 1 \in 0 .. k - 1
        /\ src + (i - D) - 1 = src + (i - D - 1)
    BY <1>0, <1>1
  <2>2. StringAt(m, src)[i - D] = m[src + (i - D) - 1]
    <3>1. \A h \in 1 .. e - src : StringAt(m, src)[h] = m[src + h - 1]
      <4>1. m \in Memory /\ EndsAt(m, src, e)
        BY <1>0
      <4> QED
        BY <4>1, StringAtIs
    <3> QED
      BY <2>1, <3>1
  <2> QED
    BY <1>7, <1>11, <2>1, <2>2
<1>14. \A c \in Cells \ (end .. stop) : w[c] = m[c]
  BY <1>0, <1>6
<1> QED
  BY <1>5, <1>9, <1>11, <1>12, <1>13, <1>14, Zenon DEF Appended

LEMMA StrlcpyIs ==
  ASSUME NEW m \in Memory, NEW dst \in Pointers, NEW src \in Pointers, NEW size \in 0 .. Size,
         MayCopyString(m, dst, src, size)
  PROVE  LET w == strlcpy(m, dst, src, size) IN
         /\ w \in Memory
         /\ \A c \in Cells \ Span(dst, size) : w[c] = m[c]
         /\ size > 0 => StringAt(w, dst) = Prefix(StringAt(m, src), size - 1)
<1>1. PICK e \in Cells : EndsAt(m, src, e)
  BY StringEnds DEF MayCopyString
<1>2. dst \in Nat /\ size \in Nat /\ dst + size <= Size /\ src \in Nat /\ e \in Nat /\ src <= e /\ e < Size
  BY <1>1, Places DEF MayCopyString, InMemory, Pointers, EndsAt, Cells
<1>3. strlen(m, src) = e - src /\ Length(m, src) = e - src
  BY <1>1, LengthIs
<1>4. CASE size = 0
  BY <1>2, <1>4 DEF strlcpy
<1>5. CASE size > 0
  <2>1. PICK k \in Nat : /\ k = IF e - src <= size - 1 THEN e - src ELSE size - 1
                         /\ k <= size - 1
    <3>1. e - src \in Nat /\ size - 1 \in Nat
      BY <1>2, <1>5
    <3> QED
      BY <3>1
  <2>2. k = Min({strlen(m, src), size - 1}) /\ k \in Nat /\ k <= e - src
    BY <1>2, <1>3, <2>1, MinOfTwo
  <2>3. dst + size <= src \/ e + 1 <= dst
    <3>1. Disjoint(dst, size, src, (e - src) + 1)
      BY <1>3 DEF MayCopyString
    <3>2. (e - src) + 1 \in Nat
      BY <1>2
    <3> QED
      BY <1>2, <1>5, <3>1, <3>2, DisjointSpans
  <2>8. PICK w : w = strlcpy(m, dst, src, size)
    OBVIOUS
  <2>0. PICK D \in Nat, end \in Nat, stop \in Nat : D = 0 /\ end = dst + D /\ stop = end + k
    BY <1>2, <2>2
  <2>4. w = [memcpy(m, end, src, k) EXCEPT ![stop] = NUL]
    <3>1. w = [memcpy(m, dst, src, k) EXCEPT ![dst + k] = NUL]
      BY <1>5, <2>2, <2>8 DEF strlcpy
    <3>2. end = dst
      BY <1>2, <2>0
    <3> QED
      BY <2>0, <3>1, <3>2, Zenon
  <2>5. /\ w \in Memory
        /\ \A c \in Cells \ (end .. stop) : w[c] = m[c]
        /\ EndsAt(w, dst, stop)
        /\ StringAt(w, dst) \in Seq(0 .. 255) /\ Len(StringAt(w, dst)) = D + k
        /\ \A i \in 1 .. D : StringAt(w, dst)[i] = m[dst + i - 1]
        /\ \A i \in D + 1 .. D + k : StringAt(w, dst)[i] = StringAt(m, src)[i - D]
    <3>1. k \in Nat /\ k <= e - src /\ k <= size - 1
      BY <1>2, <2>1
    <3>2. /\ stop < Size
          /\ stop <= src \/ src + k <= end
          /\ \A c \in dst .. end - 1 : m[c] # NUL
      BY <1>2, <2>0, <2>3, <3>1, Places
    <3>9. Appends(w, m, dst, D, end, src, e, k, stop)
      <4>1. dst \in Nat /\ k \in Nat /\ k <= e - src
        BY <1>2, <2>2
      <4> QED
        BY <1>1, <2>0, <2>4, <3>2, <4>1, Zenon DEF Appends
    <3>10. Appended(w, m, dst, D, end, src, k, stop)
      BY <3>9, AppendsIs, Zenon
    <3> QED
      BY <3>10, Zenon DEF Appended
  <2>6. \A c \in Cells \ Span(dst, size) : w[c] = m[c]
    <3>1. \A c \in Cells \ Span(dst, size) : c \notin end .. stop
      BY <1>2, <2>0, <2>1, Places DEF Cells, Span
    <3> QED
      BY <2>5, <3>1
  <2>7. StringAt(w, dst) = Prefix(StringAt(m, src), size - 1)
    <3>1. PICK s \in Seq(0 .. 255) : s = StringAt(m, src) /\ Len(s) = e - src
      BY <1>1, StringAtIs
    <3>2. PICK u \in Seq(0 .. 255) : u = Prefix(s, size - 1) /\ Len(u) = k /\ \A i \in 1 .. k : u[i] = s[i]
      <4>1. size - 1 \in Nat
        BY <1>2, <1>5
      <4>2. PICK h \in 0 .. Len(s) : /\ h = IF size - 1 <= Len(s) THEN size - 1 ELSE Len(s)
                                     /\ Prefix(s, size - 1) = [i \in 1 .. h |-> s[i]]
                                     /\ Prefix(s, size - 1) \in Seq(0 .. 255)
                                     /\ Len(Prefix(s, size - 1)) = h
        BY <4>1, PrefixIs
      <4>3. h = k
        BY <1>2, <2>1, <3>1, <4>2
      <4> QED
        BY <4>2, <4>3
    <3>3. PICK v \in Seq(0 .. 255) : v = StringAt(w, dst) /\ Len(v) = k /\ \A i \in 1 .. k : v[i] = s[i]
      <4>1. D + k = k /\ \A i \in 1 .. k : i \in D + 1 .. D + k /\ i - D = i
        BY <2>0, <2>1
      <4> QED
        BY <2>5, <3>1, <4>1
    <3>4. u = v
      BY <3>2, <3>3
    <3> QED
      BY <3>1, <3>2, <3>3, <3>4
  <2> QED
    BY <2>5, <2>6, <2>7, <2>8
<1> QED
  BY <1>2, <1>4, <1>5

LEMMA StrlcatIs ==
  ASSUME NEW m \in Memory, NEW dst \in Pointers, NEW src \in Pointers, NEW size \in 0 .. Size,
         MayAppendString(m, dst, src, size)
  PROVE  LET w == strlcat(m, dst, src, size)
             both == StringAt(m, dst) \o StringAt(m, src)
         IN  /\ w \in Memory
             /\ \A c \in Cells \ Span(dst, size) : w[c] = m[c]
             /\ StringAt(w, dst) = IF Length(m, dst) >= size THEN StringAt(m, dst)
                                   ELSE Prefix(both, size - 1)
<1>1. PICK e \in Cells : EndsAt(m, src, e)
  BY StringEnds DEF MayAppendString, MayCopyString
<1>2. PICK d \in Cells : EndsAt(m, dst, d)
  BY StringEnds DEF MayAppendString
<1>3. /\ dst \in Nat /\ size \in Nat /\ dst + size <= Size /\ src \in Nat
      /\ e \in Nat /\ src <= e /\ e < Size /\ d \in Nat /\ dst <= d /\ d < Size
  BY <1>1, <1>2, Places DEF MayAppendString, MayCopyString, InMemory, Pointers, EndsAt, Cells
<1>4. /\ strlen(m, src) = e - src /\ Length(m, src) = e - src
      /\ strlen(m, dst) = d - dst /\ Length(m, dst) = d - dst
  BY <1>1, <1>2, LengthIs
<1>5. CASE d - dst >= size
  BY <1>3, <1>4, <1>5 DEF strlcat
<1>6. CASE d - dst < size
  <2> DEFINE both == StringAt(m, dst) \o StringAt(m, src)
  <2>8. PICK w : w = strlcat(m, dst, src, size)
    OBVIOUS
  <2>0. PICK D \in Nat : D = d - dst /\ d = dst + D /\ D < size
    <3>1. d - dst \in Nat
      BY <1>3
    <3> QED
      BY <1>3, <1>6, <3>1
  <2>1. PICK k \in Nat : /\ k = IF e - src <= size - D - 1 THEN e - src ELSE size - D - 1
                         /\ D = d - dst /\ d = dst + D /\ D < size
                         /\ k <= e - src /\ k <= size - D - 1
    <3>1. e - src \in Nat /\ size - D - 1 \in Nat
      BY <1>3, <2>0
    <3> QED
      BY <2>0, <3>1
  <2>2. k = Min({strlen(m, src), size - D - 1}) /\ k <= e - src /\ k <= size - D - 1
    BY <1>3, <1>4, <2>1, MinOfTwo
  <2>3. dst + size <= src \/ e + 1 <= dst
    <3>1. Disjoint(dst, size, src, (e - src) + 1)
      BY <1>4 DEF MayAppendString, MayCopyString
    <3>2. (e - src) + 1 \in Nat
      BY <1>3
    <3> QED
      BY <1>3, <1>6, <3>1, <3>2, DisjointSpans
  <2>9. PICK end \in Nat, stop \in Nat : end = dst + D /\ stop = end + k
    BY <1>3
  <2>4. w = [memcpy(m, end, src, k) EXCEPT ![stop] = NUL]
    <3>1. ~ (size = 0 \/ D >= size)
      BY <1>3, <2>1
    <3> QED
      BY <1>4, <2>1, <2>2, <2>8, <2>9, <3>1 DEF strlcat
  <2>5. /\ w \in Memory
        /\ \A c \in Cells \ (end .. stop) : w[c] = m[c]
        /\ EndsAt(w, dst, stop)
        /\ StringAt(w, dst) \in Seq(0 .. 255) /\ Len(StringAt(w, dst)) = D + k
        /\ \A i \in 1 .. D : StringAt(w, dst)[i] = m[dst + i - 1]
        /\ \A i \in D + 1 .. D + k : StringAt(w, dst)[i] = StringAt(m, src)[i - D]
    <3>1. stop < Size /\ (stop <= src \/ src + k <= end)
      BY <1>3, <2>1, <2>3, <2>9, Places
    <3>2. \A c \in dst .. end - 1 : m[c] # NUL
      BY <1>2, <2>1, <2>9 DEF EndsAt
    <3>9. Appends(w, m, dst, D, end, src, e, k, stop)
      <4>1. dst \in Nat /\ k <= e - src
        BY <1>3, <2>2
      <4> QED
        BY <1>1, <2>0, <2>4, <2>9, <3>1, <3>2, <4>1, Zenon DEF Appends
    <3>10. Appended(w, m, dst, D, end, src, k, stop)
      BY <3>9, AppendsIs, Zenon
    <3> QED
      BY <3>10, Zenon DEF Appended
  <2>6. \A c \in Cells \ Span(dst, size) : w[c] = m[c]
    <3>1. \A c \in Cells \ Span(dst, size) : c \notin end .. stop
      BY <1>3, <2>1, <2>9, Places DEF Cells, Span
    <3> QED
      BY <2>5, <3>1
  <2>7. StringAt(w, dst) = Prefix(both, size - 1)
    <3>1. PICK s \in Seq(0 .. 255) : s = StringAt(m, src) /\ Len(s) = e - src
      BY <1>1, StringAtIs
    <3>2. PICK t \in Seq(0 .. 255) : /\ t = StringAt(m, dst) /\ Len(t) = D
                                     /\ \A i \in 1 .. D : t[i] = m[dst + i - 1]
      BY <1>2, <2>1, StringAtIs
    <3>0. PICK b \in Seq(0 .. 255) :
            /\ b = t \o s /\ Len(b) = Len(t) + Len(s)
            /\ \A i \in 1 .. Len(t) : b[i] = t[i]
            /\ \A i \in Len(t) + 1 .. Len(t) + Len(s) : b[i] = s[i - Len(t)]
      <4>1. /\ t \o s \in Seq(0 .. 255) /\ Len(t \o s) = Len(t) + Len(s)
            /\ \A i \in 1 .. Len(t) : (t \o s)[i] = t[i]
            /\ \A i \in Len(t) + 1 .. Len(t) + Len(s) : (t \o s)[i] = s[i - Len(t)]
        OBVIOUS
      <4> QED
        BY <4>1, Zenon
    <3>3. /\ b = both /\ Len(b) = D + (e - src)
          /\ \A i \in 1 .. D : b[i] = t[i]
          /\ \A i \in D + 1 .. D + (e - src) : b[i] = s[i - D]
      BY <3>0, <3>1, <3>2, Zenon
    <3>4. PICK u \in Seq(0 .. 255) : u = Prefix(b, size - 1) /\ Len(u) = D + k /\ \A i \in 1 .. D + k : u[i] = b[i]
      <4>1. size - 1 \in Nat
        BY <1>3, <1>6
      <4>2. PICK h \in 0 .. Len(b) : /\ h = IF size - 1 <= Len(b) THEN size - 1 ELSE Len(b)
                                     /\ Prefix(b, size - 1) = [i \in 1 .. h |-> b[i]]
                                     /\ Prefix(b, size - 1) \in Seq(0 .. 255)
                                     /\ Len(Prefix(b, size - 1)) = h
        BY <4>1, PrefixIs
      <4>3. h = IF size - 1 <= D + (e - src) THEN size - 1 ELSE D + (e - src)
        BY <3>3, <4>2, Zenon
      <4>4. h = D + k
        BY <1>3, <2>1, <4>3
      <4> QED
        BY <4>2, <4>4
    <3>5. PICK v \in Seq(0 .. 255) : v = StringAt(w, dst) /\ Len(v) = D + k /\ \A i \in 1 .. D + k : v[i] = b[i]
      <4>1. \A i \in 1 .. D : StringAt(w, dst)[i] = b[i]
        BY <2>5, <3>2, <3>3
      <4>2. \A i \in D + 1 .. D + k : StringAt(w, dst)[i] = b[i]
        <5>1. \A i \in D + 1 .. D + k : i \in D + 1 .. D + (e - src)
          BY <1>3, <2>2
        <5> QED
          BY <2>5, <3>1, <3>3, <5>1
      <4>3. \A i \in 1 .. D + k : i \in 1 .. D \/ i \in D + 1 .. D + k
        OBVIOUS
      <4> QED
        <5>1. \A i \in 1 .. D + k : StringAt(w, dst)[i] = b[i]
          BY <4>1, <4>2, <4>3, Zenon
        <5> QED
          BY <2>5, <5>1, Zenon
    <3>6. u = v
      <4>1. Len(u) = Len(v) /\ \A i \in 1 .. Len(u) : u[i] = v[i]
        BY <3>4, <3>5, Zenon
      <4> QED
        BY <4>1
    <3> QED
      BY <3>3, <3>4, <3>5, <3>6
  <2>10. w \in Memory /\ ~ (Length(m, dst) >= size)
    BY <1>3, <1>4, <1>6, <2>5
  <2> QED
    BY <2>6, <2>7, <2>8, <2>10, Zenon
<1> QED
  BY <1>3, <1>5, <1>6

----------------------------------------------------------------------------
(* strtok_r                                                                 *)

Token == [begin : Cells \cup {NULL}, end : Cells, from : Cells, delimiters : CharSets]

(* Where the call behind a token goes on, o being the memory before the     *)
(* first call.                                                              *)
After(o, t) == IF o[t.end] = NUL THEN t.end ELSE t.end + 1

(* A token is the next word of the string, all of it before s, and is still *)
(* in the memory.                                                           *)
WordIn(m, o, s, t) ==
  /\ t.from <= t.end /\ t.end <= s
  /\ \E e \in Cells : EndsAt(o, t.from, e) /\ t.end <= e
  /\ t.begin = NULL =>
       o[t.end] = NUL /\ \A q \in t.from .. t.end - 1 : o[q] \in t.delimiters
  /\ t.begin # NULL =>
       /\ t.begin \in t.from .. t.end - 1
       /\ \A q \in t.from .. t.begin - 1 : o[q] \in t.delimiters
       /\ \A q \in t.begin .. t.end - 1 : o[q] \notin t.delimiters \cup {NUL} /\ m[q] = o[q]
       /\ m[t.end] = NUL /\ o[t.end] \in t.delimiters \cup {NUL}

TypeInv ==
  /\ mem \in Memory /\ original \in Memory
  /\ tokens \in Seq(Token)
  /\ save_ptr \in Cells \cup {NULL}
  /\ save_ptr = NULL => tokens = <<>>

(* While a string is being taken apart: what is left of it is as it was,    *)
(* each call went on where the one before had stopped, and every token so   *)
(* far is a word.                                                           *)
TokenInv ==
  save_ptr # NULL =>
    /\ tokens # <<>> /\ save_ptr = After(original, tokens[Len(tokens)])
    /\ \E e \in Cells : EndsAt(original, save_ptr, e)
    /\ \A q \in Cells : q >= save_ptr => mem[q] = original[q]
    /\ \A k \in 2 .. Len(tokens) : tokens[k].from = After(original, tokens[k - 1])
    /\ \A k \in 1 .. Len(tokens) : WordIn(mem, original, save_ptr, tokens[k])

Inv == TypeInv /\ TokenInv

(* One call of strtok_r: where the string s has its end at e and is still   *)
(* as it was in o.                                                          *)
LEMMA TokenIs ==
  ASSUME mem \in Memory, NEW o \in Memory, NEW s, NEW e, EndsAt(o, s, e),
         \A q \in Cells : q >= s => mem[q] = o[q],
         NEW delimiters \in CharSets, NEW before, TokenFrom(s, delimiters, before)
  PROVE  \E t \in Token :
           /\ tokens' = Append(before, t) /\ t.from = s
           /\ mem' \in Memory /\ save_ptr' \in Cells
           /\ save_ptr' = After(o, t) /\ s <= t.end /\ s <= save_ptr'
           /\ EndsAt(o, save_ptr', e)
           /\ \A q \in Cells : q >= save_ptr' => mem'[q] = o[q]
           /\ \A q \in Cells : mem'[q] = mem[q] \/ (q = t.end /\ mem'[q] = NUL)
           /\ WordIn(mem', o, save_ptr', t)
<1>1. /\ s \in Nat /\ e \in Nat /\ s <= e /\ e < Size /\ s \in Cells /\ e \in Cells
      /\ Size \in Nat /\ NULL \notin Cells
      /\ \A q \in s .. e : q \in Cells
  BY LengthIs, Places DEF EndsAt, Cells
<1>2. \A q \in s .. e : mem[q] = o[q]
  BY <1>1
<1>3. EndsAt(mem, s, e)
  <2>1. o[e] = NUL /\ \A q \in s .. e - 1 : o[q] # NUL
    BY Zenon DEF EndsAt
  <2>2. \A q \in s .. e - 1 : q \in s .. e
    BY <1>1
  <2>3. mem[e] = NUL /\ \A q \in s .. e - 1 : mem[q] # NUL
    BY <1>1, <1>2, <2>1, <2>2
  <2> QED
    BY <1>1, <2>3 DEF EndsAt
<1>4. NUL \notin delimiters
  BY CStringAssumption
<1>5. PICK begin \in s .. e : /\ begin = PastThese(mem, s, delimiters)
                              /\ mem[begin] \notin delimiters
                              /\ \A q \in s .. begin - 1 : mem[q] \in delimiters
  <2>1. /\ PastThese(mem, s, delimiters) \in s .. e
        /\ mem[PastThese(mem, s, delimiters)] \notin delimiters
        /\ \A q \in s .. PastThese(mem, s, delimiters) - 1 : mem[q] \in delimiters
    BY <1>3, <1>4, SpansAre
  <2> QED
    BY <2>1, Zenon
<1>6. EndsAt(mem, begin, e) /\ EndsAt(o, begin, e)
  BY <1>3, <1>5, Suffixes
<1>7. PICK end \in begin .. e : /\ end = UpToOneOf(mem, begin, delimiters)
                                /\ mem[end] \in delimiters \cup {NUL}
                                /\ \A q \in begin .. end - 1 : mem[q] \notin delimiters \cup {NUL}
  <2>1. /\ UpToOneOf(mem, begin, delimiters) \in begin .. e
        /\ mem[UpToOneOf(mem, begin, delimiters)] \in delimiters \cup {NUL}
        /\ \A q \in begin .. UpToOneOf(mem, begin, delimiters) - 1 : mem[q] \notin delimiters \cup {NUL}
    <3>1. EndsAt(mem, begin, e)
      BY <1>6
    <3> QED
      BY <1>4, <3>1, SpansAre
  <2> QED
    BY <2>1, Zenon
<1>8. /\ begin \in Cells /\ end \in Cells /\ begin \in Nat /\ end \in Nat
      /\ s <= begin /\ begin <= end /\ end <= e /\ end \in s .. e
  BY <1>1, <1>5, <1>7
<1>9. /\ mem' = IF mem[begin] # NUL THEN [mem EXCEPT ![end] = NUL] ELSE mem
      /\ save_ptr' = IF mem[begin] # NUL THEN Behind(mem, end) ELSE begin
      /\ tokens' = Append(before, [begin |-> IF mem[begin] # NUL THEN begin ELSE NULL, end |-> end,
                                   from |-> s, delimiters |-> delimiters])
  BY <1>5, <1>7 DEF TokenFrom
<1>10. CASE mem[begin] = NUL
  <2>1. begin = e /\ end = e
    BY <1>6, <1>8, <1>10, Places DEF EndsAt
  <2>2. PICK t \in Token : t = [begin |-> NULL, end |-> e, from |-> s, delimiters |-> delimiters]
    BY <1>1 DEF Token
  <2>3. t.begin = NULL /\ t.end = e /\ t.from = s /\ t.delimiters = delimiters
    BY <2>2
  <2>4. tokens' = Append(before, t) /\ mem' = mem /\ save_ptr' = e
    BY <1>9, <1>10, <2>1, <2>2
  <2>5. o[e] = NUL
    BY DEF EndsAt
  <2>6. \A q \in s .. e - 1 : o[q] \in delimiters
    <3>1. \A q \in s .. e - 1 : q \in s .. e
      BY <1>1
    <3> QED
      BY <1>2, <1>5, <2>1, <3>1
  <2>7. After(o, t) = e
    BY <2>3, <2>5 DEF After
  <2>8. EndsAt(o, e, e)
    BY <1>6, <2>1
  <2>9. WordIn(mem', o, save_ptr', t)
    <3>1. t.from <= t.end /\ t.end <= save_ptr'
      BY <1>1, <2>3, <2>4
    <3>2. \E x \in Cells : EndsAt(o, t.from, x) /\ t.end <= x
      BY <1>1, <2>3
    <3>3. t.begin = NULL /\ o[t.end] = NUL /\ \A q \in t.from .. t.end - 1 : o[q] \in t.delimiters
      BY <2>3, <2>5, <2>6, Zenon
    <3> QED
      BY <3>1, <3>2, <3>3, Zenon DEF WordIn
  <2>10. \A q \in Cells : q >= e => mem[q] = o[q]
    BY <1>1, Places DEF Cells
  <2> QED
    <3>1. s <= t.end /\ s <= save_ptr' /\ save_ptr' \in Cells /\ mem' \in Memory
      BY <1>1, <2>3, <2>4
    <3>2. save_ptr' = After(o, t) /\ EndsAt(o, save_ptr', e)
      BY <2>4, <2>7, <2>8
    <3>3. /\ \A q \in Cells : q >= save_ptr' => mem'[q] = o[q]
          /\ \A q \in Cells : mem'[q] = mem[q] \/ (q = t.end /\ mem'[q] = NUL)
      BY <2>4, <2>10
    <3> QED
      BY <2>3, <2>4, <2>9, <3>1, <3>2, <3>3, Zenon
<1>11. CASE mem[begin] # NUL
  <2>1. begin <= end - 1
    <3>1. begin # end
      BY <1>5, <1>7, <1>11
    <3> QED
      BY <1>8, <3>1
  <2>2. PICK t \in Token : t = [begin |-> begin, end |-> end, from |-> s, delimiters |-> delimiters]
    BY <1>1, <1>8 DEF Token
  <2>3. t.begin = begin /\ t.end = end /\ t.from = s /\ t.delimiters = delimiters
    BY <2>2
  <2>4. tokens' = Append(before, t) /\ mem' = [mem EXCEPT ![end] = NUL] /\ save_ptr' = Behind(mem, end)
    BY <1>9, <1>11, <2>2
  <2>5. mem[end] = o[end]
    BY <1>2, <1>8
  <2>6. PICK p \in Nat : p = save_ptr' /\ p = After(o, t) /\ (o[end] = NUL => p = end) /\ (o[end] # NUL => p = end + 1)
    <3>1. save_ptr' = After(o, t)
      BY <2>3, <2>4, <2>5 DEF After, Behind
    <3> QED
      BY <1>8, <2>3, <3>1 DEF After
  <2>7. mem' = [c \in Cells |-> IF c = end THEN NUL ELSE mem[c]]
    <3>1. mem = [c \in Cells |-> mem[c]]
      BY DEF Memory
    <3> QED
      BY <2>4, <3>1, Zenon
  <2>8. mem' \in Memory
    <3>1. \A c \in Cells : mem[c] \in 0 .. 255
      BY DEF Memory
    <3> QED
      BY <2>7, <3>1 DEF Memory, NUL
  <2>9. \A q \in Cells : mem'[q] = IF q = end THEN NUL ELSE mem[q]
    BY <2>7
  <2>10. p \in s .. e /\ end <= p
    <3>1. o[end] # NUL => end # e
      BY DEF EndsAt
    <3> QED
      BY <1>1, <1>8, <2>6, <3>1
  <2>11. EndsAt(o, p, e)
    BY <2>10, Suffixes
  <2>12. \A q \in Cells : q >= p => mem'[q] = o[q]
    <3> TAKE q \in Cells
    <3>1. HAVE q >= p
    <3>2. q \in Nat /\ q >= s /\ mem[q] = o[q]
      BY <1>1, <2>10, <3>1, Places DEF Cells
    <3>3. CASE q = end
      <4>1. o[end] = NUL
        BY <1>8, <2>6, <3>1, <3>3
      <4> QED
        BY <2>9, <3>3, <4>1
    <3>4. CASE q # end
      BY <2>9, <3>2, <3>4, Zenon
    <3> QED
      BY <3>3, <3>4
  <2>13. WordIn(mem', o, p, t)
    <3>1. \A q \in s .. begin - 1 : o[q] \in delimiters
      <4>1. \A q \in s .. begin - 1 : q \in s .. e
        BY <1>1, <1>8
      <4> QED
        BY <1>2, <1>5, <4>1
    <3>2. \A q \in begin .. end - 1 : o[q] \notin delimiters \cup {NUL} /\ mem'[q] = o[q]
      <4>1. \A q \in begin .. end - 1 : q \in s .. e /\ q \in Cells /\ q # end
        BY <1>1, <1>8
      <4> QED
        BY <1>2, <1>7, <2>9, <4>1
    <3>3. mem'[end] = NUL /\ o[end] \in delimiters \cup {NUL}
      BY <1>7, <1>8, <2>5, <2>9
    <3>4. begin # NULL
      BY <1>1, <1>8
    <3>5. begin \in s .. end - 1 /\ s <= end /\ end <= p
      BY <1>1, <1>8, <2>1, <2>10
    <3> QED
      <4>1. t.from <= t.end /\ t.end <= p
        BY <2>3, <3>5
      <4>2. \E x \in Cells : EndsAt(o, t.from, x) /\ t.end <= x
        BY <1>1, <1>8, <2>3
      <4>3. t.begin # NULL /\ t.begin \in t.from .. t.end - 1
        BY <2>3, <3>4, <3>5, Zenon
      <4>4. /\ \A q \in t.from .. t.begin - 1 : o[q] \in t.delimiters
            /\ \A q \in t.begin .. t.end - 1 : o[q] \notin t.delimiters \cup {NUL} /\ mem'[q] = o[q]
            /\ mem'[t.end] = NUL /\ o[t.end] \in t.delimiters \cup {NUL}
        BY <2>3, <3>1, <3>2, <3>3, Zenon
      <4> QED
        BY <4>1, <4>2, <4>3, <4>4, Zenon DEF WordIn
  <2>14. p \in Cells /\ s <= p /\ s <= end
    BY <1>1, <1>8, <2>10
  <2>15. \A q \in Cells : mem'[q] = mem[q] \/ (q = t.end /\ mem'[q] = NUL)
    BY <2>3, <2>9, Zenon
  <2>16. s <= t.end
    BY <2>3, <2>14
  <2> QED
    BY <2>3, <2>4, <2>6, <2>8, <2>11, <2>12, <2>13, <2>14, <2>15, <2>16, Zenon
<1> QED
  BY <1>10, <1>11

----------------------------------------------------------------------------
(* The invariant                                                            *)

LEMMA InvInit == Init => Inv
<1> SUFFICES ASSUME Init PROVE Inv
  OBVIOUS
<1>1. mem \in Memory /\ original \in Memory
  BY DEF Init, Memory, NUL
<1>2. save_ptr = NULL /\ tokens = <<>>
  BY DEF Init
<1>3. tokens \in Seq(Token)
  BY <1>2
<1> QED
  BY <1>1, <1>2, <1>3 DEF Inv, TypeInv, TokenInv

LEMMA WritesStep ==
  ASSUME Inv, NEW m \in Memory, Writes(m)
  PROVE  Inv'
<1>1. mem' \in Memory /\ original' \in Memory /\ save_ptr' = NULL /\ tokens' = tokens /\ tokens = <<>>
  BY DEF Writes, Inv, TypeInv
<1>2. TypeInv'
  BY <1>1 DEF Inv, TypeInv
<1>3. TokenInv'
  BY <1>1 DEF TokenInv
<1> QED
  BY <1>2, <1>3 DEF Inv

LEMMA FillStep == Inv /\ Fill => Inv'
<1> SUFFICES ASSUME Inv, Fill PROVE Inv'
  OBVIOUS
<1>1. PICK dst \in Pointers, value \in Ints, size \in 0 .. Size : Writes(memset(mem, dst, value, size))
  BY DEF Fill
<1>2. Char(value) \in 0 .. 255
  BY CStringAssumption DEF Char
<1>3. mem \in Memory
  BY DEF Inv, TypeInv
<1>4. memset(mem, dst, value, size) \in Memory
  BY <1>2, <1>3 DEF memset, Memory
<1> QED
  BY <1>1, <1>4, WritesStep

LEMMA MoveStep == Inv /\ Move => Inv'
<1> SUFFICES ASSUME Inv, Move PROVE Inv'
  OBVIOUS
<1>1. PICK dst \in Pointers, src \in Pointers, size \in 0 .. Size :
        /\ InMemory(dst, size) /\ InMemory(src, size)
        /\ \/ Writes(memmove(mem, dst, src, size))
           \/ Disjoint(dst, size, src, size) /\ Writes(memcpy(mem, dst, src, size))
  BY DEF Move
<1>2. /\ dst \in Nat /\ src \in Nat /\ size \in Nat /\ dst + size <= Size /\ src + size <= Size
      /\ mem \in Memory
  BY <1>1, Places DEF InMemory, Inv, TypeInv
<1>3. Copied(mem, dst, src, size) \in Memory
  BY <1>2, CopiedType
<1>4. Writes(Copied(mem, dst, src, size))
  <2>1. CASE Writes(memmove(mem, dst, src, size))
    BY <1>2, <2>1, MemmoveIs
  <2>2. CASE Disjoint(dst, size, src, size) /\ Writes(memcpy(mem, dst, src, size))
    BY <1>2, <2>2, MemcpyOfDisjoint
  <2> QED
    BY <1>1, <2>1, <2>2
<1> QED
  BY <1>3, <1>4, WritesStep

LEMMA CopyStringStep == Inv /\ CopyString => Inv'
<1> SUFFICES ASSUME Inv, CopyString PROVE Inv'
  OBVIOUS
<1>1. PICK dst \in Pointers, src \in Pointers, size \in 0 .. Size :
        \/ MayCopyString(mem, dst, src, size) /\ Writes(strlcpy(mem, dst, src, size))
        \/ MayAppendString(mem, dst, src, size) /\ Writes(strlcat(mem, dst, src, size))
  BY DEF CopyString
<1>2. mem \in Memory
  BY DEF Inv, TypeInv
<1>3. CASE MayCopyString(mem, dst, src, size) /\ Writes(strlcpy(mem, dst, src, size))
  <2>1. strlcpy(mem, dst, src, size) \in Memory
    BY <1>2, <1>3, StrlcpyIs
  <2> QED
    BY <1>3, <2>1, WritesStep
<1>4. CASE MayAppendString(mem, dst, src, size) /\ Writes(strlcat(mem, dst, src, size))
  <2>1. strlcat(mem, dst, src, size) \in Memory
    BY <1>2, <1>4, StrlcatIs
  <2> QED
    BY <1>4, <2>1, WritesStep
<1> QED
  BY <1>1, <1>3, <1>4

LEMMA LeaveStep == Inv /\ Leave => Inv'
<1> SUFFICES ASSUME Inv, Leave PROVE Inv'
  OBVIOUS
<1>1. mem' \in Memory /\ original' \in Memory /\ save_ptr' = NULL /\ tokens' = <<>>
  BY DEF Leave, Inv, TypeInv
<1>2. tokens' \in Seq(Token)
  BY <1>1
<1> QED
  BY <1>1, <1>2 DEF Inv, TypeInv, TokenInv

(* A word stays one while the rest of the string is taken apart.            *)
LEMMA WordStays ==
  ASSUME NEW t \in Token, NEW o, NEW s \in Cells, NEW r \in Cells, s <= r, WordIn(mem, o, s, t),
         \A q \in Cells : mem'[q] = mem[q] \/ mem'[q] = NUL,
         \A q \in Cells : q < s => mem'[q] = mem[q]
  PROVE  WordIn(mem', o, r, t)
<1>1. /\ t.from \in Nat /\ t.end \in Nat /\ t.end \in Cells /\ s \in Nat /\ r \in Nat
      /\ t.from <= t.end /\ t.end <= s /\ Size \in Nat /\ s < Size
  BY Places DEF Token, Cells, WordIn
<1>2. t.from <= t.end /\ t.end <= r
  BY <1>1
<1>3. CASE t.begin = NULL
  BY <1>2, <1>3, Zenon DEF WordIn
<1>4. CASE t.begin # NULL
  <2>1. /\ t.begin \in t.from .. t.end - 1
        /\ \A q \in t.begin .. t.end - 1 : o[q] \notin t.delimiters \cup {NUL} /\ mem[q] = o[q]
        /\ mem[t.end] = NUL
    BY <1>4, Zenon DEF WordIn
  <2>2. \A q \in t.begin .. t.end - 1 : q \in Cells /\ q < s
    BY <1>1, <2>1, Places DEF Cells
  <2>3. \A q \in t.begin .. t.end - 1 : o[q] \notin t.delimiters \cup {NUL} /\ mem'[q] = o[q]
    BY <2>1, <2>2
  <2>4. mem'[t.end] = NUL
    BY <1>1, <2>1
  <2> QED
    BY <1>2, <1>4, <2>3, <2>4, Zenon DEF WordIn
<1> QED
  BY <1>3, <1>4

LEMMA FirstStep == Inv /\ strtok_r_first => Inv'
<1> SUFFICES ASSUME Inv, strtok_r_first PROVE Inv'
  OBVIOUS
<1>1. PICK s \in Cells, delimiters \in CharSets :
        IsString(mem, s) /\ original' = mem /\ TokenFrom(s, delimiters, <<>>)
  BY DEF strtok_r_first
<1>2. mem \in Memory
  BY DEF Inv, TypeInv
<1>3. PICK e \in Cells : EndsAt(mem, s, e)
  BY <1>1, StringEnds
<1>4. PICK t \in Token :
        /\ tokens' = Append(<<>>, t) /\ t.from = s
        /\ mem' \in Memory /\ save_ptr' \in Cells
        /\ save_ptr' = After(mem, t) /\ s <= t.end /\ s <= save_ptr'
        /\ EndsAt(mem, save_ptr', e)
        /\ \A q \in Cells : q >= save_ptr' => mem'[q] = mem[q]
        /\ \A q \in Cells : mem'[q] = mem[q] \/ (q = t.end /\ mem'[q] = NUL)
        /\ WordIn(mem', mem, save_ptr', t)
  BY <1>1, <1>2, <1>3, TokenIs
<1>5. /\ tokens' \in Seq(Token) /\ Len(tokens') = 1 /\ tokens'[1] = t /\ tokens' # <<>>
  BY <1>4
<1>6. TypeInv'
  BY <1>1, <1>2, <1>4, <1>5, Places DEF TypeInv
<1>7. TokenInv'
  <2>1. save_ptr' = After(original', tokens'[Len(tokens')])
    BY <1>1, <1>4, <1>5
  <2>2. \A k \in 2 .. Len(tokens') : tokens'[k].from = After(original', tokens'[k - 1])
    BY <1>5
  <2>3. \A k \in 1 .. Len(tokens') : WordIn(mem', original', save_ptr', tokens'[k])
    BY <1>1, <1>4, <1>5
  <2> QED
    BY <1>1, <1>3, <1>4, <1>5, <2>1, <2>2, <2>3 DEF TokenInv
<1> QED
  BY <1>6, <1>7 DEF Inv

LEMMA NextStep == Inv /\ strtok_r_next => Inv'
<1> SUFFICES ASSUME Inv, strtok_r_next PROVE Inv'
  OBVIOUS
<1>1. PICK delimiters \in CharSets :
        save_ptr # NULL /\ original' = original /\ TokenFrom(save_ptr, delimiters, tokens)
  BY DEF strtok_r_next
<1>2. mem \in Memory /\ original \in Memory /\ tokens \in Seq(Token) /\ save_ptr \in Cells
  BY <1>1 DEF Inv, TypeInv
<1>3. PICK e \in Cells : EndsAt(original, save_ptr, e)
  BY <1>1 DEF Inv, TokenInv
<1>4. \A q \in Cells : q >= save_ptr => mem[q] = original[q]
  BY <1>1 DEF Inv, TokenInv
<1>5. PICK t \in Token :
        /\ tokens' = Append(tokens, t) /\ t.from = save_ptr
        /\ mem' \in Memory /\ save_ptr' \in Cells
        /\ save_ptr' = After(original, t) /\ save_ptr <= t.end /\ save_ptr <= save_ptr'
        /\ EndsAt(original, save_ptr', e)
        /\ \A q \in Cells : q >= save_ptr' => mem'[q] = original[q]
        /\ \A q \in Cells : mem'[q] = mem[q] \/ (q = t.end /\ mem'[q] = NUL)
        /\ WordIn(mem', original, save_ptr', t)
  BY <1>1, <1>2, <1>3, <1>4, TokenIs
<1>6. PICK n \in Nat : n = Len(tokens) /\ n >= 1
  BY <1>1, <1>2 DEF Inv, TokenInv
<1>7. /\ tokens' \in Seq(Token) /\ Len(tokens') = n + 1 /\ tokens'[n + 1] = t /\ tokens' # <<>>
      /\ \A k \in 1 .. n : tokens'[k] = tokens[k] /\ tokens[k] \in Token
  <2>1. \A k \in 1 .. Len(tokens) : tokens[k] \in Token
    BY <1>2
  <2> QED
    BY <1>2, <1>5, <1>6, <2>1
<1>8. TypeInv'
  BY <1>1, <1>2, <1>5, <1>7, Places DEF TypeInv
<1>9. TokenInv'
  <2>1. save_ptr' = After(original', tokens'[Len(tokens')])
    BY <1>1, <1>5, <1>7
  <2>2. ASSUME NEW k \in 2 .. n + 1
        PROVE  tokens'[k].from = After(original, tokens'[k - 1])
    <3>1. CASE k = n + 1
      <4>1. tokens'[k - 1] = tokens[n] /\ tokens'[k].from = save_ptr
        BY <1>5, <1>6, <1>7, <3>1
      <4>2. save_ptr = After(original, tokens[n])
        BY <1>1, <1>6 DEF Inv, TokenInv
      <4> QED
        BY <4>1, <4>2
    <3>2. CASE k # n + 1
      <4>1. k \in 2 .. n /\ k \in 1 .. n /\ k - 1 \in 1 .. n
        BY <3>2
      <4>2. tokens[k].from = After(original, tokens[k - 1])
        BY <1>1, <1>6, <4>1 DEF Inv, TokenInv
      <4> QED
        BY <1>7, <4>1, <4>2
    <3> QED
      BY <3>1, <3>2
  <2>3. ASSUME NEW k \in 1 .. n + 1
        PROVE  WordIn(mem', original, save_ptr', tokens'[k])
    <3>1. CASE k = n + 1
      BY <1>5, <1>7, <3>1
    <3>2. CASE k # n + 1
      <4>1. k \in 1 .. n
        BY <3>2
      <4>2. WordIn(mem, original, save_ptr, tokens[k])
        BY <1>1, <1>6, <4>1 DEF Inv, TokenInv
      <4>3. \A q \in Cells : q < save_ptr => mem'[q] = mem[q]
        <5>1. t.end \in Nat /\ save_ptr \in Nat /\ \A q \in Cells : q \in Nat
          BY <1>2, Places DEF Token, Cells
        <5> QED
          BY <1>5, <5>1
      <4> QED
        BY <1>2, <1>5, <1>7, <4>1, <4>2, <4>3, WordStays
    <3> QED
      BY <3>1, <3>2
  <2> QED
    BY <1>1, <1>5, <1>7, <1>3, <2>1, <2>2, <2>3 DEF TokenInv
<1> QED
  BY <1>8, <1>9 DEF Inv

LEMMA InvStep == Inv /\ [Next]_vars => Inv'
<1>1. Inv /\ UNCHANGED vars => Inv'
  BY DEF vars, Inv, TypeInv, TokenInv, WordIn, After, EndsAt
<1> QED
  BY <1>1, FillStep, MoveStep, CopyStringStep, FirstStep, NextStep, LeaveStep DEF Next

(* In every state the memory is one, and what strtok_r has done so far is   *)
(* as it should be.                                                         *)
THEOREM InductiveInvariant == Spec => []Inv
<1> QED
  BY InvInit, InvStep, PTL DEF Spec

----------------------------------------------------------------------------
(* The properties                                                           *)

LEMMA CopiesFollow == TypeInv => CopiesAreExact
<1> SUFFICES ASSUME TypeInv, NEW dst \in Pointers, NEW src \in Pointers, NEW size \in 0 .. Size,
                    InMemory(dst, size)
             PROVE  /\ InMemory(src, size) =>
                         /\ memmove(mem, dst, src, size) = Copied(mem, dst, src, size)
                         /\ Disjoint(dst, size, src, size) =>
                              memcpy(mem, dst, src, size) = Copied(mem, dst, src, size)
                    /\ MayCopyString(mem, dst, src, size) =>
                         LET m == strlcpy(mem, dst, src, size) IN
                         /\ SameOutside(m, dst, size)
                         /\ size > 0 => StringAt(m, dst) = Prefix(StringAt(mem, src), size - 1)
                    /\ MayAppendString(mem, dst, src, size) =>
                         LET m == strlcat(mem, dst, src, size)
                             both == StringAt(mem, dst) \o StringAt(mem, src)
                         IN  /\ SameOutside(m, dst, size)
                             /\ StringAt(m, dst) =
                                  IF Length(mem, dst) >= size THEN StringAt(mem, dst)
                                  ELSE Prefix(both, size - 1)
  BY Zenon DEF CopiesAreExact
<1>1. mem \in Memory
  BY DEF TypeInv
<1>2. dst \in Nat /\ src \in Nat /\ size \in Nat /\ dst + size <= Size
  BY Places DEF InMemory
<1>3. ASSUME InMemory(src, size)
      PROVE  /\ memmove(mem, dst, src, size) = Copied(mem, dst, src, size)
             /\ Disjoint(dst, size, src, size) =>
                  memcpy(mem, dst, src, size) = Copied(mem, dst, src, size)
  <2>1. src + size <= Size
    BY <1>3 DEF InMemory
  <2> QED
    BY <1>1, <1>2, <2>1, MemmoveIs, MemcpyOfDisjoint
<1>4. ASSUME MayCopyString(mem, dst, src, size)
      PROVE  LET m == strlcpy(mem, dst, src, size) IN
             /\ SameOutside(m, dst, size)
             /\ size > 0 => StringAt(m, dst) = Prefix(StringAt(mem, src), size - 1)
  BY <1>1, <1>4, StrlcpyIs DEF SameOutside
<1>5. ASSUME MayAppendString(mem, dst, src, size)
      PROVE  LET m == strlcat(mem, dst, src, size)
                 both == StringAt(mem, dst) \o StringAt(mem, src)
             IN  /\ SameOutside(m, dst, size)
                 /\ StringAt(m, dst) =
                      IF Length(mem, dst) >= size THEN StringAt(mem, dst)
                      ELSE Prefix(both, size - 1)
  BY <1>1, <1>5, StrlcatIs DEF SameOutside
<1> QED
  BY <1>3, <1>4, <1>5, Zenon

(* Blocks and strings are copied exactly, however the operands of memmove   *)
(* overlap and wherever they lie in a memory of any size.                   *)
THEOREM CopiesHold == Spec => []CopiesAreExact
<1>1. Inv => CopiesAreExact
  BY CopiesFollow DEF Inv
<1> QED
  BY <1>1, InductiveInvariant, PTL

LEMMA MemcmpFollows ==
  ASSUME NEW m, NEW a, NEW b, NEW size \in Nat, size <= Size
  PROVE  LET i == First({ k \in 0 .. size - 1 : m[a + k] # m[b + k] }) IN
         memcmp(m, a, b, size) = IF i = NULL THEN 0 ELSE IF m[a + i] > m[b + i] THEN 1 ELSE -1
<1> DEFINE D == { k \in 0 .. size - 1 : m[a + k] # m[b + k] }
<1>1. CASE (\A k \in 0 .. size - 1 : m[a + k] = m[b + k]) /\ memcmp(m, a, b, size) = 0
  <2>1. D = {}
    BY <1>1
  <2>2. First(D) = NULL
    BY <2>1 DEF First
  <2> QED
    BY <1>1, <2>2
<1>2. CASE \E i \in 0 .. size - 1 :
             /\ m[a + i] # m[b + i]
             /\ \A k \in 0 .. i - 1 : m[a + k] = m[b + k]
             /\ memcmp(m, a, b, size) = IF m[a + i] > m[b + i] THEN 1 ELSE -1
  <2>1. PICK i \in 0 .. size - 1 :
             /\ m[a + i] # m[b + i]
             /\ \A k \in 0 .. i - 1 : m[a + k] = m[b + k]
             /\ memcmp(m, a, b, size) = IF m[a + i] > m[b + i] THEN 1 ELSE -1
    BY <1>2
  <2>2. i \in D /\ D \in SUBSET Int /\ \A j \in D : i <= j
    BY <2>1
  <2>3. First(D) = i
    <3> HIDE DEF D
    <3> QED
      BY <2>2, FirstIs
  <2>4. i # NULL
    BY Places DEF Pointers
  <2> QED
    BY <2>1, <2>3, <2>4
<1> QED
  BY <1>1, <1>2, MemcmpIs

LEMMA MemchrFollows ==
  ASSUME NEW m, NEW block \in Nat, NEW ch, NEW size \in Nat, block + size <= Size
  PROVE  memchr(m, block, ch, size) = First({ p \in Span(block, size) : m[p] = Char(ch) })
<1> DEFINE H == { p \in Span(block, size) : m[p] = Char(ch) }
<1>1. CASE (\A q \in Span(block, size) : m[q] # Char(ch)) /\ memchr(m, block, ch, size) = NULL
  <2>1. H = {}
    BY <1>1
  <2> QED
    BY <1>1, <2>1 DEF First
<1>2. CASE \E p \in Span(block, size) :
             /\ m[p] = Char(ch)
             /\ \A q \in block .. p - 1 : m[q] # Char(ch)
             /\ memchr(m, block, ch, size) = p
  <2>1. PICK p \in Span(block, size) :
             /\ m[p] = Char(ch)
             /\ \A q \in block .. p - 1 : m[q] # Char(ch)
             /\ memchr(m, block, ch, size) = p
    BY <1>2
  <2>2. p \in H /\ H \in SUBSET Int /\ \A j \in H : p <= j
    BY <2>1 DEF Span
  <2>3. First(H) = p
    <3> HIDE DEF H
    <3> QED
      BY <2>2, FirstIs
  <2> QED
    BY <2>1, <2>3
<1> QED
  BY <1>1, <1>2, MemchrIs

(* Everything the searches find in one string.                              *)
LEMMA StringsFollow ==
  ASSUME NEW m \in Memory, NEW p, IsString(m, p)
  PROVE  LET all == p .. p + Length(m, p) IN
         /\ strlen(m, p) = Length(m, p)
         /\ \A n \in 0 .. Size : strnlen(m, p, n) = Min({n, Length(m, p)})
         /\ \A c \in Ints :
              LET hits == { q \in all : m[q] = Char(c) } IN
              /\ strchr(m, p, c) = First(hits)
              /\ strrchr(m, p, c) = IF Char(c) = NUL \/ hits = {} THEN NULL ELSE Max(hits)
         /\ \A S \in CharSets :
              /\ p + strspn(m, p, S) = Min({ q \in all : m[q] \notin S })
              /\ p + strcspn(m, p, S) = Min({ q \in all : m[q] \in S \/ m[q] = NUL })
              /\ strpbrk(m, p, S) = First({ q \in all : m[q] \in S })
<1>1. PICK e \in Cells : EndsAt(m, p, e)
  BY StringEnds
<1>2. p \in Nat /\ e \in Nat /\ Length(m, p) = e - p /\ strlen(m, p) = e - p
  BY <1>1, LengthIs, Places DEF Cells
<1>3. p + Length(m, p) = e
  BY <1>2
<1>4. ASSUME NEW n \in 0 .. Size
      PROVE  strnlen(m, p, n) = Min({n, Length(m, p)})
  <2>1. n \in Nat
    OBVIOUS
  <2> QED
    BY <1>1, <1>2, <2>1, StrnlenIs
<1>5. ASSUME NEW c
      PROVE  LET hits == { q \in p .. e : m[q] = Char(c) } IN
             /\ strchr(m, p, c) = First(hits)
             /\ strrchr(m, p, c) = IF Char(c) = NUL \/ hits = {} THEN NULL ELSE Max(hits)
  BY <1>1, StrchrIs, StrrchrIs
<1>6. ASSUME NEW S \in CharSets
      PROVE  /\ p + strspn(m, p, S) = Min({ q \in p .. e : m[q] \notin S })
             /\ p + strcspn(m, p, S) = Min({ q \in p .. e : m[q] \in S \/ m[q] = NUL })
             /\ strpbrk(m, p, S) = First({ q \in p .. e : m[q] \in S })
  <2>1. NUL \notin S
    BY CStringAssumption
  <2>2. /\ p + strspn(m, p, S) = Min({ q \in p .. e : m[q] \notin S })
        /\ p + strcspn(m, p, S) = Min({ q \in p .. e : m[q] \in S \/ m[q] = NUL })
        /\ strpbrk(m, p, S) = First({ q \in p .. e : m[q] \in S })
        /\ PastThese(m, p, S) \in p .. e /\ m[PastThese(m, p, S)] \notin S
        /\ \A j \in p .. PastThese(m, p, S) - 1 : m[j] \in S
        /\ UpToOneOf(m, p, S) \in p .. e /\ m[UpToOneOf(m, p, S)] \in S \cup {NUL}
        /\ \A j \in p .. UpToOneOf(m, p, S) - 1 : m[j] \notin S \cup {NUL}
    BY <1>1, <2>1, SpansAre, Zenon
  <2> QED
    BY <2>2, Zenon
<1> QED
  BY <1>2, <1>3, <1>4, <1>5, <1>6, Zenon

(* And in two.                                                              *)
LEMMA TwoStringsFollow ==
  ASSUME NEW m \in Memory, NEW p, IsString(m, p), NEW q, IsString(m, q)
  PROVE  LET s == StringAt(m, p)
             t == StringAt(m, q)
         IN  /\ strcmp(m, p, q) = IF s = t THEN 0 ELSE IF Less(s, t) THEN -1 ELSE 1
             /\ strstr(m, p, q) =
                  First({ r \in p .. p + Length(m, p) : Prefix(StringAt(m, r), Len(t)) = t })
<1>1. PICK e \in Cells : EndsAt(m, p, e)
  BY StringEnds
<1>2. PICK d \in Cells : EndsAt(m, q, d)
  BY StringEnds
<1>3. p \in Nat /\ e \in Nat /\ Length(m, p) = e - p
  BY <1>1, LengthIs, Places DEF Cells
<1>4. p + Length(m, p) = e
  BY <1>3
<1>5. Len(StringAt(m, q)) = d - q
  BY <1>2, StringAtIs
<1>6. strstr(m, p, q) = First({ r \in p .. e : Prefix(StringAt(m, r), d - q) = StringAt(m, q) })
  BY <1>1, <1>2, StrstrIs
<1>7. strcmp(m, p, q) = IF StringAt(m, p) = StringAt(m, q) THEN 0
                        ELSE IF Less(StringAt(m, p), StringAt(m, q)) THEN -1 ELSE 1
  BY <1>1, <1>2, StrcmpIs
<1> QED
  BY <1>4, <1>5, <1>6, <1>7, Zenon

LEMMA SearchesFollow == TypeInv => SearchesAreExact
<1> SUFFICES ASSUME TypeInv PROVE SearchesAreExact
  OBVIOUS
<1>1. mem \in Memory
  BY DEF TypeInv
<1>2. ASSUME NEW a \in Pointers, NEW b \in Pointers, NEW size \in 0 .. Size, InMemory(a, size)
      PROVE  /\ InMemory(b, size) =>
                  LET i == First({ k \in 0 .. size - 1 : mem[a + k] # mem[b + k] }) IN
                  memcmp(mem, a, b, size) =
                    IF i = NULL THEN 0 ELSE IF mem[a + i] > mem[b + i] THEN 1 ELSE -1
             /\ \A c \in Ints :
                  memchr(mem, a, c, size) = First({ p \in Span(a, size) : mem[p] = Char(c) })
  <2>1. a \in Nat /\ b \in Nat /\ size \in Nat /\ size <= Size /\ a + size <= Size
    BY <1>2, Places DEF InMemory
  <2> QED
    BY <2>1, MemcmpFollows, MemchrFollows
<1>3. ASSUME NEW p \in Strings
      PROVE  LET all == p .. p + Length(mem, p) IN
             /\ strlen(mem, p) = Length(mem, p)
             /\ \A n \in 0 .. Size : strnlen(mem, p, n) = Min({n, Length(mem, p)})
             /\ \A c \in Ints :
                  LET hits == { q \in all : mem[q] = Char(c) } IN
                  /\ strchr(mem, p, c) = First(hits)
                  /\ strrchr(mem, p, c) = IF Char(c) = NUL \/ hits = {} THEN NULL ELSE Max(hits)
             /\ \A S \in CharSets :
                  /\ p + strspn(mem, p, S) = Min({ q \in all : mem[q] \notin S })
                  /\ p + strcspn(mem, p, S) = Min({ q \in all : mem[q] \in S \/ mem[q] = NUL })
                  /\ strpbrk(mem, p, S) = First({ q \in all : mem[q] \in S })
  <2>1. IsString(mem, p)
    BY DEF Strings
  <2> QED
    BY <1>1, <2>1, StringsFollow
<1>4. ASSUME NEW p \in Strings, NEW q \in Strings
      PROVE  LET s == StringAt(mem, p)
                 t == StringAt(mem, q)
             IN  /\ strcmp(mem, p, q) = IF s = t THEN 0 ELSE IF Less(s, t) THEN -1 ELSE 1
                 /\ strstr(mem, p, q) =
                      First({ r \in p .. p + Length(mem, p) : Prefix(StringAt(mem, r), Len(t)) = t })
  <2>1. IsString(mem, p) /\ IsString(mem, q)
    BY DEF Strings
  <2> QED
    BY <1>1, <2>1, TwoStringsFollow
<1> QED
  BY <1>2, <1>3, <1>4, Zenon DEF SearchesAreExact, Less

(* Every search and comparison finds what it should, in a memory of any     *)
(* size and whatever it holds.                                              *)
THEOREM SearchesHold == Spec => []SearchesAreExact
<1>1. Inv => SearchesAreExact
  BY SearchesFollow DEF Inv
<1> QED
  BY <1>1, InductiveInvariant, PTL

LEMMA TokensFollow == Inv => TokensAreTheWords
<1> SUFFICES ASSUME Inv, NEW k \in DOMAIN tokens
             PROVE  LET t == tokens[k]
                        last == tokens[k - 1]
                        from == IF k = 1 THEN t.from
                                ELSE IF original[last.end] = NUL THEN last.end ELSE last.end + 1
                        rest == Span(from, Length(original, from))
                        word == StringAt(mem, t.begin)
                    IN  IF t.begin = NULL THEN \A q \in rest : original[q] \in t.delimiters
                        ELSE /\ t.begin = First({ q \in rest : original[q] \notin t.delimiters })
                             /\ word = [i \in 1 .. t.end - t.begin |-> original[t.begin + i - 1]]
                             /\ \A i \in DOMAIN word : word[i] \notin t.delimiters
                             /\ original[t.end] \in t.delimiters \cup {NUL}
  BY Zenon DEF TokensAreTheWords
<1>1. mem \in Memory /\ original \in Memory /\ tokens \in Seq(Token) /\ k \in 1 .. Len(tokens)
      /\ tokens[k] \in Token /\ tokens # <<>>
  BY DEF Inv, TypeInv
<1>2. save_ptr # NULL
  BY <1>1 DEF Inv, TypeInv
<1>3. PICK t \in Token : t = tokens[k]
  BY <1>1
<1>4. WordIn(mem, original, save_ptr, t)
  BY <1>1, <1>2, <1>3 DEF Inv, TokenInv
<1>5. PICK e \in Cells : EndsAt(original, t.from, e) /\ t.end <= e
  BY <1>4 DEF WordIn
<1> DEFINE last == tokens[k - 1]
           from == IF k = 1 THEN tokens[k].from
                   ELSE IF original[last.end] = NUL THEN last.end ELSE last.end + 1
<1>6. from = t.from /\ tokens[k] = t
  <2>1. CASE k # 1
    <3>1. k \in 2 .. Len(tokens)
      BY <1>1, <2>1
    <3>2. tokens[k].from = After(original, tokens[k - 1])
      BY <1>2, <3>1 DEF Inv, TokenInv
    <3> QED
      BY <1>3, <2>1, <3>2 DEF After
  <2> QED
    BY <1>3, <2>1
<1>7. /\ t.from \in Nat /\ e \in Nat /\ t.from <= e /\ e < Size /\ t.end \in Nat /\ t.end \in Cells
      /\ t.from <= t.end /\ t.from + Length(original, t.from) = e /\ Size \in Nat
  <2>1. t.from \in Nat /\ t.end \in Nat /\ t.end \in Cells /\ e \in Nat /\ e < Size /\ Size \in Nat
    BY Places DEF Token, Cells
  <2>2. t.from <= e /\ t.from <= t.end
    BY <1>4, <1>5, <2>1 DEF EndsAt, WordIn
  <2>3. Length(original, t.from) = e - t.from
    BY <1>5, LengthIs
  <2> QED
    BY <2>1, <2>2, <2>3
<1>8. PICK rest : rest = Span(t.from, Length(original, t.from)) /\ rest = t.from .. e - 1
  <2>1. PICK n \in Nat : n = Length(original, t.from) /\ n = e - t.from
    <3>1. Length(original, t.from) = e - t.from /\ e - t.from \in Nat
      BY <1>5, <1>7, LengthIs
    <3> QED
      BY <3>1
  <2>2. Span(t.from, n) = t.from .. e - 1
    BY <1>7, <2>1 DEF Span
  <2> QED
    BY <2>1, <2>2, Zenon
<1>9. CASE t.begin = NULL
  <2>1. original[t.end] = NUL /\ \A q \in t.from .. t.end - 1 : original[q] \in t.delimiters
    BY <1>4, <1>9, Zenon DEF WordIn
  <2>2. t.end = e
    BY <1>5, <1>7, <2>1 DEF EndsAt
  <2>3. \A q \in rest : original[q] \in t.delimiters
    BY <1>8, <2>1, <2>2
  <2> QED
    BY <1>3, <1>6, <1>8, <1>9, <2>3, Zenon
<1>10. CASE t.begin # NULL
  <2>1. /\ t.begin \in t.from .. t.end - 1
        /\ \A q \in t.from .. t.begin - 1 : original[q] \in t.delimiters
        /\ \A q \in t.begin .. t.end - 1 : original[q] \notin t.delimiters \cup {NUL} /\ mem[q] = original[q]
        /\ mem[t.end] = NUL /\ original[t.end] \in t.delimiters \cup {NUL}
    BY <1>4, <1>10, Zenon DEF WordIn
  <2>2. PICK b \in Nat, n \in Nat : b = t.begin /\ n = t.end /\ t.from <= b /\ b < n /\ n <= e /\ b \in Cells
    BY <1>5, <1>7, <2>1, Places DEF Cells
  <2>3. b = First({ q \in rest : original[q] \notin t.delimiters })
    <3> DEFINE T == { q \in rest : original[q] \notin t.delimiters }
    <3>1. b \in T
      BY <1>8, <1>7, <2>1, <2>2
    <3>2. T \in SUBSET Int
      BY <1>8, <1>7
    <3>3. \A j \in T : b <= j
      BY <1>8, <1>7, <2>1, <2>2
    <3>4. First(T) = b
      <4> HIDE DEF T
      <4> QED
        BY <3>1, <3>2, <3>3, FirstIs
    <3> QED
      BY <3>4
  <2>4. EndsAt(mem, b, n)
    <3>1. n \in b .. Size - 1 /\ mem[n] = NUL /\ \A q \in b .. n - 1 : mem[q] # NUL
      BY <1>7, <2>1, <2>2
    <3> QED
      BY <2>2, <3>1 DEF EndsAt
  <2>5. /\ StringAt(mem, b) = [i \in 1 .. n - b |-> mem[b + i - 1]]
        /\ \A i \in 1 .. n - b : StringAt(mem, b)[i] = mem[b + i - 1]
    <3>1. EndsAt(mem, b, n) /\ mem \in Memory
      BY <1>1, <2>4
    <3> QED
      BY <3>1, StringAtIs, SMTT(30)
  <2>6. \A i \in 1 .. n - b : mem[b + i - 1] = original[b + i - 1] /\ original[b + i - 1] \notin t.delimiters
    <3>1. \A i \in 1 .. n - b : b + i - 1 \in t.begin .. t.end - 1
      BY <2>2
    <3> QED
      BY <2>1, <3>1
  <2>7. StringAt(mem, b) = [i \in 1 .. n - b |-> original[b + i - 1]]
    BY <2>5, <2>6
  <2>8. \A i \in DOMAIN StringAt(mem, b) : StringAt(mem, b)[i] \notin t.delimiters
    BY <2>5, <2>6
  <2> QED
    <3>1. StringAt(mem, t.begin) = [i \in 1 .. t.end - t.begin |-> original[t.begin + i - 1]]
      BY <2>2, <2>7
    <3>2. \A i \in DOMAIN StringAt(mem, t.begin) : StringAt(mem, t.begin)[i] \notin t.delimiters
      BY <2>2, <2>8, Zenon
    <3>3. t.begin = First({ q \in rest : original[q] \notin t.delimiters })
      BY <2>2, <2>3, Zenon
    <3> QED
      <4>1. tokens[k].begin =
              First({ q \in Span(from, Length(original, from)) : original[q] \notin tokens[k].delimiters })
        BY <1>6, <1>8, <3>3, Zenon
      <4>2. StringAt(mem, tokens[k].begin) =
              [i \in 1 .. tokens[k].end - tokens[k].begin |-> original[tokens[k].begin + i - 1]]
        BY <1>3, <3>1
      <4>3. \A i \in DOMAIN StringAt(mem, tokens[k].begin) :
              StringAt(mem, tokens[k].begin)[i] \notin tokens[k].delimiters
        BY <1>3, <3>2, Zenon
      <4>4. tokens[k].begin # NULL /\ original[tokens[k].end] \in tokens[k].delimiters \cup {NUL}
        BY <1>3, <1>10, <2>1, Zenon
      <4> QED
        BY <4>1, <4>2, <4>3, <4>4, Zenon
<1> QED
  BY <1>9, <1>10

(* Over any sequence of calls of strtok_r the tokens are the words of the   *)
(* string it was given, in order, none lost, and each stays one.            *)
THEOREM TokensHold == Spec => []TokensAreTheWords
<1> QED
  BY TokensFollow, InductiveInvariant, PTL

=============================================================================
