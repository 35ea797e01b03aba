--------------------------- MODULE Console_proofs ---------------------------
(* Theorems about Console for any texts, any depth of panics and any queue: *)
(* that the line is whole, and that a buffer holds a prefix.                *)
EXTENDS Console, SequenceTheorems, WellFoundedInduction, TLAPS

----------------------------------------------------------------------------
(* Numbers                                                                  *)

(* The library's order on the natural numbers, as a set of pairs.           *)
LEMMA LessThanPair ==
  ASSUME NEW k \in Nat, NEW m \in Nat, k < m
  PROVE  <<k, m>> \in OpToRel(<, Nat)
<1>1. OpToRel(<, Nat) = { ss \in Nat \X Nat : ss[1] < ss[2] }
  BY Zenon DEF OpToRel
<1>2. <<k, m>> \in { ss \in Nat \X Nat : ss[1] < ss[2] }
  OBVIOUS
<1> QED
  BY <1>1, <1>2, Zenon

(* A set of natural numbers that is not empty has a least element.          *)
LEMMA LeastExists ==
  ASSUME NEW S \in SUBSET Nat, S # {}
  PROVE  \E m \in S : \A k \in S : m <= k
<1> DEFINE R == OpToRel(<, Nat)
<1>1. IsWellFoundedOn(R, Nat)
  BY NatLessThanWellFounded, Zenon
<1>2. PICK m \in S : \A k \in S : ~ (<<k, m>> \in R)
  <2> HIDE DEF R
  <2> QED
    BY <1>1, WFMin, Zenon
<1>3. \A k \in S : ~ (k < m)
  BY <1>2, LessThanPair, Zenon
<1> QED
  BY <1>3

(* What holds of 0 and goes from each number to the next one holds of all:  *)
(* S has the numbers up to n of which it holds.                             *)
LEMMA UpTo ==
  ASSUME NEW n \in Nat, NEW S, 0 \in S, \A k \in 0 .. n - 1 : k \in S => k + 1 \in S
  PROVE  0 .. n \subseteq S
<1> DEFINE T == { k \in 0 .. n : k \notin S }
<1>1. SUFFICES ASSUME T # {} PROVE FALSE
  OBVIOUS
<1>2. T \in SUBSET Nat
  OBVIOUS
<1>3. PICK k \in T : \A j \in T : k <= j
  <2> HIDE DEF T
  <2> QED
    BY <1>1, <1>2, LeastExists
<1>4. k \in 1 .. n
  OBVIOUS
<1>5. k - 1 \in 0 .. n - 1 /\ k - 1 \notin T
  BY <1>3, <1>4
<1> QED
  BY <1>4, <1>5

----------------------------------------------------------------------------
(* Sequences laid end to end                                                *)

(* f is the function by which FlattenSeq is defined.                        *)
IsFlat(f, s) == f = [i \in 1 .. Len(s) |-> IF i = 1 THEN s[i] ELSE f[i - 1] \o s[i]]

(* Its values up to k.                                                      *)
FlatTo(k, f, s, C) ==
  /\ f \in [1 .. k -> Seq(C)]
  /\ \A i \in 1 .. k : f[i] = IF i = 1 THEN s[i] ELSE f[i - 1] \o s[i]

LEMMA FlatLonger ==
  ASSUME NEW C, NEW s \in Seq(Seq(C)), NEW k \in 0 .. Len(s) - 1, NEW f, FlatTo(k, f, s, C)
  PROVE  \E g : FlatTo(k + 1, g, s, C)
<1>1. /\ k \in Nat /\ k + 1 \in 1 .. Len(s) /\ s[k + 1] \in Seq(C)
      /\ f \in [1 .. k -> Seq(C)]
  <2>1. Len(s) \in Nat /\ \A i \in 1 .. Len(s) : s[i] \in Seq(C)
    OBVIOUS
  <2>2. k \in Nat /\ k + 1 \in 1 .. Len(s)
    BY <2>1
  <2> QED
    BY <2>1, <2>2, Zenon DEF FlatTo
<1>9. k \in Nat
  BY <1>1
<1>8. \A i \in 1 .. k : f[i] = IF i = 1 THEN s[i] ELSE f[i - 1] \o s[i]
  BY Zenon DEF FlatTo
<1>2. PICK last \in Seq(C) : last = IF k = 0 THEN s[k + 1] ELSE f[k] \o s[k + 1]
  <2>1. CASE k = 0
    BY <1>1, <2>1
  <2>2. CASE k # 0
    <3>1. f[k] \in Seq(C)
      BY <1>1, <2>2
    <3>2. f[k] \o s[k + 1] \in Seq(C)
      BY <1>1, <3>1
    <3> QED
      BY <2>2, <3>2
  <2> QED
    BY <2>1, <2>2
<1>3. PICK g : g = [i \in 1 .. k + 1 |-> IF i <= k THEN f[i] ELSE last]
  OBVIOUS
<1>4. g \in [1 .. k + 1 -> Seq(C)]
  BY <1>1, <1>2, <1>3
<1>5. \A i \in 1 .. k : g[i] = f[i]
  BY <1>1, <1>3
<1>6. g[k + 1] = last
  BY <1>1, <1>3
<1>7. ASSUME NEW i \in 1 .. k + 1
      PROVE  g[i] = IF i = 1 THEN s[i] ELSE g[i - 1] \o s[i]
  <2>1. CASE i <= k
    <3>1. g[i] = f[i] /\ (i # 1 => g[i - 1] = f[i - 1])
      <4>1. i \in 1 .. k /\ (i # 1 => i - 1 \in 1 .. k)
        BY <1>9, <2>1
      <4> QED
        BY <1>5, <4>1, Zenon
    <3>2. f[i] = IF i = 1 THEN s[i] ELSE f[i - 1] \o s[i]
      <4>1. i \in 1 .. k
        BY <1>9, <2>1
      <4> QED
        BY <1>8, <4>1, Zenon
    <3> QED
      BY <3>1, <3>2
  <2>2. CASE ~ (i <= k)
    <3>1. i = k + 1 /\ (k # 0 => g[i - 1] = f[k]) /\ (i = 1 <=> k = 0)
      BY <1>1, <1>5, <2>2
    <3> QED
      BY <1>2, <1>6, <3>1
  <2> QED
    BY <2>1, <2>2
<1> QED
  BY <1>4, <1>7 DEF FlatTo

LEMMA FlatExists ==
  ASSUME NEW C, NEW s \in Seq(Seq(C))
  PROVE  \E f : IsFlat(f, s)
<1>1. PICK n \in Nat : n = Len(s)
  OBVIOUS
<1>2. PICK S : S = { k \in 0 .. n : \E f : FlatTo(k, f, s, C) }
  OBVIOUS
<1>3. 0 \in S
  <2>1. FlatTo(0, [i \in 1 .. 0 |-> <<>>], s, C)
    BY DEF FlatTo
  <2> QED
    BY <1>1, <1>2, <2>1
<1>4. ASSUME NEW k \in 0 .. n - 1, k \in S
      PROVE  k + 1 \in S
  <2>1. k + 1 \in 0 .. n /\ k \in 0 .. Len(s) - 1
    BY <1>1
  <2>2. PICK f : FlatTo(k, f, s, C)
    BY <1>2, <1>4
  <2>3. \E g : FlatTo(k + 1, g, s, C)
    BY <2>1, <2>2, FlatLonger
  <2> QED
    BY <1>2, <2>1, <2>3
<1>5. n \in S
  <2>1. 0 .. n \subseteq S
    BY <1>3, <1>4, UpTo
  <2> QED
    BY <2>1
<1>6. PICK f : FlatTo(n, f, s, C)
  BY <1>2, <1>5
<1>7. IsFlat(f, s)
  <2>1. f = [i \in 1 .. n |-> f[i]]
    BY <1>6 DEF FlatTo
  <2> QED
    BY <1>1, <1>6, <2>1 DEF IsFlat, FlatTo
<1> QED
  BY <1>7

(* What FlattenSeq is: the last value of such a function.                   *)
LEMMA FlatIs ==
  ASSUME NEW C, NEW s \in Seq(Seq(C)), s # <<>>
  PROVE  \E f : IsFlat(f, s) /\ FlattenSeq(s) = f[Len(s)]
<1>1. \E f : IsFlat(f, s)
  BY FlatExists
<1>2. Len(s) # 0
  OBVIOUS
<1> DEFINE F == CHOOSE f : IsFlat(f, s)
<1>3. IsFlat(F, s)
  BY <1>1, Zenon
<1>4. FlattenSeq(s) = F[Len(s)]
  BY <1>2, Zenon DEF FlattenSeq, IsFlat
<1> QED
  BY <1>3, <1>4


LEMMA FlatValues ==
  ASSUME NEW C, NEW s \in Seq(Seq(C)), NEW f, IsFlat(f, s)
  PROVE  FlatTo(Len(s), f, s, C)
<1>1. PICK n \in Nat : n = Len(s)
  OBVIOUS
<1>2. \A i \in 1 .. n : s[i] \in Seq(C)
  BY <1>1
<1>3. \A i \in 1 .. n : f[i] = IF i = 1 THEN s[i] ELSE f[i - 1] \o s[i]
  <2>1. f = [i \in 1 .. n |-> IF i = 1 THEN s[i] ELSE f[i - 1] \o s[i]]
    BY <1>1, Zenon DEF IsFlat
  <2> QED
    BY <2>1, Zenon
<1>4. PICK S : S = { k \in 0 .. n : k = 0 \/ f[k] \in Seq(C) }
  OBVIOUS
<1>5. 0 \in S
  BY <1>4
<1>6. ASSUME NEW k \in 0 .. n - 1, k \in S
      PROVE  k + 1 \in S
  <2>1. k + 1 \in 1 .. n /\ k + 1 \in 0 .. n /\ (k + 1) - 1 = k
    OBVIOUS
  <2>2. f[k + 1] = IF k + 1 = 1 THEN s[k + 1] ELSE f[k] \o s[k + 1]
    BY <1>3, <2>1
  <2>3. s[k + 1] \in Seq(C)
    BY <1>2, <2>1
  <2>4. f[k + 1] \in Seq(C)
    <3>1. CASE k + 1 = 1
      BY <2>2, <2>3, <3>1
    <3>2. CASE k + 1 # 1
      <4>1. k # 0
        BY <3>2
      <4>2. f[k] \in Seq(C)
        BY <1>4, <1>6, <4>1
      <4>3. f[k] \o s[k + 1] \in Seq(C)
        BY <2>3, <4>2
      <4> QED
        BY <2>2, <3>2, <4>3
    <3> QED
      BY <3>1, <3>2
  <2> QED
    BY <1>4, <2>1, <2>4
<1>7. 0 .. n \subseteq S
  BY <1>5, <1>6, UpTo
<1>8. \A i \in 1 .. n : f[i] \in Seq(C)
  <2>1. \A i \in 1 .. n : i \in 0 .. n /\ i # 0
    OBVIOUS
  <2> QED
    BY <1>4, <1>7, <2>1
<1>9. f \in [1 .. n -> Seq(C)]
  <2>1. DOMAIN f = 1 .. n
    <3>1. f = [i \in 1 .. n |-> IF i = 1 THEN s[i] ELSE f[i - 1] \o s[i]]
      BY <1>1, Zenon DEF IsFlat
    <3> QED
      BY <3>1, Zenon
  <2>2. f = [i \in 1 .. n |-> f[i]]
    <3>1. f = [i \in 1 .. n |-> IF i = 1 THEN s[i] ELSE f[i - 1] \o s[i]]
      BY <1>1, Zenon DEF IsFlat
    <3> QED
      BY <1>3, <3>1, Zenon
  <2> QED
    BY <1>8, <2>2
<1> QED
  BY <1>1, <1>3, <1>9, Zenon DEF FlatTo

LEMMA FlatEmpty == FlattenSeq(<<>>) = <<>>
<1> QED
  BY DEF FlattenSeq

LEMMA FlatType ==
  ASSUME NEW C, NEW s \in Seq(Seq(C))
  PROVE  FlattenSeq(s) \in Seq(C)
<1>1. CASE s = <<>>
  <2>1. FlattenSeq(s) = <<>>
    BY <1>1, FlatEmpty, Zenon
  <2>2. <<>> \in Seq(C)
    OBVIOUS
  <2> QED
    BY <2>1, <2>2, Zenon
<1>2. CASE s # <<>>
  <2>1. PICK f : IsFlat(f, s) /\ FlattenSeq(s) = f[Len(s)]
    BY <1>2, FlatIs
  <2>2. FlatTo(Len(s), f, s, C)
    BY <2>1, FlatValues
  <2>3. Len(s) \in 1 .. Len(s)
    BY <1>2
  <2> QED
    BY <2>1, <2>2, <2>3 DEF FlatTo
<1> QED
  BY <1>1, <1>2

(* One more at the end.                                                     *)
LEMMA FlatAppend ==
  ASSUME NEW C, NEW s \in Seq(Seq(C)), NEW x \in Seq(C)
  PROVE  FlattenSeq(Append(s, x)) = FlattenSeq(s) \o x
<1>1. PICK n \in Nat : n = Len(s)
  OBVIOUS
<1>2. PICK t \in Seq(Seq(C)) : t = Append(s, x)
  BY AppendProperties
<1>3. t # <<>> /\ Len(t) = n + 1 /\ t[n + 1] = x /\ \A i \in 1 .. n : t[i] = s[i]
  BY <1>1, <1>2, AppendProperties
<1>4. PICK g : IsFlat(g, t) /\ FlattenSeq(t) = g[n + 1]
  BY <1>3, FlatIs
<1>5. FlatTo(n + 1, g, t, C)
  <2>1. FlatTo(Len(t), g, t, C)
    BY <1>4, FlatValues, Zenon
  <2> QED
    BY <1>3, <2>1, Zenon
<1>6. \A i \in 1 .. n + 1 : g[i] = IF i = 1 THEN t[i] ELSE g[i - 1] \o t[i]
  BY <1>5, Zenon DEF FlatTo
<1>7. CASE n = 0
  <2>1. s = <<>> /\ n + 1 = 1 /\ 1 \in 1 .. n + 1
    <3>1. s = <<>>
      BY <1>1, <1>7, EmptySeq
    <3> QED
      BY <1>7, <3>1
  <2>2. FlattenSeq(t) = x
    BY <1>3, <1>4, <1>6, <2>1
  <2>3. FlattenSeq(s) \o x = x
    BY <2>1, FlatEmpty
  <2> QED
    BY <1>2, <2>2, <2>3
<1>8. CASE n # 0
  <2>1. s # <<>>
    BY <1>1, <1>8
  <2>2. PICK f : IsFlat(f, s) /\ FlattenSeq(s) = f[n]
    BY <1>1, <2>1, FlatIs
  <2>3. FlatTo(n, f, s, C)
    <3>1. FlatTo(Len(s), f, s, C)
      BY <2>2, FlatValues, Zenon
    <3> QED
      BY <1>1, <3>1, Zenon
  <2>4. \A i \in 1 .. n : f[i] = IF i = 1 THEN s[i] ELSE f[i - 1] \o s[i]
    BY <2>3, Zenon DEF FlatTo
  <2>5. PICK S : S = { k \in 0 .. n : k = 0 \/ f[k] = g[k] }
    OBVIOUS
  <2>6. 0 \in S
    BY <2>5
  <2>7. ASSUME NEW k \in 0 .. n - 1, k \in S
        PROVE  k + 1 \in S
    <3>1. /\ k + 1 \in 1 .. n /\ k + 1 \in 0 .. n /\ k + 1 \in 1 .. n + 1 /\ (k + 1) - 1 = k
          /\ (k + 1 # 1 => k # 0)
      OBVIOUS
    <3>2. f[k + 1] = IF k + 1 = 1 THEN s[k + 1] ELSE f[k] \o s[k + 1]
      BY <2>4, <3>1
    <3>3. g[k + 1] = IF k + 1 = 1 THEN s[k + 1] ELSE g[k] \o s[k + 1]
      BY <1>3, <1>6, <3>1
    <3>4. k + 1 # 1 => f[k] = g[k]
      BY <2>5, <2>7, <3>1
    <3>5. f[k + 1] = g[k + 1]
      BY <3>2, <3>3, <3>4, Zenon
    <3> QED
      BY <2>5, <3>1, <3>5
  <2>8. 0 .. n \subseteq S
    BY <2>6, <2>7, UpTo
  <2>9. f[n] = g[n]
    BY <1>8, <2>5, <2>8
  <2>10. g[n + 1] = g[n] \o x
    <3>1. n + 1 \in 1 .. n + 1 /\ n + 1 # 1 /\ (n + 1) - 1 = n
      BY <1>8
    <3> QED
      BY <1>3, <1>6, <3>1
  <2> QED
    BY <1>2, <1>4, <2>2, <2>9, <2>10, Zenon
<1> QED
  BY <1>7, <1>8

LEMMA FlatOne ==
  ASSUME NEW C, NEW x \in Seq(C)
  PROVE  FlattenSeq(<<x>>) = x
<1>1. PICK e \in Seq(Seq(C)) : e = <<>>
  <2>1. <<>> \in Seq(Seq(C))
    OBVIOUS
  <2> QED
    BY <2>1, Zenon
<1>2. Append(e, x) = <<x>>
  BY <1>1
<1>3. FlattenSeq(Append(e, x)) = FlattenSeq(e) \o x
  BY FlatAppend
<1>4. FlattenSeq(e) = <<>>
  BY <1>1, FlatEmpty, Zenon
<1>5. FlattenSeq(e) \o x = x
  BY <1>4, ConcatEmptySeq
<1> QED
  BY <1>2, <1>3, <1>5, Zenon

LEMMA FlatOfEmpty ==
  ASSUME NEW C, NEW s \in Seq(Seq(C)), Len(s) = 1, s[1] = <<>>
  PROVE  FlattenSeq(s) = <<>>
<1>1. PICK f : IsFlat(f, s) /\ FlattenSeq(s) = f[Len(s)]
  <2>1. s # <<>>
    BY EmptySeq
  <2> QED
    BY <2>1, FlatIs
<1>2. FlatTo(1, f, s, C)
  <2>1. FlatTo(Len(s), f, s, C)
    BY <1>1, FlatValues, Zenon
  <2> QED
    BY <2>1, Zenon
<1> QED
  BY <1>1, <1>2 DEF FlatTo

(* The next of a sequence's elements.                                       *)
LEMMA OneMore ==
  ASSUME NEW C, NEW s \in Seq(C), NEW k \in 0 .. Len(s) - 1
  PROVE  /\ SubSeq(s, 1, k) \in Seq(C) /\ s[k + 1] \in C
         /\ SubSeq(s, 1, k + 1) = Append(SubSeq(s, 1, k), s[k + 1])
<1>1. PICK n \in Nat : n = Len(s)
  OBVIOUS
<1>2. k \in 0 .. n - 1 /\ k + 1 \in 1 .. n /\ k \in Int /\ k + 1 \in Int
  BY <1>1
<1>3. \A i \in 1 .. n : s[i] \in C
  BY <1>1
<1>4. PICK u \in Seq(C) : u = SubSeq(s, 1, k) /\ Len(u) = k /\ \A i \in 1 .. k : u[i] = s[i]
  <2>1. \A i \in 1 .. k : s[i] \in C /\ 1 + i - 1 = i
    BY <1>2, <1>3
  <2>2. SubSeq(s, 1, k) \in Seq(C) /\ Len(SubSeq(s, 1, k)) = IF 1 <= k THEN k - 1 + 1 ELSE 0
    BY <1>2, <2>1, SubSeqProperties
  <2>3. \A i \in 1 .. k : SubSeq(s, 1, k)[i] = s[i]
    <3>1. \A i \in 1 .. k - 1 + 1 : SubSeq(s, 1, k)[i] = s[1 + i - 1]
      BY <1>2, <2>1, SubSeqProperties
    <3> QED
      BY <1>2, <3>1
  <2>4. Len(SubSeq(s, 1, k)) = k
    BY <1>2, <2>2
  <2> QED
    BY <2>2, <2>3, <2>4, Zenon
<1>5. PICK w \in Seq(C) : w = SubSeq(s, 1, k + 1) /\ Len(w) = k + 1 /\ \A i \in 1 .. k + 1 : w[i] = s[i]
  <2>1. \A i \in 1 .. k + 1 : s[i] \in C /\ 1 + i - 1 = i
    BY <1>2, <1>3
  <2>2. SubSeq(s, 1, k + 1) \in Seq(C) /\ Len(SubSeq(s, 1, k + 1)) = IF 1 <= k + 1 THEN (k + 1) - 1 + 1 ELSE 0
    BY <1>2, <2>1, SubSeqProperties
  <2>3. \A i \in 1 .. k + 1 : SubSeq(s, 1, k + 1)[i] = s[i]
    <3>1. \A i \in 1 .. (k + 1) - 1 + 1 : SubSeq(s, 1, k + 1)[i] = s[1 + i - 1]
      BY <1>2, <2>1, SubSeqProperties
    <3> QED
      BY <1>2, <3>1
  <2>4. Len(SubSeq(s, 1, k + 1)) = k + 1
    BY <1>2, <2>2
  <2> QED
    BY <2>2, <2>3, <2>4, Zenon
<1>6. PICK v \in Seq(C) : /\ v = Append(u, s[k + 1]) /\ Len(v) = k + 1
                          /\ \A i \in 1 .. k : v[i] = u[i]
                          /\ v[k + 1] = s[k + 1]
  <2>1. s[k + 1] \in C
    BY <1>2, <1>3
  <2>2. /\ Append(u, s[k + 1]) \in Seq(C) /\ Len(Append(u, s[k + 1])) = Len(u) + 1
        /\ \A i \in 1 .. Len(u) : Append(u, s[k + 1])[i] = u[i]
        /\ Append(u, s[k + 1])[Len(u) + 1] = s[k + 1]
    BY <2>1, AppendProperties
  <2> QED
    BY <1>4, <2>2, Zenon
<1>7. \A i \in 1 .. k + 1 : v[i] = w[i]
  <2> TAKE i \in 1 .. k + 1
  <2>1. i \in 1 .. k \/ i = k + 1
    BY <1>2
  <2> QED
    BY <1>4, <1>5, <1>6, <2>1
<1>8. v = w
  <2>1. Len(v) = Len(w) /\ \A i \in 1 .. Len(v) : v[i] = w[i]
    BY <1>5, <1>6, <1>7
  <2> QED
    BY <2>1, SeqEqual
<1> QED
  BY <1>2, <1>3, <1>4, <1>5, <1>6, <1>8, Zenon

LEMMA FlatOneMore ==
  ASSUME NEW C, NEW s \in Seq(Seq(C)), NEW k \in 0 .. Len(s) - 1
  PROVE  FlattenSeq(SubSeq(s, 1, k + 1)) = FlattenSeq(SubSeq(s, 1, k)) \o s[k + 1]
<1>1. /\ SubSeq(s, 1, k) \in Seq(Seq(C)) /\ s[k + 1] \in Seq(C)
      /\ SubSeq(s, 1, k + 1) = Append(SubSeq(s, 1, k), s[k + 1])
  BY OneMore
<1> QED
  BY <1>1, FlatAppend

LEMMA FlatConcat ==
  ASSUME NEW C, NEW s \in Seq(Seq(C)), NEW t \in Seq(Seq(C))
  PROVE  FlattenSeq(s \o t) = FlattenSeq(s) \o FlattenSeq(t)
<1>1. PICK n \in Nat : n = Len(t)
  OBVIOUS
<1>2. PICK S : S = { k \in 0 .. n : FlattenSeq(s \o SubSeq(t, 1, k)) = FlattenSeq(s) \o FlattenSeq(SubSeq(t, 1, k)) }
  OBVIOUS
<1>3. 0 \in S
  <2>1. SubSeq(t, 1, 0) = <<>>
    BY SubSeqEmpty
  <2>2. s \o <<>> = s /\ FlattenSeq(s) \o <<>> = FlattenSeq(s)
    BY FlatType, ConcatEmptySeq
  <2>3. FlattenSeq(s \o SubSeq(t, 1, 0)) = FlattenSeq(s) \o FlattenSeq(SubSeq(t, 1, 0))
    BY <2>1, <2>2, FlatEmpty, Zenon
  <2> QED
    BY <1>2, <2>3
<1>4. ASSUME NEW k \in 0 .. n - 1, k \in S
      PROVE  k + 1 \in S
  <2>1. PICK u \in Seq(Seq(C)), x \in Seq(C) : /\ u = SubSeq(t, 1, k) /\ x = t[k + 1]
                                               /\ SubSeq(t, 1, k + 1) = Append(u, x)
    <3>1. k \in 0 .. Len(t) - 1
      BY <1>1
    <3> QED
      BY <3>1, OneMore
  <2>2. s \o u \in Seq(Seq(C)) /\ s \o Append(u, x) = Append(s \o u, x)
    <3>1. Append(u, x) = u \o <<x>> /\ Append(s \o u, x) = (s \o u) \o <<x>> /\ s \o u \in Seq(Seq(C))
      BY AppendIsConcat, ConcatProperties
    <3>2. <<x>> \in Seq(Seq(C))
      OBVIOUS
    <3>3. (s \o u) \o <<x>> = s \o (u \o <<x>>)
      BY <3>2, ConcatAssociative
    <3> QED
      BY <3>1, <3>3, Zenon
  <2>3. FlattenSeq(s \o Append(u, x)) = FlattenSeq(s \o u) \o x
    BY <2>2, FlatAppend
  <2>4. FlattenSeq(s \o u) = FlattenSeq(s) \o FlattenSeq(u)
    BY <1>2, <1>4, <2>1
  <2>5. (FlattenSeq(s) \o FlattenSeq(u)) \o x = FlattenSeq(s) \o (FlattenSeq(u) \o x)
    <3>1. FlattenSeq(s) \in Seq(C) /\ FlattenSeq(u) \in Seq(C)
      BY FlatType
    <3> QED
      BY <3>1, ConcatAssociative, SMTT(60)
  <2>6. FlattenSeq(Append(u, x)) = FlattenSeq(u) \o x
    BY FlatAppend
  <2>7. FlattenSeq(s \o SubSeq(t, 1, k + 1)) = FlattenSeq(s) \o FlattenSeq(SubSeq(t, 1, k + 1))
    BY <2>1, <2>3, <2>4, <2>5, <2>6, Zenon
  <2>8. k + 1 \in 0 .. n
    OBVIOUS
  <2> QED
    BY <1>2, <2>7, <2>8
<1>5. n \in S
  <2>1. 0 .. n \subseteq S
    BY <1>3, <1>4, UpTo
  <2> QED
    BY <2>1
<1>6. SubSeq(t, 1, n) = t
  BY <1>1, SubSeqFull
<1> QED
  BY <1>2, <1>5, <1>6

----------------------------------------------------------------------------
(* Texts and what goes over the line for them                               *)

Characters == STRING \cup {"\n", "\r"}

\* What one character becomes.
Wire(ch) == IF ch = "\n" THEN <<"\n", "\r">> ELSE <<ch>>

LEMMA WireType ==
  ASSUME NEW ch \in Characters
  PROVE  Wire(ch) \in Seq(Characters)
<1>1. "\n" \in Characters /\ "\r" \in Characters
  BY DEF Characters
<1>2. <<"\n", "\r">> \in Seq(Characters) /\ <<ch>> \in Seq(Characters)
  BY <1>1
<1> QED
  BY <1>2, Zenon DEF Wire

LEMMA WiredIs ==
  ASSUME NEW text \in Seq(Characters)
  PROVE  \E s \in Seq(Seq(Characters)) :
           /\ Wired(text) = FlattenSeq(s) /\ Len(s) = Len(text)
           /\ \A i \in 1 .. Len(text) : s[i] = Wire(text[i])
<1>1. PICK s : s = [i \in 1 .. Len(text) |-> Wire(text[i])]
  OBVIOUS
<1>2. \A i \in 1 .. Len(text) : Wire(text[i]) \in Seq(Characters)
  BY WireType
<1>3. s \in Seq(Seq(Characters)) /\ Len(s) = Len(text) /\ \A i \in 1 .. Len(text) : s[i] = Wire(text[i])
  BY <1>1, <1>2
<1>4. Wired(text) = FlattenSeq(s)
  <2>1. DOMAIN text = 1 .. Len(text)
    OBVIOUS
  <2> QED
    BY <1>1, <2>1, Zenon DEF Wired, Wire
<1> QED
  BY <1>3, <1>4

LEMMA WiredType ==
  ASSUME NEW text \in Seq(Characters)
  PROVE  Wired(text) \in Seq(Characters)
<1> QED
  BY WiredIs, FlatType

LEMMA WiredEmpty == Wired(<<>>) = <<>>
<1>1. PICK s \in Seq(Seq(Characters)) : Wired(<<>>) = FlattenSeq(s) /\ Len(s) = Len(<<>>)
  <2>1. <<>> \in Seq(Characters)
    OBVIOUS
  <2> QED
    BY <2>1, WiredIs, Zenon
<1>2. s = <<>>
  <2>1. Len(s) = 0
    BY <1>1
  <2> QED
    BY <2>1, EmptySeq
<1> QED
  BY <1>1, <1>2, FlatEmpty, Zenon

LEMMA WiredConcat ==
  ASSUME NEW x \in Seq(Characters), NEW y \in Seq(Characters)
  PROVE  Wired(x \o y) = Wired(x) \o Wired(y)
<1>1. PICK s \in Seq(Seq(Characters)) : /\ Wired(x) = FlattenSeq(s) /\ Len(s) = Len(x)
                                        /\ \A i \in 1 .. Len(x) : s[i] = Wire(x[i])
  BY WiredIs, Zenon
<1>2. PICK t \in Seq(Seq(Characters)) : /\ Wired(y) = FlattenSeq(t) /\ Len(t) = Len(y)
                                        /\ \A i \in 1 .. Len(y) : t[i] = Wire(y[i])
  BY WiredIs, Zenon
<1>3. PICK z \in Seq(Characters) : z = x \o y
  BY ConcatProperties
<1>4. PICK r \in Seq(Seq(Characters)) : /\ Wired(z) = FlattenSeq(r) /\ Len(r) = Len(z)
                                        /\ \A i \in 1 .. Len(z) : r[i] = Wire(z[i])
  BY WiredIs, Zenon
<1>5. PICK m \in Nat, n \in Nat : m = Len(x) /\ n = Len(y)
  BY LenProperties
<1>6. Len(z) = m + n /\ \A i \in 1 .. m + n : z[i] = IF i <= m THEN x[i] ELSE y[i - m]
  BY <1>3, <1>5, ConcatProperties
<1>7. PICK q \in Seq(Seq(Characters)) : q = s \o t
  BY ConcatProperties
<1>8. Len(q) = m + n /\ \A i \in 1 .. m + n : q[i] = IF i <= m THEN s[i] ELSE t[i - m]
  <2>1. Len(s) = m /\ Len(t) = n
    BY <1>1, <1>2, <1>5
  <2>2. /\ Len(q) = Len(s) + Len(t)
        /\ \A i \in 1 .. Len(s) + Len(t) : q[i] = IF i <= Len(s) THEN s[i] ELSE t[i - Len(s)]
    BY <1>7, ConcatProperties
  <2> QED
    BY <2>1, <2>2, Zenon
<1>9. \A i \in 1 .. m + n : q[i] = r[i]
  <2> TAKE i \in 1 .. m + n
  <2>1. r[i] = Wire(z[i])
    BY <1>4, <1>6, Zenon
  <2>2. CASE i <= m
    <3>1. i \in 1 .. m
      BY <2>2
    <3> QED
      BY <1>1, <1>5, <1>6, <1>8, <2>1, <2>2, <3>1, Zenon
  <2>3. CASE ~ (i <= m)
    <3>1. i - m \in 1 .. n
      BY <2>3
    <3> QED
      BY <1>2, <1>5, <1>6, <1>8, <2>1, <2>3, <3>1, Zenon
  <2> QED
    BY <2>2, <2>3
<1>10. q = r
  <2>1. Len(q) = Len(r) /\ \A i \in 1 .. Len(q) : q[i] = r[i]
    BY <1>4, <1>6, <1>8, <1>9, Zenon
  <2> QED
    BY <2>1, SeqEqual
<1>11. FlattenSeq(s \o t) = FlattenSeq(s) \o FlattenSeq(t)
  BY FlatConcat, Zenon
<1> QED
  BY <1>1, <1>2, <1>3, <1>4, <1>7, <1>10, <1>11, Zenon

LEMMA Single ==
  ASSUME NEW C, NEW x \in C
  PROVE  <<x>> \in Seq(C) /\ Len(<<x>>) = 1 /\ <<x>>[1] = x
<1> QED
  OBVIOUS

LEMMA Pair ==
  ASSUME NEW C, NEW x \in C, NEW y \in C
  PROVE  <<x, y>> = <<x>> \o <<y>>
<1>1. PICK s \in Seq(C) : s = <<x, y>> /\ Len(s) = 2 /\ s[1] = x /\ s[2] = y
  <2>1. <<x, y>> \in Seq(C) /\ Len(<<x, y>>) = 2 /\ <<x, y>>[1] = x /\ <<x, y>>[2] = y
    OBVIOUS
  <2> QED
    BY <2>1, Zenon
<1>2. PICK t \in Seq(C) : t = <<x>> \o <<y>> /\ Len(t) = 2 /\ t[1] = x /\ t[2] = y
  <2>1. PICK u \in Seq(C), v \in Seq(C) :
          u = <<x>> /\ Len(u) = 1 /\ u[1] = x /\ v = <<y>> /\ Len(v) = 1 /\ v[1] = y
    <3>1. <<x>> \in Seq(C) /\ Len(<<x>>) = 1 /\ <<x>>[1] = x
      BY Single, Zenon
    <3>2. <<y>> \in Seq(C) /\ Len(<<y>>) = 1 /\ <<y>>[1] = y
      BY Single, Zenon
    <3> QED
      BY <3>1, <3>2, Zenon
  <2>2. /\ u \o v \in Seq(C) /\ Len(u \o v) = Len(u) + Len(v)
        /\ \A i \in 1 .. Len(u) + Len(v) : (u \o v)[i] = IF i <= Len(u) THEN u[i] ELSE v[i - Len(u)]
    BY ConcatProperties, Zenon
  <2>3. Len(u \o v) = 2 /\ (u \o v)[1] = x /\ (u \o v)[2] = y
    BY <2>1, <2>2
  <2> QED
    BY <2>1, <2>2, <2>3, Zenon
<1>3. \A i \in 1 .. Len(s) : s[i] = t[i]
  <2>1. \A i \in 1 .. Len(s) : i = 1 \/ i = 2
    BY <1>1
  <2> QED
    BY <1>1, <1>2, <2>1
<1> QED
  BY <1>1, <1>2, <1>3, SeqEqual

LEMMA WiredOne ==
  ASSUME NEW ch \in Characters
  PROVE  Wired(<<ch>>) = Wire(ch)
<1>1. PICK x \in Seq(Characters) : x = <<ch>> /\ Len(x) = 1 /\ x[1] = ch
  BY Single, Zenon
<1>2. PICK s \in Seq(Seq(Characters)) : /\ Wired(x) = FlattenSeq(s) /\ Len(s) = Len(x)
                                        /\ \A i \in 1 .. Len(x) : s[i] = Wire(x[i])
  BY WiredIs, Zenon
<1>3. Len(s) = 1 /\ s[1] = Wire(ch)
  BY <1>1, <1>2
<1>4. PICK w \in Seq(Characters) : w = Wire(ch)
  BY WireType
<1>5. s = <<w>>
  <2>1. PICK t \in Seq(Seq(Characters)) : t = <<w>> /\ Len(t) = 1 /\ t[1] = w
    BY Single, Zenon
  <2>2. Len(s) = Len(t) /\ \A i \in 1 .. Len(s) : s[i] = t[i]
    BY <1>3, <1>4, <2>1
  <2>3. s = t
    BY <2>2, SeqEqual
  <2> QED
    BY <2>1, <2>3, Zenon
<1>6. FlattenSeq(<<w>>) = w
  BY FlatOne
<1> QED
  BY <1>1, <1>2, <1>4, <1>5, <1>6, Zenon

(* The character that is written, and then what the recursive call and the  *)
(* rest of the loop write.                                                  *)
LEMMA WiredSend ==
  ASSUME NEW text \in Seq(Characters), text # <<>>
  PROVE  /\ Send(text) \in Seq(Characters) /\ Head(text) \in Characters
         /\ Wired(text) = <<Head(text)>> \o Wired(Send(text))
<1>1. PICK h \in Characters, t \in Seq(Characters) :
        h = Head(text) /\ t = Tail(text) /\ text = <<h>> \o t
  <2>1. Head(text) \in Characters /\ Tail(text) \in Seq(Characters)
    BY HeadTailProperties
  <2>2. text = <<Head(text)>> \o Tail(text)
    OBVIOUS
  <2> QED
    BY <2>1, <2>2, Zenon
<1>2. <<h>> \in Seq(Characters) /\ Wired(t) \in Seq(Characters)
  BY WiredType
<1>3. Wired(text) = Wire(h) \o Wired(t)
  <2>1. Wired(<<h>> \o t) = Wired(<<h>>) \o Wired(t)
    BY <1>2, WiredConcat
  <2>2. Wired(<<h>>) = Wire(h)
    BY WiredOne
  <2> QED
    BY <1>1, <2>1, <2>2, Zenon
<1>4. CASE h = "\n"
  <2>1. PICK r \in Characters : r = "\r"
    BY DEF Characters
  <2>2. r # "\n"
    BY <2>1
  <2>3. <<r>> \in Seq(Characters) /\ <<r>> \o t \in Seq(Characters)
    <3>1. <<r>> \in Seq(Characters)
      OBVIOUS
    <3> QED
      BY <3>1, ConcatProperties
  <2>4. Send(text) = <<r>> \o t
    BY <1>1, <1>4, <2>1, Zenon DEF Send
  <2>5. Wired(<<r>> \o t) = <<r>> \o Wired(t)
    <3>1. Wired(<<r>> \o t) = Wired(<<r>>) \o Wired(t)
      BY <2>3, WiredConcat
    <3>2. Wired(<<r>>) = <<r>>
      <4>1. Wired(<<r>>) = Wire(r)
        BY WiredOne
      <4> QED
        BY <2>2, <4>1, Zenon DEF Wire
    <3> QED
      BY <3>1, <3>2, Zenon
  <2>6. Wire(h) = <<h>> \o <<r>>
    <3>1. <<h>> \o <<r>> = <<h, r>>
      BY Pair
    <3> QED
      BY <1>4, <2>1, <3>1, Zenon DEF Wire
  <2>7. (<<h>> \o <<r>>) \o Wired(t) = <<h>> \o (<<r>> \o Wired(t))
    BY <1>2, <2>3, ConcatAssociative
  <2> QED
    BY <1>1, <1>3, <2>3, <2>4, <2>5, <2>6, <2>7, Zenon
<1>5. CASE h # "\n"
  <2>1. Send(text) = <<>> \o t
    BY <1>1, <1>5, Zenon DEF Send
  <2>2. <<>> \o t = t
    BY ConcatEmptySeq
  <2>3. Wire(h) = <<h>>
    BY <1>5, Zenon DEF Wire
  <2> QED
    BY <1>1, <1>3, <2>1, <2>2, <2>3, Zenon
<1> QED
  BY <1>4, <1>5

----------------------------------------------------------------------------
(* The invariant                                                            *)

BeforePrinting == {"entry", "init", "enable", "mark"}    \* places in main
Places == BeforePrinting \cup {"print", "wait", "write", "idle"}

Context == [code : {"main", "panic"}, pc : Places, call : Nat, text : Seq(Characters)]

(* What the calls a context has begun come to, and how much of it has been  *)
(* given to the UART: all but what is left of the last one.                 *)
All(c) == Wired(FlattenSeq(SubSeq(Texts(c), 1, c.call - 1)))
Given(c) == SubSeq(All(c), 1, Len(All(c)) - Len(Wired(c.text)))

\* Sound: what is left is the end of what it comes to.
Sound(c) ==
  /\ c \in Context
  /\ c.call \in 1 .. Len(Texts(c)) + 1
  /\ All(c) = Given(c) \o Wired(c.text)

TypeInv ==
  /\ contexts \in Seq(Context) /\ contexts # <<>>
  /\ uart_initilized \in BOOLEAN /\ enabled \in BOOLEAN
  /\ fifo \in Seq(Characters) /\ line \in Seq(Characters)

(* A context has something left to send just while it is in the loop, and   *)
(* gets there only with the console up. Only main has stages before it      *)
(* prints.                                                                  *)
ContextsInv ==
  \A k \in 1 .. Len(contexts) :
    /\ Sound(contexts[k])
    /\ contexts[k].pc \in {"wait", "write"} <=> contexts[k].text # <<>>
    /\ contexts[k].pc \in {"wait", "write"} => uart_initilized
    /\ contexts[k].pc \in BeforePrinting => k = 1 /\ contexts[k].call = 1

(* How far main has got with the UART. Whoever is on top of it then goes on *)
(* with what it had done.                                                   *)
SetUp ==
  LET pc == contexts[1].pc IN
  /\ pc \in BeforePrinting /\ top = 1 => fifo = <<>> /\ line = <<>>
  /\ pc \in {"init", "enable", "mark"} => ~ uart_initilized
  /\ pc = "enable" => ~ enabled
  /\ pc = "mark" => enabled
  /\ pc \notin BeforePrinting => uart_initilized /\ enabled

(* Room that was seen is still there.                                       *)
RoomStays == Top.pc = "write" /\ enabled => Len(fifo) < FifoSize

IInv == TypeInv /\ ContextsInv /\ SetUp /\ RoomStays /\ LineIsWhole

----------------------------------------------------------------------------
(* What a context has given to the UART                                     *)

LEMMA TextsTyped ==
  ASSUME NEW c
  PROVE  Texts(c) \in Seq(Seq(Characters))
<1>1. STRING \subseteq Characters
  BY DEF Characters
<1>2. Seq(STRING) \subseteq Seq(Characters)
  BY <1>1, SeqMonotonic
<1>3. MainTexts \in Seq(Seq(Characters)) /\ PanicTexts \in Seq(Seq(Characters))
  BY <1>2, SeqMonotonic, TextsAssumption
<1> QED
  BY <1>3, Zenon DEF Texts

(* What a context has begun, one call later.                                *)
LEMMA NextText ==
  ASSUME NEW c \in Context, c.call \in 1 .. Len(Texts(c))
  PROVE  /\ Wired(FlattenSeq(SubSeq(Texts(c), 1, c.call))) = All(c) \o Wired(Texts(c)[c.call])
         /\ Texts(c)[c.call] \in Seq(Characters)
         /\ All(c) \in Seq(Characters)
<1>1. PICK T \in Seq(Seq(Characters)) : T = Texts(c)
  BY TextsTyped, Zenon
<1>2. PICK k \in 0 .. Len(T) - 1 : k = c.call - 1 /\ k + 1 = c.call
  <2>1. c.call - 1 \in 0 .. Len(T) - 1 /\ (c.call - 1) + 1 = c.call
    BY <1>1 DEF Context
  <2> QED
    BY <2>1, Zenon
<1>3. PICK u \in Seq(Seq(Characters)), x \in Seq(Characters) :
        u = SubSeq(T, 1, k) /\ x = T[k + 1] /\ FlattenSeq(SubSeq(T, 1, k + 1)) = FlattenSeq(u) \o x
  BY OneMore, FlatOneMore, Zenon
<1>4. FlattenSeq(u) \in Seq(Characters)
  BY FlatType
<1>5. Wired(FlattenSeq(u) \o x) = Wired(FlattenSeq(u)) \o Wired(x)
  BY <1>4, WiredConcat
<1>6. All(c) = Wired(FlattenSeq(u))
  BY <1>1, <1>2, <1>3, Zenon DEF All
<1>7. All(c) \in Seq(Characters)
  BY <1>4, <1>6, WiredType
<1> QED
  BY <1>1, <1>2, <1>3, <1>5, <1>6, <1>7, Zenon

LEMMA AllTyped ==
  ASSUME NEW c \in Context, c.call \in 1 .. Len(Texts(c)) + 1
  PROVE  All(c) \in Seq(Characters)
<1>1. PICK T \in Seq(Seq(Characters)) : T = Texts(c)
  BY TextsTyped, Zenon
<1>2. c.call - 1 \in 0 .. Len(T) /\ Len(T) \in Nat
  BY <1>1 DEF Context
<1>3. SubSeq(T, 1, c.call - 1) \in Seq(Seq(Characters))
  <2>1. \A i \in 1 .. c.call - 1 : T[i] \in Seq(Characters)
    BY <1>2
  <2>2. c.call - 1 \in Int
    BY <1>2
  <2> QED
    BY <2>1, <2>2, SubSeqProperties
<1>4. FlattenSeq(SubSeq(T, 1, c.call - 1)) \in Seq(Characters)
  BY <1>3, FlatType
<1> QED
  BY <1>1, <1>4, WiredType, Zenon DEF All

(* A prefix is found by what is behind it.                                  *)
LEMMA FrontOf ==
  ASSUME NEW C, NEW u \in Seq(C), NEW w \in Seq(C)
  PROVE  SubSeq(u \o w, 1, Len(u \o w) - Len(w)) = u
<1>1. PICK m \in Nat, n \in Nat : m = Len(u) /\ n = Len(w)
  BY LenProperties
<1>2. PICK s \in Seq(C) : s = u \o w /\ Len(s) = m + n /\ \A i \in 1 .. m : s[i] = u[i]
  <2>1. /\ u \o w \in Seq(C) /\ Len(u \o w) = m + n
        /\ \A i \in 1 .. m + n : (u \o w)[i] = IF i <= m THEN u[i] ELSE w[i - m]
    BY <1>1, ConcatProperties
  <2>2. \A i \in 1 .. m : (u \o w)[i] = u[i]
    <3>1. \A i \in 1 .. m : i \in 1 .. m + n /\ i <= m
      OBVIOUS
    <3> QED
      BY <2>1, <3>1, Zenon
  <2> QED
    BY <2>1, <2>2, Zenon
<1>3. (m + n) - n = m /\ m \in Int /\ \A i \in 1 .. m : s[i] \in C
  BY <1>2
<1>4. PICK t \in Seq(C) : t = SubSeq(s, 1, m) /\ Len(t) = m /\ \A i \in 1 .. m : t[i] = s[i]
  <2>1. /\ SubSeq(s, 1, m) \in Seq(C) /\ Len(SubSeq(s, 1, m)) = IF 1 <= m THEN m - 1 + 1 ELSE 0
        /\ \A i \in 1 .. m - 1 + 1 : SubSeq(s, 1, m)[i] = s[1 + i - 1]
    BY <1>3, SubSeqProperties
  <2>2. Len(SubSeq(s, 1, m)) = m
    BY <2>1
  <2>3. \A i \in 1 .. m : SubSeq(s, 1, m)[i] = s[i]
    <3>1. \A i \in 1 .. m : i \in 1 .. m - 1 + 1 /\ 1 + i - 1 = i
      OBVIOUS
    <3> QED
      BY <2>1, <3>1, Zenon
  <2> QED
    BY <2>1, <2>2, <2>3, Zenon
<1>5. t = u
  <2>1. Len(t) = Len(u) /\ \A i \in 1 .. Len(t) : t[i] = u[i]
    BY <1>1, <1>2, <1>4, Zenon
  <2> QED
    BY <2>1, SeqEqual
<1> QED
  BY <1>1, <1>2, <1>3, <1>4, <1>5, Zenon

LEMMA GivenIs ==
  ASSUME NEW c \in Context, c.call \in 1 .. Len(Texts(c)) + 1,
         NEW u \in Seq(Characters), All(c) = u \o Wired(c.text)
  PROVE  Given(c) = u /\ Sound(c)
<1>1. Wired(c.text) \in Seq(Characters)
  BY WiredType DEF Context
<1>2. Given(c) = u
  BY <1>1, FrontOf, Zenon DEF Given
<1> QED
  BY <1>2, Zenon DEF Sound

LEMMA GivenTyped ==
  ASSUME NEW c, Sound(c)
  PROVE  Given(c) \in Seq(Characters)
<1>1. PICK s \in Seq(Characters) : s = All(c)
  BY AllTyped, Zenon DEF Sound
<1>2. PICK w \in Seq(Characters) : w = Wired(c.text)
  BY WiredType, Zenon DEF Sound, Context
<1>3. PICK n \in Int : n = Len(s) - Len(w) /\ n <= Len(s)
  BY <1>1, <1>2
<1>4. \A i \in 1 .. n : s[i] \in Characters
  BY <1>3
<1>5. SubSeq(s, 1, n) \in Seq(Characters)
  BY <1>4, SubSeqProperties
<1> QED
  BY <1>1, <1>2, <1>3, <1>5, Zenon DEF Given

(* The steps of a context. Nothing but a character written changes what it  *)
(* has given.                                                               *)
LEMMA Goes ==
  ASSUME NEW c, Sound(c), NEW p \in Places
  PROVE  LET d == [c EXCEPT !.pc = p] IN Sound(d) /\ Given(d) = Given(c)
<1>1. PICK d \in Context :
        d = [c EXCEPT !.pc = p] /\ d.code = c.code /\ d.call = c.call /\ d.text = c.text
  <2> DEFINE e == [c EXCEPT !.pc = p]
  <2>1. e \in Context /\ e.code = c.code /\ e.call = c.call /\ e.text = c.text
    BY DEF Sound, Context
  <2> QED
    BY <2>1, Zenon
<1>2. Texts(d) = Texts(c)
  BY <1>1, Zenon DEF Texts
<1>3. All(d) = All(c) /\ Given(d) = Given(c)
  BY <1>1, <1>2, Zenon DEF All, Given
<1>4. d.call \in 1 .. Len(Texts(d)) + 1 /\ All(d) = Given(d) \o Wired(d.text)
  BY <1>1, <1>2, <1>3, Zenon DEF Sound
<1> QED
  BY <1>1, <1>3, <1>4, Zenon DEF Sound

LEMMA Begins ==
  ASSUME NEW c, Sound(c), c.text = <<>>, c.call <= Len(Texts(c)), NEW p \in Places
  PROVE  LET d == [c EXCEPT !.call = @ + 1, !.text = Texts(c)[c.call], !.pc = p] IN
         Sound(d) /\ Given(d) = Given(c) /\ Texts(c)[c.call] \in Seq(Characters)
<1>1. /\ c \in Context /\ c.call \in Nat /\ c.call \in 1 .. Len(Texts(c))
      /\ All(c) \in Seq(Characters) /\ All(c) = Given(c) \o Wired(c.text)
      /\ Wired(FlattenSeq(SubSeq(Texts(c), 1, c.call))) = All(c) \o Wired(Texts(c)[c.call])
      /\ Texts(c)[c.call] \in Seq(Characters) /\ Len(Texts(c)) \in Nat
  <2>1. Len(Texts(c)) \in Nat
    BY TextsTyped, LenProperties
  <2>2. c \in Context /\ c.call \in Nat /\ c.call \in 1 .. Len(Texts(c)) /\ All(c) = Given(c) \o Wired(c.text)
    BY <2>1 DEF Sound, Context
  <2> QED
    BY <2>1, <2>2, NextText, Zenon
<1>2. PICK x \in Seq(Characters) : x = Texts(c)[c.call]
  BY <1>1, Zenon
<1>3. PICK d \in Context : /\ d = [c EXCEPT !.call = @ + 1, !.text = x, !.pc = p]
                           /\ d.code = c.code /\ d.call = c.call + 1 /\ d.text = x
  <2> DEFINE e == [c EXCEPT !.call = @ + 1, !.text = x, !.pc = p]
  <2>1. e \in Context /\ e.code = c.code /\ e.call = c.call + 1 /\ e.text = x
    <3>1. c \in Context
      BY <1>1
    <3>2. PICK k \in Nat : k = c.call + 1
      <4>1. c.call + 1 \in Nat
        BY <3>1 DEF Context
      <4> QED
        BY <4>1, Zenon
    <3>3. e = [c EXCEPT !.call = k, !.text = x, !.pc = p]
      BY <3>2, Zenon
    <3>4. e \in Context /\ e.code = c.code /\ e.call = k /\ e.text = x
      <4> HIDE DEF e
      <4> QED
        BY <3>1, <3>3 DEF Context
    <3> QED
      BY <3>2, <3>4, Zenon
  <2> QED
    BY <2>1, Zenon
<1>4. Texts(d) = Texts(c)
  BY <1>3, Zenon DEF Texts
<1>5. d.call - 1 = c.call /\ d.call \in 1 .. Len(Texts(d)) + 1
  BY <1>1, <1>3, <1>4
<1>6. All(d) = All(c) \o Wired(d.text)
  BY <1>1, <1>2, <1>3, <1>4, <1>5, Zenon DEF All
<1>7. Given(d) = All(c) /\ Sound(d)
  BY <1>1, <1>5, <1>6, GivenIs
<1>8. Given(c) = All(c)
  <2>1. Given(c) \in Seq(Characters)
    BY GivenTyped
  <2>2. Given(c) \o <<>> = Given(c)
    BY <2>1, ConcatEmptySeq
  <2> QED
    BY <1>1, <2>2, WiredEmpty, Zenon
<1> QED
  BY <1>2, <1>3, <1>7, <1>8, Zenon

LEMMA Fails ==
  ASSUME NEW c, Sound(c), c.text = <<>>, c.call <= Len(Texts(c))
  PROVE  Sound([c EXCEPT !.call = @ + 1])
<1>1. /\ c \in Context /\ c.call \in Nat /\ c.call >= 1 /\ Len(Texts(c)) \in Nat
  <2>1. Len(Texts(c)) \in Nat
    BY TextsTyped, LenProperties
  <2> QED
    BY <2>1 DEF Sound, Context
<1>2. PICK d \in Context : /\ d = [c EXCEPT !.call = @ + 1]
                           /\ d.code = c.code /\ d.call = c.call + 1 /\ d.text = <<>>
  <2> DEFINE e == [c EXCEPT !.call = @ + 1]
  <2>1. e \in Context /\ e.code = c.code /\ e.call = c.call + 1 /\ e.text = c.text
    BY <1>1 DEF Context
  <2> QED
    BY <2>1, Zenon
<1>3. Texts(d) = Texts(c)
  BY <1>2, Zenon DEF Texts
<1>4. d.call \in 1 .. Len(Texts(d)) + 1
  BY <1>1, <1>2, <1>3
<1>5. All(d) \in Seq(Characters)
  BY <1>4, AllTyped
<1>6. All(d) = All(d) \o Wired(d.text)
  <2>1. All(d) \o <<>> = All(d)
    BY <1>5, ConcatEmptySeq
  <2> QED
    BY <1>2, <2>1, WiredEmpty, Zenon
<1>7. Sound(d)
  BY <1>4, <1>5, <1>6, GivenIs
<1> QED
  BY <1>2, <1>7, Zenon

LEMMA Sends ==
  ASSUME NEW c, Sound(c), c.text # <<>>, NEW p \in Places
  PROVE  LET d == [c EXCEPT !.text = Send(c.text), !.pc = p] IN
         /\ Sound(d) /\ Given(d) = Given(c) \o <<Head(c.text)>>
         /\ Head(c.text) \in Characters
<1>1. /\ c \in Context /\ c.text \in Seq(Characters)
      /\ c.call \in 1 .. Len(Texts(c)) + 1 /\ All(c) = Given(c) \o Wired(c.text)
      /\ Given(c) \in Seq(Characters)
  BY GivenTyped DEF Sound, Context
<1>2. PICK h \in Characters, r \in Seq(Characters) :
        /\ h = Head(c.text) /\ r = Send(c.text)
        /\ Wired(c.text) = <<h>> \o Wired(r)
  BY <1>1, WiredSend, Zenon
<1>3. PICK d \in Context : /\ d = [c EXCEPT !.text = r, !.pc = p]
                           /\ d.code = c.code /\ d.call = c.call /\ d.text = r
  <2> DEFINE e == [c EXCEPT !.text = r, !.pc = p]
  <2>1. e \in Context /\ e.code = c.code /\ e.call = c.call /\ e.text = r
    BY <1>1 DEF Context
  <2> QED
    BY <2>1, Zenon
<1>4. Texts(d) = Texts(c)
  BY <1>3, Zenon DEF Texts
<1>5. All(d) = All(c) /\ d.call \in 1 .. Len(Texts(d)) + 1
  BY <1>1, <1>3, <1>4, Zenon DEF All
<1>6. PICK u \in Seq(Characters) : u = Given(c) \o <<h>>
  <2>1. <<h>> \in Seq(Characters)
    BY Single, Zenon
  <2> QED
    BY <1>1, <2>1, ConcatProperties
<1>7. All(d) = u \o Wired(d.text)
  <2>1. <<h>> \in Seq(Characters) /\ Wired(r) \in Seq(Characters)
    BY Single, WiredType
  <2>2. (Given(c) \o <<h>>) \o Wired(r) = Given(c) \o (<<h>> \o Wired(r))
    BY <1>1, <2>1, ConcatAssociative
  <2> QED
    BY <1>1, <1>2, <1>3, <1>5, <1>6, <2>2, Zenon
<1>8. Given(d) = u /\ Sound(d)
  BY <1>5, <1>7, GivenIs
<1> QED
  BY <1>2, <1>3, <1>6, <1>8, Zenon

\* A context that has begun nothing.
LEMMA Fresh ==
  ASSUME NEW c \in Context, c.call = 1, c.text = <<>>
  PROVE  Sound(c) /\ Given(c) = <<>>
<1>1. 1 \in 1 .. Len(Texts(c)) + 1
  <2>1. Len(Texts(c)) \in Nat
    BY TextsTyped, LenProperties
  <2> QED
    BY <2>1
<1>2. All(c) = <<>>
  <2>1. SubSeq(Texts(c), 1, c.call - 1) = <<>>
    <3>1. c.call - 1 = 0
      OBVIOUS
    <3>2. SubSeq(Texts(c), 1, 0) = <<>>
      BY SubSeqEmpty
    <3> QED
      BY <3>1, <3>2, Zenon
  <2> QED
    BY <2>1, FlatEmpty, WiredEmpty, Zenon DEF All
<1>3. PICK u \in Seq(Characters) : u = <<>> /\ u \o <<>> = u
  <2>1. <<>> \in Seq(Characters) /\ <<>> \o <<>> = <<>>
    OBVIOUS
  <2> QED
    BY <2>1, Zenon
<1>4. All(c) = u \o Wired(c.text)
  BY <1>2, <1>3, WiredEmpty, Zenon
<1>5. Given(c) = u /\ Sound(c)
  BY <1>1, <1>4, GivenIs
<1> QED
  BY <1>3, <1>5, Zenon

(* What the contexts have given, one after the other.                       *)
GivenUp(c, up) == IF up THEN Given(c) ELSE <<>>
OnLine(cs, up) == FlattenSeq([k \in 1 .. Len(cs) |-> GivenUp(cs[k], up)])

AllSound(cs) == cs \in Seq(Context) /\ \A k \in 1 .. Len(cs) : Sound(cs[k])

LEMMA OnLineIs ==
  ASSUME NEW cs, AllSound(cs), NEW up \in BOOLEAN
  PROVE  \E s \in Seq(Seq(Characters)) :
           /\ OnLine(cs, up) = FlattenSeq(s) /\ Len(s) = Len(cs)
           /\ \A k \in 1 .. Len(cs) : s[k] = GivenUp(cs[k], up)
<1>1. PICK s : s = [k \in 1 .. Len(cs) |-> GivenUp(cs[k], up)]
  OBVIOUS
<1>2. \A k \in 1 .. Len(cs) : GivenUp(cs[k], up) \in Seq(Characters)
  <2> TAKE k \in 1 .. Len(cs)
  <2>1. Given(cs[k]) \in Seq(Characters)
    BY GivenTyped DEF AllSound
  <2>2. <<>> \in Seq(Characters)
    OBVIOUS
  <2> QED
    BY <2>1, <2>2, Zenon DEF GivenUp
<1>3. Len(cs) \in Nat
  BY DEF AllSound
<1>4. s \in Seq(Seq(Characters)) /\ Len(s) = Len(cs)
      /\ \A k \in 1 .. Len(cs) : s[k] = GivenUp(cs[k], up)
  BY <1>1, <1>2, <1>3
<1>5. OnLine(cs, up) = FlattenSeq(s)
  BY <1>1, Zenon DEF OnLine
<1> QED
  BY <1>4, <1>5

\* The last context becomes d.
Replaced(cs, d) == [cs EXCEPT ![Len(cs)] = d]

\* Of a context that becomes d: it gives x more.
Gives(d, context, up, x) == GivenUp(d, up) = GivenUp(context, up) \o x

LEMMA OnLineGrows ==
  ASSUME NEW cs, AllSound(cs), cs # <<>>, NEW up \in BOOLEAN,
         NEW d, Sound(d), NEW x \in Seq(Characters),
         Gives(d, cs[Len(cs)], up, x)
  PROVE  OnLine(Replaced(cs, d), up) = OnLine(cs, up) \o x
<1>1. PICK n \in Nat : n + 1 = Len(cs)
  <2>1. Len(cs) \in Nat /\ Len(cs) # 0
    BY EmptySeq DEF AllSound
  <2>2. Len(cs) - 1 \in Nat /\ (Len(cs) - 1) + 1 = Len(cs)
    BY <2>1
  <2> QED
    BY <2>2, Zenon
<1>2. PICK ds \in Seq(Context) : /\ ds = Replaced(cs, d) /\ Len(ds) = n + 1
                                 /\ ds[n + 1] = d /\ \A k \in 1 .. n : ds[k] = cs[k]
  <2>1. n + 1 \in 1 .. Len(cs) /\ cs \in Seq(Context) /\ d \in Context
    BY <1>1 DEF AllSound, Sound
  <2>2. /\ [cs EXCEPT ![n + 1] = d] \in Seq(Context) /\ Len([cs EXCEPT ![n + 1] = d]) = Len(cs)
        /\ \A k \in 1 .. Len(cs) : [cs EXCEPT ![n + 1] = d][k] = IF k = n + 1 THEN d ELSE cs[k]
    BY <2>1, ExceptSeq
  <2>3. n + 1 \in 1 .. n + 1 /\ \A k \in 1 .. n : k \in 1 .. n + 1 /\ k # n + 1
    BY <1>1
  <2> QED
    BY <1>1, <2>2, <2>3, Zenon DEF Replaced
<1>3. AllSound(ds)
  <2>1. \A k \in 1 .. n + 1 : k \in 1 .. n \/ k = n + 1
    BY <1>1
  <2> QED
    BY <1>1, <1>2, <2>1 DEF AllSound
<1>4. PICK s \in Seq(Seq(Characters)) : /\ OnLine(cs, up) = FlattenSeq(s) /\ Len(s) = n + 1
                                        /\ \A k \in 1 .. n + 1 : s[k] = GivenUp(cs[k], up)
  BY <1>1, OnLineIs, Zenon
<1>5. PICK t \in Seq(Seq(Characters)) : /\ OnLine(ds, up) = FlattenSeq(t) /\ Len(t) = n + 1
                                        /\ \A k \in 1 .. n + 1 : t[k] = GivenUp(ds[k], up)
  <2>1. \E t \in Seq(Seq(Characters)) : /\ OnLine(ds, up) = FlattenSeq(t) /\ Len(t) = Len(ds)
                                        /\ \A k \in 1 .. Len(ds) : t[k] = GivenUp(ds[k], up)
    BY <1>3, OnLineIs, Zenon
  <2> QED
    BY <1>2, <2>1, Zenon
<1>6. n + 1 \in 1 .. n + 1 /\ \A k \in 1 .. n : k \in 1 .. n + 1
  BY <1>1
<1>7. t[n + 1] = s[n + 1] \o x /\ \A k \in 1 .. n : t[k] = s[k]
  <2>1. t[n + 1] = GivenUp(d, up) /\ s[n + 1] = GivenUp(cs[n + 1], up)
    BY <1>2, <1>4, <1>5, <1>6, Zenon
  <2>2. GivenUp(d, up) = GivenUp(cs[n + 1], up) \o x
    BY <1>1, Zenon DEF Gives
  <2>3. ASSUME NEW k \in 1 .. n
        PROVE  t[k] = s[k]
    <3>1. t[k] = GivenUp(ds[k], up) /\ s[k] = GivenUp(cs[k], up)
      BY <1>4, <1>5, <1>6, Zenon
    <3> QED
      BY <1>2, <3>1, Zenon
  <2> QED
    BY <2>1, <2>2, <2>3, Zenon
<1>8. /\ s[n + 1] \in Seq(Characters) /\ SubSeq(s, 1, n) \in Seq(Seq(Characters))
      /\ FlattenSeq(SubSeq(s, 1, n + 1)) = FlattenSeq(SubSeq(s, 1, n)) \o s[n + 1]
      /\ SubSeq(s, 1, n + 1) = s
  <2>1. n \in 0 .. Len(s) - 1
    BY <1>4
  <2> QED
    BY <1>4, <2>1, OneMore, FlatOneMore, SubSeqFull
<1>9. /\ FlattenSeq(SubSeq(t, 1, n + 1)) = FlattenSeq(SubSeq(t, 1, n)) \o t[n + 1]
      /\ SubSeq(t, 1, n + 1) = t
  <2>1. n \in 0 .. Len(t) - 1
    BY <1>5
  <2> QED
    BY <1>5, <2>1, FlatOneMore, SubSeqFull
<1>10. SubSeq(t, 1, n) = SubSeq(s, 1, n)
  <2>1. SubSeq(t, 1, n) = [k \in 1 .. n |-> t[k]] /\ SubSeq(s, 1, n) = [k \in 1 .. n |-> s[k]]
    BY <1>4, <1>5
  <2> QED
    BY <1>7, <2>1
<1>11. (FlattenSeq(SubSeq(s, 1, n)) \o s[n + 1]) \o x = FlattenSeq(SubSeq(s, 1, n)) \o (s[n + 1] \o x)
  <2>1. FlattenSeq(SubSeq(s, 1, n)) \in Seq(Characters)
    BY <1>8, FlatType
  <2>2. PICK a \in Seq(Characters), b \in Seq(Characters) :
          a = FlattenSeq(SubSeq(s, 1, n)) /\ b = s[n + 1]
    BY <1>8, <2>1, Zenon
  <2>3. (a \o b) \o x = a \o (b \o x)
    BY ConcatAssociative, SMTT(60)
  <2> QED
    BY <2>2, <2>3, Zenon
<1> QED
  BY <1>1, <1>2, <1>4, <1>5, <1>7, <1>8, <1>9, <1>10, <1>11, Zenon

\* A context is put on top that has given nothing.
LEMMA OnLinePushed ==
  ASSUME NEW cs, AllSound(cs), NEW up \in BOOLEAN, NEW d, Sound(d), GivenUp(d, up) = <<>>
  PROVE  OnLine(Append(cs, d), up) = OnLine(cs, up) /\ AllSound(Append(cs, d))
<1>1. PICK n \in Nat : n = Len(cs)
  BY DEF AllSound
<1>2. PICK ds \in Seq(Context) : /\ ds = Append(cs, d) /\ Len(ds) = n + 1
                                 /\ ds[n + 1] = d /\ \A k \in 1 .. n : ds[k] = cs[k]
  <2>1. cs \in Seq(Context) /\ d \in Context
    BY DEF AllSound, Sound
  <2>2. /\ Append(cs, d) \in Seq(Context) /\ Len(Append(cs, d)) = Len(cs) + 1
        /\ \A k \in 1 .. Len(cs) : Append(cs, d)[k] = cs[k]
        /\ Append(cs, d)[Len(cs) + 1] = d
    BY <2>1, AppendProperties
  <2> QED
    BY <1>1, <2>2, Zenon
<1>3. AllSound(ds)
  <2>1. \A k \in 1 .. n + 1 : k \in 1 .. n \/ k = n + 1
    BY <1>1
  <2> QED
    BY <1>1, <1>2, <2>1 DEF AllSound
<1>4. PICK s \in Seq(Seq(Characters)) : /\ OnLine(cs, up) = FlattenSeq(s) /\ Len(s) = n
                                        /\ \A k \in 1 .. n : s[k] = GivenUp(cs[k], up)
  BY <1>1, OnLineIs, Zenon
<1>5. PICK t \in Seq(Seq(Characters)) : /\ OnLine(ds, up) = FlattenSeq(t) /\ Len(t) = n + 1
                                        /\ \A k \in 1 .. n + 1 : t[k] = GivenUp(ds[k], up)
  <2>1. \E t \in Seq(Seq(Characters)) : /\ OnLine(ds, up) = FlattenSeq(t) /\ Len(t) = Len(ds)
                                        /\ \A k \in 1 .. Len(ds) : t[k] = GivenUp(ds[k], up)
    BY <1>3, OnLineIs, Zenon
  <2> QED
    BY <1>2, <2>1, Zenon
<1>6. n + 1 \in 1 .. n + 1 /\ \A k \in 1 .. n : k \in 1 .. n + 1
  BY <1>1
<1>7. t[n + 1] = <<>> /\ \A k \in 1 .. n : t[k] = s[k]
  BY <1>1, <1>2, <1>4, <1>5, <1>6, Zenon
<1>8. FlattenSeq(t) = FlattenSeq(SubSeq(t, 1, n)) \o t[n + 1]
  <2>1. n \in 0 .. Len(t) - 1
    BY <1>5
  <2>2. SubSeq(t, 1, n + 1) = t
    BY <1>5, SubSeqFull
  <2> QED
    BY <2>1, <2>2, FlatOneMore
<1>9. SubSeq(t, 1, n) = s
  <2>1. SubSeq(t, 1, n) = [k \in 1 .. n |-> t[k]] /\ s = [k \in 1 .. n |-> s[k]]
    BY <1>4, <1>5
  <2> QED
    BY <1>7, <2>1
<1>10. FlattenSeq(s) \o <<>> = FlattenSeq(s)
  BY FlatType, ConcatEmptySeq
<1> QED
  BY <1>2, <1>3, <1>4, <1>5, <1>7, <1>8, <1>9, <1>10, Zenon

LEMMA LineIs == LineIsWhole <=> (enabled => line \o fifo = OnLine(contexts, uart_initilized))
<1>1. FlattenSeq([k \in 1 .. top |-> Said(contexts[k])]) = OnLine(contexts, uart_initilized)
  BY Zenon DEF OnLine, GivenUp, Given, All, Said, top
<1> QED
  BY <1>1, Zenon DEF LineIsWhole

LEMMA LineIsNext ==
  LineIsWhole' <=> (enabled' => line' \o fifo' = OnLine(contexts', uart_initilized'))
<1>1. FlattenSeq([k \in 1 .. top' |-> Said(contexts[k])']) = OnLine(contexts', uart_initilized')
  BY Zenon DEF OnLine, GivenUp, Given, All, Said, Texts, top
<1> QED
  BY <1>1, Zenon DEF LineIsWhole

LEMMA TopIs ==
  ASSUME TypeInv, ContextsInv
  PROVE  /\ top \in Nat /\ top >= 1 /\ top \in 1 .. Len(contexts) /\ AllSound(contexts)
         /\ Top \in Context /\ Sound(Top)
         /\ Top.pc \in {"wait", "write"} <=> Top.text # <<>>
         /\ Top.pc \in {"wait", "write"} => uart_initilized
         /\ Top.pc \in BeforePrinting => top = 1 /\ Top.call = 1
<1>1. top \in Nat /\ top >= 1 /\ top \in 1 .. Len(contexts)
  <2>1. Len(contexts) \in Nat /\ Len(contexts) # 0
    BY EmptySeq DEF TypeInv
  <2> QED
    BY <2>1 DEF top
<1>2. AllSound(contexts)
  BY Zenon DEF TypeInv, ContextsInv, AllSound
<1>3. Sound(Top)
  BY <1>1, Zenon DEF ContextsInv, Top
<1>4. Top \in Context
  BY <1>3, Zenon DEF Sound
<1> QED
  BY <1>1, <1>2, <1>3, <1>4, Zenon DEF ContextsInv, Top

(* The context on top becomes d.                                            *)
LEMMA TopBecomes ==
  ASSUME TypeInv, ContextsInv, NEW d, Sound(d),
         contexts' = [contexts EXCEPT ![top] = d],
         d.pc \in {"wait", "write"} <=> d.text # <<>>,
         d.pc \in {"wait", "write"} => uart_initilized',
         \A k \in 1 .. Len(contexts) :
           k # top /\ contexts[k].pc \in {"wait", "write"} => uart_initilized',
         d.pc \in BeforePrinting => top = 1 /\ d.call = 1
  PROVE  /\ contexts' \in Seq(Context) /\ contexts' # <<>> /\ ContextsInv'
         /\ top' = top /\ Top' = d /\ \A k \in 1 .. top : k # top => contexts'[k] = contexts[k]
<1>1. top \in Nat /\ top >= 1 /\ top \in 1 .. Len(contexts) /\ contexts \in Seq(Context) /\ d \in Context
  BY TopIs, Zenon DEF TypeInv, Sound
<1>2. /\ contexts' \in Seq(Context) /\ Len(contexts') = Len(contexts)
      /\ \A k \in 1 .. Len(contexts) : contexts'[k] = IF k = top THEN d ELSE contexts[k]
  BY <1>1, ExceptSeq
<1>3. contexts' # <<>> /\ top' = top /\ Top' = d
  <2>1. Len(contexts') # 0
    BY <1>1, <1>2
  <2>2. contexts' # <<>>
    BY <2>1
  <2> QED
    BY <1>1, <1>2, <2>2, Zenon DEF top, Top
<1>4. ContextsInv'
  <2> SUFFICES ASSUME NEW k \in 1 .. Len(contexts')
               PROVE  /\ Sound(contexts'[k])
                      /\ contexts'[k].pc \in {"wait", "write"} <=> contexts'[k].text # <<>>
                      /\ contexts'[k].pc \in {"wait", "write"} => uart_initilized'
                      /\ contexts'[k].pc \in BeforePrinting => k = 1 /\ contexts'[k].call = 1
    BY Zenon DEF ContextsInv, Sound, Given, All, Texts
  <2>1. CASE k = top
    <3>1. contexts'[k] = d
      BY <1>2, <2>1, Zenon
    <3> QED
      BY <2>1, <3>1, Zenon
  <2>2. CASE k # top
    <3>1. contexts'[k] = contexts[k] /\ k \in 1 .. Len(contexts)
      BY <1>2, <2>2, Zenon
    <3> QED
      BY <2>2, <3>1, Zenon DEF ContextsInv
  <2> QED
    BY <2>1, <2>2
<1> QED
  BY <1>2, <1>3, <1>4, Zenon DEF top

(* A step of whoever prints. x is what goes to the queue.                   *)
LEMMA PrinterStep ==
  ASSUME IInv, NEW d, NEW x \in Seq(Characters), Sound(d),
         Top.pc \notin BeforePrinting, d.pc \notin BeforePrinting,
         contexts' = [contexts EXCEPT ![top] = d],
         uart_initilized' = uart_initilized, enabled' = enabled, line' = line,
         d.pc \in {"wait", "write"} <=> d.text # <<>>,
         d.pc \in {"wait", "write"} => uart_initilized,
         GivenUp(d, uart_initilized) = GivenUp(Top, uart_initilized) \o x,
         fifo' \in Seq(Characters), enabled => fifo' = fifo \o x,
         d.pc = "write" /\ enabled => Len(fifo') < FifoSize
  PROVE  IInv'
<1>1. TypeInv /\ ContextsInv /\ SetUp /\ LineIsWhole
  BY Zenon DEF IInv
<1>2. /\ top \in Nat /\ top >= 1 /\ AllSound(contexts) /\ contexts # <<>>
      /\ uart_initilized \in BOOLEAN /\ enabled \in BOOLEAN
      /\ line \in Seq(Characters) /\ fifo \in Seq(Characters)
  BY <1>1, TopIs, Zenon DEF TypeInv
<1>3. /\ contexts' \in Seq(Context) /\ contexts' # <<>> /\ ContextsInv'
      /\ top' = top /\ Top' = d /\ \A k \in 1 .. top : k # top => contexts'[k] = contexts[k]
  <2>1. \A k \in 1 .. Len(contexts) :
          k # top /\ contexts[k].pc \in {"wait", "write"} => uart_initilized'
    BY <1>1, Zenon DEF ContextsInv
  <2> QED
    BY <1>1, <2>1, TopBecomes, Zenon
<1>4. TypeInv'
  BY <1>2, <1>3, Zenon DEF TypeInv
<1>5. SetUp'
  <2>1. CASE top = 1
    <3>1. contexts[1].pc \notin BeforePrinting /\ contexts'[1].pc \notin BeforePrinting
      BY <1>3, <2>1, Zenon DEF Top
    <3>2. uart_initilized /\ enabled
      BY <1>1, <3>1, Zenon DEF SetUp
    <3> QED
      BY <3>1, <3>2, Zenon DEF SetUp, BeforePrinting
  <2>2. CASE top # 1
    <3>1. 1 \in 1 .. top
      BY <1>2
    <3>2. contexts'[1] = contexts[1]
      BY <1>3, <2>2, <3>1, Zenon
    <3> QED
      BY <1>1, <1>3, <2>2, <3>2, Zenon DEF SetUp
  <2> QED
    BY <2>1, <2>2
<1>6. RoomStays'
  BY <1>3, Zenon DEF RoomStays
<1>7. LineIsWhole'
  <2>1. OnLine(contexts', uart_initilized) = OnLine(contexts, uart_initilized) \o x
    <3>1. Gives(d, contexts[Len(contexts)], uart_initilized, x)
      BY Zenon DEF top, Top, Gives
    <3>2. AllSound(contexts) /\ contexts # <<>> /\ uart_initilized \in BOOLEAN
      BY <1>2, Zenon
    <3>3. OnLine(Replaced(contexts, d), uart_initilized) = OnLine(contexts, uart_initilized) \o x
      BY <3>1, <3>2, OnLineGrows, Zenon
    <3> QED
      BY <3>3, Zenon DEF Replaced, top
  <2>2. ASSUME enabled
        PROVE  line \o fifo' = OnLine(contexts', uart_initilized)
    <3>1. line \o fifo = OnLine(contexts, uart_initilized)
      BY <1>1, <2>2, LineIs, Zenon
    <3>2. (line \o fifo) \o x = line \o (fifo \o x)
      BY <1>2, ConcatAssociative, SMTT(60)
    <3> QED
      BY <2>1, <2>2, <3>1, <3>2, Zenon
  <2> QED
    BY <2>2, LineIsNext, Zenon
<1> QED
  BY <1>3, <1>4, <1>5, <1>6, <1>7, Zenon DEF IInv

----------------------------------------------------------------------------
(* The steps                                                                *)

LEMMA InitInv == Init => IInv
<1> SUFFICES ASSUME Init PROVE IInv
  OBVIOUS
<1>1. PICK c \in Context : /\ c = [code |-> "main", pc |-> "entry", call |-> 1, text |-> <<>>]
                           /\ c.pc = "entry" /\ c.call = 1 /\ c.text = <<>>
  <2> DEFINE e == [code |-> "main", pc |-> "entry", call |-> 1, text |-> <<>>]
  <2>1. e \in Context /\ e.pc = "entry" /\ e.call = 1 /\ e.text = <<>>
    BY DEF Context, Places, BeforePrinting
  <2> QED
    BY <2>1, Zenon
<1>2. contexts \in Seq(Context) /\ Len(contexts) = 1 /\ contexts[1] = c /\ contexts # <<>>
  <2>1. contexts = <<c>>
    BY <1>1, Zenon DEF Init
  <2>2. <<c>> # <<>>
    OBVIOUS
  <2> QED
    BY <2>1, <2>2, Single, Zenon
<1>3. Sound(c) /\ Given(c) = <<>>
  BY <1>1, Fresh, Zenon
<1>4. fifo = <<>> /\ line = <<>> /\ uart_initilized \in BOOLEAN /\ enabled \in BOOLEAN
  BY Zenon DEF Init
<1>5. TypeInv
  <2>1. <<>> \in Seq(Characters)
    OBVIOUS
  <2> QED
    BY <1>2, <1>4, <2>1, Zenon DEF TypeInv
<1>6. ContextsInv
  <2>1. \A k \in 1 .. Len(contexts) : k = 1 /\ contexts[k] = c
    BY <1>2
  <2> QED
    BY <1>1, <1>3, <2>1 DEF ContextsInv
<1>7. SetUp
  BY <1>1, <1>2, <1>4 DEF SetUp, BeforePrinting
<1>8. RoomStays
  BY <1>1, <1>2 DEF RoomStays, Top, top
<1>9. LineIsWhole
  <2>1. OnLine(contexts, uart_initilized) = <<>>
    <3>1. PICK s \in Seq(Seq(Characters)) :
            /\ OnLine(contexts, uart_initilized) = FlattenSeq(s) /\ Len(s) = Len(contexts)
            /\ \A k \in 1 .. Len(contexts) : s[k] = GivenUp(contexts[k], uart_initilized)
      BY <1>4, <1>5, <1>6, TopIs, OnLineIs, Zenon
    <3>2. Len(s) = 1 /\ s[1] = <<>>
      BY <1>2, <1>3, <3>1 DEF GivenUp
    <3> QED
      BY <3>1, <3>2, FlatOfEmpty, Zenon
  <2>2. <<>> \o <<>> = <<>>
    OBVIOUS
  <2> QED
    BY <1>4, <2>1, <2>2, LineIs, Zenon
<1> QED
  BY <1>5, <1>6, <1>7, <1>8, <1>9, Zenon DEF IInv

LEMMA GotoIs ==
  ASSUME TypeInv, ContextsInv, NEW p, Goto(p)
  PROVE  contexts' = [contexts EXCEPT ![top] = [Top EXCEPT !.pc = p]]
<1> QED
  BY Zenon DEF Goto, Top

\* A printer that gives nothing to the queue.
LEMMA PrinterGoes ==
  ASSUME IInv, NEW p \in {"wait", "write", "print", "idle"}, Goto(p),
         Top.pc \notin BeforePrinting,
         p \in {"wait", "write"} <=> Top.text # <<>>,
         p = "write" /\ enabled => Len(fifo) < FifoSize,
         UNCHANGED <<uart_initilized, enabled, fifo, line>>
  PROVE  IInv'
<1>1. TypeInv /\ ContextsInv /\ fifo \in Seq(Characters)
  BY Zenon DEF IInv, TypeInv
<1>2. Sound(Top) /\ Top \in Context /\ (Top.pc \in {"wait", "write"} <=> Top.text # <<>>)
      /\ (Top.pc \in {"wait", "write"} => uart_initilized)
  BY <1>1, TopIs, Zenon
<1>3. PICK d : d = [Top EXCEPT !.pc = p] /\ d.pc = p /\ d.text = Top.text
  <2>1. [Top EXCEPT !.pc = p].pc = p /\ [Top EXCEPT !.pc = p].text = Top.text
    BY <1>2 DEF Context
  <2> QED
    BY <2>1, Zenon
<1>4. contexts' = [contexts EXCEPT ![top] = d]
  BY <1>1, <1>3, GotoIs, Zenon
<1>5. Sound(d) /\ Given(d) = Given(Top)
  <2>1. p \in Places
    BY DEF Places, BeforePrinting
  <2> QED
    BY <1>2, <1>3, <2>1, Goes, Zenon
<1>6. PICK x \in Seq(Characters) : x = <<>>
  <2>1. <<>> \in Seq(Characters)
    OBVIOUS
  <2> QED
    BY <2>1, Zenon
<1>7. fifo' = fifo \o x
  BY <1>1, <1>6, ConcatEmptySeq
<1>8. GivenUp(d, uart_initilized) = GivenUp(Top, uart_initilized) \o x
  <2>1. Given(Top) \in Seq(Characters)
    BY <1>2, GivenTyped
  <2>2. Given(Top) \o x = Given(Top) /\ x \o x = x
    BY <1>6, <2>1, ConcatEmptySeq
  <2> QED
    BY <1>5, <1>6, <2>2, Zenon DEF GivenUp
<1>9. d.pc \notin BeforePrinting
  BY <1>3 DEF BeforePrinting
<1>10. d.pc = "write" /\ enabled => Len(fifo') < FifoSize
  BY <1>3, Zenon
<1>11. d.pc \in {"wait", "write"} <=> d.text # <<>>
  BY <1>3, Zenon
<1>12. d.pc \in {"wait", "write"} => uart_initilized
  BY <1>2, <1>3, Zenon
<1> QED
  BY <1>1, <1>4, <1>5, <1>7, <1>8, <1>9, <1>10, <1>11, <1>12, PrinterStep, Zenon

LEMMA SeeRoomStep == IInv /\ SeeRoom => IInv'
<1> SUFFICES ASSUME IInv, SeeRoom PROVE IInv'
  OBVIOUS
<1>1. /\ Top.pc = "wait" /\ (enabled => Len(fifo) < FifoSize) /\ Goto("write")
      /\ UNCHANGED <<uart_initilized, enabled, fifo, line>>
  BY DEF SeeRoom, At
<1>2. Top.text # <<>>
  BY <1>1, TopIs, Zenon DEF IInv
<1>3. Top.pc \notin BeforePrinting
  BY <1>1 DEF BeforePrinting
<1> QED
  BY <1>1, <1>2, <1>3, PrinterGoes, Zenon

LEMMA IdleStep == IInv /\ Idle => IInv'
<1> SUFFICES ASSUME IInv, Idle PROVE IInv'
  OBVIOUS
<1>1. /\ Top.pc = "print" /\ Goto("idle")
      /\ UNCHANGED <<uart_initilized, enabled, fifo, line>>
  BY DEF Idle, At
<1>2. Top.text = <<>>
  BY <1>1, TopIs DEF IInv
<1>3. Top.pc \notin BeforePrinting /\ "idle" # "write" /\ "idle" # "wait"
  BY <1>1 DEF BeforePrinting
<1> QED
  BY <1>1, <1>2, <1>3, PrinterGoes, Zenon

LEMMA BeginPrintStep == IInv /\ BeginPrint => IInv'
<1> SUFFICES ASSUME IInv, BeginPrint PROVE IInv'
  OBVIOUS
<1>1. /\ Top.pc = "print" /\ Top.call <= Len(Texts(Top)) /\ uart_initilized
      /\ UNCHANGED <<uart_initilized, enabled, fifo, line>>
  BY DEF BeginPrint, Printing, At
<1>2. TypeInv /\ ContextsInv /\ fifo \in Seq(Characters)
  BY Zenon DEF IInv, TypeInv
<1>3. Sound(Top) /\ Top \in Context /\ Top.text = <<>>
  BY <1>1, <1>2, TopIs
<1>4. PICK text, p : /\ text = Texts(Top)[Top.call] /\ p = IF text = <<>> THEN "print" ELSE "wait"
                     /\ contexts' = [contexts EXCEPT ![top] = [Top EXCEPT !.call = @ + 1, !.text = text, !.pc = p]]
  BY Zenon DEF BeginPrint
<1>5. p \in Places /\ p \notin BeforePrinting /\ p # "write" /\ (p = "wait" <=> text # <<>>)
  BY <1>4 DEF Places, BeforePrinting
<1>6. PICK d : d = [Top EXCEPT !.call = @ + 1, !.text = text, !.pc = p] /\ d.pc = p /\ d.text = text
  <2>1. /\ [Top EXCEPT !.call = @ + 1, !.text = text, !.pc = p].pc = p
        /\ [Top EXCEPT !.call = @ + 1, !.text = text, !.pc = p].text = text
    BY <1>3 DEF Context
  <2> QED
    BY <2>1, Zenon
<1>7. Sound(d) /\ Given(d) = Given(Top)
  BY <1>1, <1>3, <1>4, <1>5, <1>6, Begins, Zenon
<1>8. PICK x \in Seq(Characters) : x = <<>>
  <2>1. <<>> \in Seq(Characters)
    OBVIOUS
  <2> QED
    BY <2>1, Zenon
<1>9. fifo' = fifo \o x
  BY <1>1, <1>2, <1>8, ConcatEmptySeq
<1>10. GivenUp(d, uart_initilized) = GivenUp(Top, uart_initilized) \o x
  <2>1. Given(Top) \in Seq(Characters)
    BY <1>3, GivenTyped
  <2>2. Given(Top) \o x = Given(Top) /\ x \o x = x
    BY <1>8, <2>1, ConcatEmptySeq
  <2> QED
    BY <1>7, <1>8, <2>2, Zenon DEF GivenUp
<1>11. Top.pc \notin BeforePrinting
  BY <1>1 DEF BeforePrinting
<1>12. d.pc \in {"wait", "write"} <=> d.text # <<>>
  BY <1>5, <1>6
<1>13. contexts' = [contexts EXCEPT ![top] = d]
  BY <1>4, <1>6, Zenon
<1> QED
  BY <1>1, <1>2, <1>5, <1>6, <1>7, <1>9, <1>10, <1>11, <1>12, <1>13, PrinterStep, Zenon

LEMMA PrintFailsStep == IInv /\ PrintFails => IInv'
<1> SUFFICES ASSUME IInv, PrintFails PROVE IInv'
  OBVIOUS
<1>1. /\ Top.pc = "print" /\ Top.call <= Len(Texts(Top)) /\ ~ uart_initilized
      /\ UNCHANGED <<uart_initilized, enabled, fifo, line>>
  BY DEF PrintFails, Printing, At
<1>2. TypeInv /\ ContextsInv /\ fifo \in Seq(Characters)
  BY Zenon DEF IInv, TypeInv
<1>3. Sound(Top) /\ Top \in Context /\ Top.text = <<>>
  BY <1>1, <1>2, TopIs
<1>4. contexts' = [contexts EXCEPT ![top] = [Top EXCEPT !.call = @ + 1]]
  BY Zenon DEF PrintFails, Top
<1>5. PICK d : d = [Top EXCEPT !.call = @ + 1] /\ d.pc = "print" /\ d.text = <<>>
  <2>1. [Top EXCEPT !.call = @ + 1].pc = Top.pc /\ [Top EXCEPT !.call = @ + 1].text = Top.text
    BY <1>3 DEF Context
  <2> QED
    BY <1>1, <1>3, <2>1, Zenon
<1>6. Sound(d)
  BY <1>1, <1>3, <1>5, Fails, Zenon
<1>7. PICK x \in Seq(Characters) : x = <<>> /\ x \o x = x
  <2>1. <<>> \in Seq(Characters) /\ <<>> \o <<>> = <<>>
    OBVIOUS
  <2> QED
    BY <2>1, Zenon
<1>8. fifo' = fifo \o x
  BY <1>1, <1>2, <1>7, ConcatEmptySeq
<1>9. GivenUp(d, uart_initilized) = GivenUp(Top, uart_initilized) \o x
  BY <1>1, <1>7, Zenon DEF GivenUp
<1>10. Top.pc \notin BeforePrinting /\ d.pc \notin BeforePrinting
  BY <1>1, <1>5 DEF BeforePrinting
<1>11. d.pc # "wait" /\ d.pc # "write"
  BY <1>5
<1>12. contexts' = [contexts EXCEPT ![top] = d]
  BY <1>4, <1>5, Zenon
<1> QED
  BY <1>1, <1>2, <1>5, <1>6, <1>8, <1>9, <1>10, <1>11, <1>12, PrinterStep, Zenon

(* The character fits: the room that was seen is still there.               *)
LEMMA SendCharStep == IInv /\ SendChar => IInv'
<1> SUFFICES ASSUME IInv, SendChar PROVE IInv'
  OBVIOUS
<1>1. /\ Top.pc = "write" /\ fifo' = Accepted(Head(Top.text))
      /\ UNCHANGED <<uart_initilized, enabled, line>>
  BY DEF SendChar, At
<1>2. TypeInv /\ ContextsInv /\ fifo \in Seq(Characters) /\ RoomStays
  BY Zenon DEF IInv, TypeInv
<1>3. Sound(Top) /\ Top \in Context /\ Top.text # <<>> /\ uart_initilized
  BY <1>1, <1>2, TopIs
<1>4. PICK rest, p : /\ rest = Send(Top.text) /\ p = IF rest = <<>> THEN "print" ELSE "wait"
                     /\ contexts' = [contexts EXCEPT ![top] = [Top EXCEPT !.text = rest, !.pc = p]]
  BY Zenon DEF SendChar
<1>5. p \in Places /\ p \notin BeforePrinting /\ p # "write" /\ (p = "wait" <=> rest # <<>>)
  BY <1>4 DEF Places, BeforePrinting
<1>6. PICK d : d = [Top EXCEPT !.text = rest, !.pc = p] /\ d.pc = p /\ d.text = rest
  <2>1. /\ [Top EXCEPT !.text = rest, !.pc = p].pc = p
        /\ [Top EXCEPT !.text = rest, !.pc = p].text = rest
    BY <1>3 DEF Context
  <2> QED
    BY <2>1, Zenon
<1>7. Sound(d) /\ Given(d) = Given(Top) \o <<Head(Top.text)>> /\ Head(Top.text) \in Characters
  BY <1>3, <1>4, <1>5, <1>6, Sends, Zenon
<1>8. PICK h \in Characters, x \in Seq(Characters) : h = Head(Top.text) /\ x = <<h>>
  BY <1>7, Single, Zenon
<1>9. enabled => fifo' = fifo \o x
  <2>1. Append(fifo, h) = fifo \o <<h>>
    BY <1>2, AppendIsConcat
  <2> QED
    BY <1>1, <1>2, <1>8, <2>1, Zenon DEF Accepted, RoomStays
<1>10. fifo' \in Seq(Characters)
  <2>1. Append(fifo, h) \in Seq(Characters)
    BY <1>2, AppendProperties
  <2> QED
    BY <1>1, <1>2, <1>8, <2>1, Zenon DEF Accepted
<1>11. GivenUp(d, uart_initilized) = GivenUp(Top, uart_initilized) \o x
  BY <1>3, <1>7, <1>8, Zenon DEF GivenUp
<1>12. Top.pc \notin BeforePrinting
  BY <1>1 DEF BeforePrinting
<1>13. d.pc \in {"wait", "write"} <=> d.text # <<>>
  BY <1>5, <1>6
<1>14. contexts' = [contexts EXCEPT ![top] = d]
  BY <1>4, <1>6, Zenon
<1> QED
  BY <1>1, <1>3, <1>5, <1>6, <1>7, <1>9, <1>10, <1>11, <1>12, <1>13, <1>14, PrinterStep, Zenon

(* A step of main before it prints: nobody is on top of it, and nothing has *)
(* been given or sent.                                                      *)
LEMMA StageStep ==
  ASSUME IInv, NEW p \in BeforePrinting \cup {"print"}, Goto(p), Top.pc \in BeforePrinting,
         fifo' = <<>>, line' = line,
         uart_initilized' \in BOOLEAN, enabled' \in BOOLEAN
  PROVE  /\ TypeInv' /\ ContextsInv' /\ LineIsWhole' /\ RoomStays'
         /\ top' = 1 /\ contexts'[1].pc = p /\ fifo' = <<>> /\ line' = <<>>
<1>1. TypeInv /\ ContextsInv /\ SetUp
  BY Zenon DEF IInv
<1>2. /\ top = 1 /\ Len(contexts) = 1 /\ Sound(Top) /\ Top \in Context
      /\ Top.call = 1 /\ Top.text = <<>>
  <2>1. top = 1 /\ Sound(Top) /\ Top \in Context /\ Top.call = 1
    BY <1>1, TopIs, Zenon
  <2>2. Top.pc \notin {"wait", "write"}
    BY DEF BeforePrinting
  <2> QED
    BY <1>1, <2>1, <2>2, TopIs, Zenon DEF top
<1>3. line = <<>>
  BY <1>1, <1>2, Zenon DEF SetUp, Top
<1>4. PICK d : /\ d = [Top EXCEPT !.pc = p] /\ d \in Context /\ d.pc = p
               /\ d.text = <<>> /\ d.call = 1
  <2> DEFINE e == [Top EXCEPT !.pc = p]
  <2>1. e \in Context /\ e.pc = p /\ e.text = Top.text /\ e.call = Top.call
    BY <1>2 DEF Context, Places
  <2> QED
    BY <1>2, <2>1, Zenon
<1>5. contexts' = [contexts EXCEPT ![top] = d]
  BY <1>1, <1>4, GotoIs, Zenon
<1>6. Sound(d) /\ Given(d) = <<>>
  BY <1>4, Fresh, Zenon
<1>7. d.pc # "wait" /\ d.pc # "write"
  BY <1>4 DEF BeforePrinting
<1>8. /\ contexts' \in Seq(Context) /\ contexts' # <<>> /\ ContextsInv'
      /\ top' = top /\ Top' = d
  <2>1. \A k \in 1 .. Len(contexts) :
          k # top /\ contexts[k].pc \in {"wait", "write"} => uart_initilized'
    BY <1>2
  <2>2. /\ d.pc \in {"wait", "write"} <=> d.text # <<>>
        /\ d.pc \in {"wait", "write"} => uart_initilized'
        /\ d.pc \in BeforePrinting => top = 1 /\ d.call = 1
    BY <1>2, <1>4, <1>7, Zenon
  <2> QED
    BY <1>1, <1>5, <1>6, <2>1, <2>2, TopBecomes, Zenon
<1>9. TypeInv'
  <2>1. <<>> \in Seq(Characters)
    OBVIOUS
  <2> QED
    BY <1>3, <1>8, <2>1, Zenon DEF TypeInv
<1>10. top' = 1 /\ Len(contexts') = 1 /\ contexts'[1] = d
  BY <1>2, <1>8, Zenon DEF top, Top
<1>11. RoomStays'
  BY <1>7, <1>8, Zenon DEF RoomStays
<1>12. LineIsWhole'
  <2>1. AllSound(contexts')
    <3>1. \A k \in 1 .. Len(contexts') : contexts'[k] = d
      BY <1>10
    <3> QED
      BY <1>6, <1>8, <3>1, Zenon DEF AllSound
  <2>2. PICK s \in Seq(Seq(Characters)) :
          /\ OnLine(contexts', uart_initilized') = FlattenSeq(s) /\ Len(s) = Len(contexts')
          /\ \A k \in 1 .. Len(contexts') : s[k] = GivenUp(contexts'[k], uart_initilized')
    BY <2>1, OnLineIs, Zenon
  <2>3. Len(s) = 1 /\ s[1] = <<>>
    BY <1>6, <1>10, <2>2 DEF GivenUp
  <2>4. FlattenSeq(s) = <<>>
    BY <2>3, FlatOfEmpty, Zenon
  <2>5. <<>> \o <<>> = <<>>
    OBVIOUS
  <2> QED
    BY <1>3, <2>2, <2>4, <2>5, LineIsNext, Zenon
<1> QED
  BY <1>3, <1>4, <1>8, <1>9, <1>10, <1>11, <1>12, Zenon

LEMMA ZeroBssStep == IInv /\ ZeroBss => IInv'
<1> SUFFICES ASSUME IInv, ZeroBss PROVE IInv'
  OBVIOUS
<1>1. /\ Top.pc = "entry" /\ Goto("init") /\ uart_initilized' = FALSE
      /\ UNCHANGED <<enabled, fifo, line>>
  BY DEF ZeroBss, At
<1>2. TypeInv /\ ContextsInv /\ SetUp
  BY Zenon DEF IInv
<1>3. Top.pc \in BeforePrinting /\ "init" \in BeforePrinting
  BY <1>1 DEF BeforePrinting
<1>4. fifo = <<>>
  BY <1>2, <1>3, TopIs, Zenon DEF SetUp, Top
<1>5. /\ TypeInv' /\ ContextsInv' /\ LineIsWhole' /\ RoomStays'
      /\ top' = 1 /\ contexts'[1].pc = "init" /\ fifo' = <<>> /\ line' = <<>>
  BY <1>1, <1>2, <1>3, <1>4, StageStep, Zenon DEF TypeInv
<1>6. SetUp'
  BY <1>1, <1>5 DEF SetUp, BeforePrinting
<1> QED
  BY <1>5, <1>6, Zenon DEF IInv

LEMMA DisableUartStep == IInv /\ DisableUart => IInv'
<1> SUFFICES ASSUME IInv, DisableUart PROVE IInv'
  OBVIOUS
<1>1. /\ Top.pc = "init" /\ Goto("enable") /\ ~ uart_initilized
      /\ enabled' = FALSE /\ fifo' = <<>>
      /\ UNCHANGED <<uart_initilized, line>>
  BY DEF DisableUart, At
<1>2. TypeInv /\ ContextsInv /\ SetUp
  BY Zenon DEF IInv
<1>3. Top.pc \in BeforePrinting /\ "enable" \in BeforePrinting
  BY <1>1 DEF BeforePrinting
<1>4. /\ TypeInv' /\ ContextsInv' /\ LineIsWhole' /\ RoomStays'
      /\ top' = 1 /\ contexts'[1].pc = "enable" /\ fifo' = <<>> /\ line' = <<>>
  BY <1>1, <1>2, <1>3, StageStep, Zenon DEF TypeInv
<1>5. SetUp'
  BY <1>1, <1>4 DEF SetUp, BeforePrinting
<1> QED
  BY <1>4, <1>5, Zenon DEF IInv

LEMMA EnableUartStep == IInv /\ EnableUart => IInv'
<1> SUFFICES ASSUME IInv, EnableUart PROVE IInv'
  OBVIOUS
<1>1. /\ Top.pc = "enable" /\ Goto("mark") /\ enabled' = TRUE
      /\ UNCHANGED <<uart_initilized, fifo, line>>
  BY DEF EnableUart, At
<1>2. TypeInv /\ ContextsInv /\ SetUp
  BY Zenon DEF IInv
<1>3. Top.pc \in BeforePrinting /\ "mark" \in BeforePrinting
  BY <1>1 DEF BeforePrinting
<1>4. fifo = <<>> /\ ~ uart_initilized
  <2>1. top = 1
    BY <1>2, <1>3, TopIs, Zenon
  <2> QED
    BY <1>1, <1>2, <1>3, <2>1 DEF SetUp, Top
<1>5. /\ TypeInv' /\ ContextsInv' /\ LineIsWhole' /\ RoomStays'
      /\ top' = 1 /\ contexts'[1].pc = "mark" /\ fifo' = <<>> /\ line' = <<>>
  BY <1>1, <1>2, <1>3, <1>4, StageStep, Zenon DEF TypeInv
<1>6. SetUp'
  BY <1>1, <1>4, <1>5 DEF SetUp, BeforePrinting
<1> QED
  BY <1>5, <1>6, Zenon DEF IInv

LEMMA MarkInitializedStep == IInv /\ MarkInitialized => IInv'
<1> SUFFICES ASSUME IInv, MarkInitialized PROVE IInv'
  OBVIOUS
<1>1. /\ Top.pc = "mark" /\ Goto("print") /\ uart_initilized' = TRUE
      /\ UNCHANGED <<enabled, fifo, line>>
  BY DEF MarkInitialized, At
<1>2. TypeInv /\ ContextsInv /\ SetUp
  BY Zenon DEF IInv
<1>3. Top.pc \in BeforePrinting
  BY <1>1 DEF BeforePrinting
<1>4. fifo = <<>> /\ enabled
  <2>1. top = 1
    BY <1>2, <1>3, TopIs, Zenon
  <2> QED
    BY <1>1, <1>2, <1>3, <2>1 DEF SetUp, Top
<1>5. /\ TypeInv' /\ ContextsInv' /\ LineIsWhole' /\ RoomStays'
      /\ top' = 1 /\ contexts'[1].pc = "print" /\ fifo' = <<>> /\ line' = <<>>
  BY <1>1, <1>2, <1>3, <1>4, StageStep, Zenon DEF TypeInv
<1>6. SetUp'
  BY <1>1, <1>4, <1>5 DEF SetUp, BeforePrinting
<1> QED
  BY <1>5, <1>6, Zenon DEF IInv

(* The panic has given nothing yet, and nobody has seen room for it.        *)
LEMMA PanicStep == IInv /\ Panic => IInv'
<1> SUFFICES ASSUME IInv, Panic PROVE IInv'
  OBVIOUS
<1>1. UNCHANGED <<uart_initilized, enabled, fifo, line>>
  BY DEF Panic
<1>2. TypeInv /\ ContextsInv /\ SetUp /\ LineIsWhole
  BY Zenon DEF IInv
<1>3. PICK d : /\ d = [code |-> "panic", pc |-> "print", call |-> 1, text |-> <<>>]
               /\ d \in Context /\ d.pc = "print" /\ d.call = 1 /\ d.text = <<>>
  <2> DEFINE e == [code |-> "panic", pc |-> "print", call |-> 1, text |-> <<>>]
  <2>1. e \in Context /\ e.pc = "print" /\ e.call = 1 /\ e.text = <<>>
    BY DEF Context, Places, BeforePrinting
  <2> QED
    BY <2>1, Zenon
<1>4. PICK n \in Nat : n = Len(contexts) /\ n = top /\ n >= 1
  BY <1>2, TopIs, Zenon DEF top
<1>5. /\ contexts' = Append(contexts, d) /\ contexts' \in Seq(Context) /\ contexts' # <<>>
      /\ Len(contexts') = n + 1 /\ contexts'[n + 1] = d
      /\ \A k \in 1 .. n : contexts'[k] = contexts[k]
  <2>1. contexts' = Append(contexts, d) /\ contexts \in Seq(Context)
    BY <1>2, <1>3, Zenon DEF Panic, TypeInv
  <2>2. /\ Append(contexts, d) \in Seq(Context) /\ Append(contexts, d) # <<>>
        /\ Len(Append(contexts, d)) = Len(contexts) + 1
        /\ \A k \in 1 .. Len(contexts) : Append(contexts, d)[k] = contexts[k]
        /\ Append(contexts, d)[Len(contexts) + 1] = d
    <3>1. contexts \in Seq(Context) /\ d \in Context
      BY <1>3, <2>1, Zenon
    <3> QED
      BY <3>1, AppendProperties
  <2> QED
    BY <1>4, <2>1, <2>2, Zenon
<1>6. Sound(d) /\ Given(d) = <<>>
  BY <1>3, Fresh, Zenon
<1>7. d.pc # "wait" /\ d.pc # "write" /\ d.pc \notin BeforePrinting
  BY <1>3 DEF BeforePrinting
<1>8. TypeInv'
  BY <1>1, <1>2, <1>5, Zenon DEF TypeInv
<1>9. ContextsInv'
  <2> SUFFICES ASSUME NEW k \in 1 .. Len(contexts')
               PROVE  /\ Sound(contexts'[k])
                      /\ contexts'[k].pc \in {"wait", "write"} <=> contexts'[k].text # <<>>
                      /\ contexts'[k].pc \in {"wait", "write"} => uart_initilized'
                      /\ contexts'[k].pc \in BeforePrinting => k = 1 /\ contexts'[k].call = 1
    BY Zenon DEF ContextsInv, Sound, Given, All, Texts
  <2>1. CASE k = n + 1
    <3>1. contexts'[k] = d
      BY <1>5, <2>1, Zenon
    <3> QED
      BY <1>3, <1>6, <1>7, <3>1, Zenon
  <2>2. CASE k # n + 1
    <3>1. k \in 1 .. n
      BY <1>5, <2>2
    <3>2. contexts'[k] = contexts[k] /\ k \in 1 .. Len(contexts)
      BY <1>4, <1>5, <3>1, Zenon
    <3> QED
      BY <1>1, <1>2, <3>2, Zenon DEF ContextsInv
  <2> QED
    BY <2>1, <2>2
<1>10. top' # 1 /\ Top' = d
  <2>1. n + 1 # 1
    BY <1>4
  <2> QED
    BY <1>5, <2>1, Zenon DEF top, Top
<1>11. SetUp'
  <2>1. 1 \in 1 .. n
    BY <1>4
  <2>2. contexts'[1] = contexts[1]
    BY <1>5, <2>1, Zenon
  <2> QED
    BY <1>1, <1>2, <1>10, <2>2, Zenon DEF SetUp
<1>12. RoomStays'
  BY <1>7, <1>10, Zenon DEF RoomStays
<1>13. LineIsWhole'
  <2>1. GivenUp(d, uart_initilized) = <<>>
    BY <1>6, Zenon DEF GivenUp
  <2>2. OnLine(contexts', uart_initilized) = OnLine(contexts, uart_initilized)
    BY <1>2, <1>5, <1>6, <2>1, TopIs, OnLinePushed, Zenon DEF TypeInv
  <2> QED
    BY <1>1, <1>2, <2>2, LineIs, LineIsNext, Zenon
<1> QED
  BY <1>8, <1>9, <1>11, <1>12, <1>13, Zenon DEF IInv

LEMMA TransmitStep == IInv /\ Transmit => IInv'
<1> SUFFICES ASSUME IInv, Transmit PROVE IInv'
  OBVIOUS
<1>1. /\ enabled /\ fifo # <<>> /\ line' = Append(line, Head(fifo)) /\ fifo' = Tail(fifo)
      /\ UNCHANGED <<contexts, uart_initilized, enabled>>
  BY DEF Transmit
<1>2. /\ TypeInv /\ ContextsInv /\ SetUp /\ RoomStays /\ LineIsWhole
      /\ fifo \in Seq(Characters) /\ line \in Seq(Characters)
  BY Zenon DEF IInv, TypeInv
<1>3. PICK h \in Characters, t \in Seq(Characters) :
        h = Head(fifo) /\ t = Tail(fifo) /\ fifo = <<h>> \o t /\ Len(t) = Len(fifo) - 1
  <2>1. Head(fifo) \in Characters /\ Tail(fifo) \in Seq(Characters) /\ Len(Tail(fifo)) = Len(fifo) - 1
    BY <1>1, <1>2, HeadTailProperties
  <2>2. fifo = <<Head(fifo)>> \o Tail(fifo)
    BY <1>1, <1>2
  <2> QED
    BY <2>1, <2>2, Zenon
<1>4. line' = line \o <<h>> /\ line' \in Seq(Characters) /\ fifo' = t
  BY <1>1, <1>2, <1>3, AppendIsConcat, AppendProperties
<1>5. line' \o fifo' = line \o fifo
  <2>1. <<h>> \in Seq(Characters)
    BY Single, Zenon
  <2>2. (line \o <<h>>) \o t = line \o (<<h>> \o t)
    BY <1>2, <2>1, ConcatAssociative
  <2> QED
    BY <1>3, <1>4, <2>2, Zenon
<1>6. TypeInv'
  BY <1>1, <1>2, <1>4, Zenon DEF TypeInv
<1>7. ContextsInv'
  BY <1>1, <1>2, Zenon DEF ContextsInv, Sound, Given, All, Texts
<1>8. SetUp'
  BY <1>1, <1>2, Zenon DEF SetUp, top
<1>9. RoomStays'
  <2>1. Len(fifo) < FifoSize => Len(fifo') < FifoSize
    BY <1>2, <1>3, <1>4, ConsoleAssumption, LenProperties
  <2> QED
    BY <1>1, <1>2, <2>1, Zenon DEF RoomStays, Top, top
<1>10. LineIsWhole'
  BY <1>1, <1>2, <1>5, LineIs, LineIsNext, Zenon
<1> QED
  BY <1>6, <1>7, <1>8, <1>9, <1>10, Zenon DEF IInv

\* vsnprintf has no part in this.
LEMMA NothingPrinted ==
  ASSUME IInv, UNCHANGED <<contexts, uart_initilized, enabled, fifo, line>>
  PROVE  IInv'
<1>1. TypeInv /\ ContextsInv /\ SetUp /\ RoomStays /\ LineIsWhole
  BY Zenon DEF IInv
<1>2. TypeInv' /\ RoomStays' /\ SetUp'
  BY <1>1, Zenon DEF TypeInv, RoomStays, SetUp, Top, top
<1>3. ContextsInv'
  BY <1>1, Zenon DEF ContextsInv, Sound, Given, All, Texts
<1>4. LineIsWhole'
  BY <1>1, LineIs, LineIsNext, Zenon
<1> QED
  BY <1>2, <1>3, <1>4, Zenon DEF IInv

LEMMA InvStep == IInv /\ [Next]_vars => IInv'
<1> SUFFICES ASSUME IInv, [Next]_vars PROVE IInv'
  OBVIOUS
<1>1. CASE Snprintf \/ SnprintfReturns \/ UNCHANGED vars
  <2>1. UNCHANGED <<contexts, uart_initilized, enabled, fifo, line>>
    BY <1>1 DEF Snprintf, SnprintfReturns, vars
  <2> QED
    BY <2>1, NothingPrinted
<1>2. CASE ~ (Snprintf \/ SnprintfReturns \/ UNCHANGED vars)
  BY <1>2, ZeroBssStep, DisableUartStep, EnableUartStep, MarkInitializedStep, BeginPrintStep,
     PrintFailsStep, SeeRoomStep, SendCharStep, IdleStep, PanicStep, TransmitStep, Zenon
     DEF Next, Run
<1> QED
  BY <1>1, <1>2

(* In every state of printing: what each context has begun is given to the  *)
(* UART but for what it has left, room that was seen stays, and the line is *)
(* whole.                                                                   *)
THEOREM InductiveInvariant == Spec => []IInv
<1> QED
  BY InitInv, InvStep, PTL DEF Spec

(* Panics may interrupt main, and each other, between any two instructions: *)
(* nothing is lost or mixed up on the line.                                 *)
THEOREM NothingIsLost == Spec => []LineIsWhole
<1>1. IInv => LineIsWhole
  BY Zenon DEF IInv
<1> QED
  BY <1>1, InductiveInvariant, PTL
----------------------------------------------------------------------------
(* What vsnprintf leaves in a buffer                                        *)

(* Up to the i-th character of the text.                                    *)
Held(text, max, i) ==
  [buffer |-> SubSeq(text, 1, AtMost(i, max)), length |-> i, max_length |-> max]

(* w is the function by which vsnprintf is defined.                         *)
IsWriter(w, text, max) ==
  w = [i \in 0 .. Len(text) |->
        IF i = 0 THEN [buffer |-> <<>>, length |-> 0, max_length |-> max]
        ELSE vsnprintf_helper(w[i - 1], text[i])]

LEMMA HeldAtFirst ==
  ASSUME NEW text, NEW max \in Nat
  PROVE  Held(text, max, 0) = [buffer |-> <<>>, length |-> 0, max_length |-> max]
<1>1. AtMost(0, max) = 0
  BY DEF AtMost
<1>2. SubSeq(text, 1, 0) = <<>>
  BY SubSeqEmpty
<1> QED
  BY <1>1, <1>2, Zenon DEF Held

(* The next character is kept while there is room for it.                   *)
LEMMA HelperHolds ==
  ASSUME NEW C, NEW text \in Seq(C), NEW max \in Nat, NEW i \in 0 .. Len(text) - 1
  PROVE  vsnprintf_helper(Held(text, max, i), text[i + 1]) = Held(text, max, i + 1)
<1>1. PICK b : b = SubSeq(text, 1, AtMost(i, max))
  OBVIOUS
<1>2. Held(text, max, i) = [buffer |-> b, length |-> i, max_length |-> max]
  BY <1>1, Zenon DEF Held
<1>3. vsnprintf_helper(Held(text, max, i), text[i + 1])
      = [buffer |-> IF i < max THEN Append(b, text[i + 1]) ELSE b,
         length |-> i + 1, max_length |-> max]
  <2>1. PICK e : e = [buffer |-> b, length |-> i, max_length |-> max]
    OBVIOUS
  <2>2. e.buffer = b /\ e.length = i /\ e.max_length = max
    BY <2>1
  <2>3. PICK k : k = IF i < max THEN Append(b, text[i + 1]) ELSE b
    OBVIOUS
  <2>4. vsnprintf_helper(e, text[i + 1]) = [e EXCEPT !.length = i + 1, !.buffer = k]
    BY <2>2, <2>3 DEF vsnprintf_helper
  <2> QED
    BY <1>2, <2>1, <2>3, <2>4
<1>4. (IF i < max THEN Append(b, text[i + 1]) ELSE b) = SubSeq(text, 1, AtMost(i + 1, max))
  <2>1. CASE i < max
    <3>1. AtMost(i, max) = i /\ AtMost(i + 1, max) = i + 1
      BY <2>1 DEF AtMost
    <3>2. Append(SubSeq(text, 1, i), text[i + 1]) = SubSeq(text, 1, i + 1)
      OBVIOUS
    <3> QED
      BY <1>1, <2>1, <3>1, <3>2, Zenon
  <2>2. CASE ~ (i < max)
    <3>1. AtMost(i, max) = max /\ AtMost(i + 1, max) = max
      BY <2>2 DEF AtMost
    <3> QED
      BY <1>1, <2>2, <3>1, Zenon
  <2> QED
    BY <2>1, <2>2, Zenon
<1> QED
  BY <1>3, <1>4, Zenon DEF Held

LEMMA WriterExists ==
  ASSUME NEW C, NEW text \in Seq(C), NEW max \in Nat
  PROVE  \E w : IsWriter(w, text, max)
<1>1. PICK n \in Nat : n = Len(text)
  OBVIOUS
<1>2. PICK w : w = [i \in 0 .. n |-> Held(text, max, i)]
  OBVIOUS
<1>3. ASSUME NEW i \in 0 .. n
      PROVE  w[i] = IF i = 0 THEN [buffer |-> <<>>, length |-> 0, max_length |-> max]
                    ELSE vsnprintf_helper(w[i - 1], text[i])
  <2>1. w[i] = Held(text, max, i)
    BY <1>2, Zenon
  <2>2. CASE i = 0
    BY <2>1, <2>2, HeldAtFirst, Zenon
  <2>3. CASE i # 0
    <3>1. PICK k \in 0 .. n : k = i - 1 /\ i = k + 1 /\ k \in 0 .. Len(text) - 1
      BY <1>1, <2>3
    <3>2. w[k] = Held(text, max, k)
      BY <1>2, Zenon
    <3> QED
      BY <2>1, <2>3, <3>1, <3>2, HelperHolds, Zenon
  <2> QED
    BY <2>2, <2>3, Zenon
<1>4. w = [i \in 0 .. n |-> IF i = 0 THEN [buffer |-> <<>>, length |-> 0, max_length |-> max]
                            ELSE vsnprintf_helper(w[i - 1], text[i])]
  <2>1. w = [i \in 0 .. n |-> w[i]]
    BY <1>2, Zenon
  <2> QED
    BY <1>3, <2>1, Zenon
<1> QED
  BY <1>1, <1>4, Zenon DEF IsWriter

LEMMA WriterHolds ==
  ASSUME NEW C, NEW text \in Seq(C), NEW max \in Nat, NEW w, IsWriter(w, text, max)
  PROVE  w[Len(text)] = Held(text, max, Len(text))
<1>1. PICK n \in Nat : n = Len(text)
  OBVIOUS
<1>2. \A i \in 0 .. n : w[i] = IF i = 0 THEN [buffer |-> <<>>, length |-> 0, max_length |-> max]
                               ELSE vsnprintf_helper(w[i - 1], text[i])
  BY <1>1, Zenon DEF IsWriter
<1>3. PICK S : S = { k \in 0 .. n : w[k] = Held(text, max, k) }
  OBVIOUS
<1>4. 0 \in S
  <2>1. 0 \in 0 .. n
    OBVIOUS
  <2> QED
    BY <1>2, <1>3, <2>1, HeldAtFirst, Zenon
<1>5. ASSUME NEW k \in 0 .. n - 1, k \in S
      PROVE  k + 1 \in S
  <2>1. k + 1 \in 0 .. n /\ k + 1 # 0 /\ (k + 1) - 1 = k /\ k \in 0 .. Len(text) - 1
    BY <1>1
  <2>2. w[k + 1] = vsnprintf_helper(w[k], text[k + 1])
    BY <1>2, <2>1, Zenon
  <2>3. w[k] = Held(text, max, k)
    BY <1>3, <1>5, Zenon
  <2>4. w[k + 1] = Held(text, max, k + 1)
    BY <2>1, <2>2, <2>3, HelperHolds, Zenon
  <2> QED
    BY <1>3, <2>1, <2>4, Zenon
<1>6. n \in S
  <2>1. 0 .. n \subseteq S
    BY <1>4, <1>5, UpTo
  <2> QED
    BY <2>1
<1> QED
  BY <1>1, <1>3, <1>6, Zenon

(* Such a function for a call, and what the call makes of its last value.   *)
Writes(w, size, format, args) ==
  /\ IsWriter(w, vprintf(format, args), AtLeast(size - 1, 0))
  /\ vsnprintf(size, format, args)
     = [buffer |-> IF size > 0 THEN Append(w[Len(vprintf(format, args))].buffer, NUL)
                   ELSE w[Len(vprintf(format, args))].buffer,
        returns |-> w[Len(vprintf(format, args))].length]

LEMMA WriterOf ==
  ASSUME NEW size \in Nat, NEW format, NEW args, vprintf(format, args) \in Seq(STRING)
  PROVE  \E w : Writes(w, size, format, args)
<1> DEFINE W == CHOOSE w : IsWriter(w, vprintf(format, args), AtLeast(size - 1, 0))
<1>1. AtLeast(size - 1, 0) \in Nat
  BY DEF AtLeast
<1>2. IsWriter(W, vprintf(format, args), AtLeast(size - 1, 0))
  BY <1>1, WriterExists, Zenon
<1>3. vsnprintf(size, format, args)
      = [buffer |-> IF size > 0 THEN Append(W[Len(vprintf(format, args))].buffer, NUL)
                    ELSE W[Len(vprintf(format, args))].buffer,
         returns |-> W[Len(vprintf(format, args))].length]
  BY Zenon DEF vsnprintf, IsWriter
<1>4. Writes(W, size, format, args)
  BY <1>2, <1>3, Zenon DEF Writes
<1> HIDE DEF W
<1> QED
  BY <1>4, Zenon

(* What fits of the text in a buffer of some size, then the terminator.     *)
Fitting(text, end, size) ==
  LET kept == SubSeq(text, 1, AtMost(Len(text), AtLeast(size - 1, 0)))
  IN  IF size > 0 THEN Append(kept, end) ELSE kept

LEMMA WhatIsStored ==
  ASSUME NEW size \in Nat, NEW format, NEW args, vprintf(format, args) \in Seq(STRING)
  PROVE  vsnprintf(size, format, args)
         = [buffer |-> Fitting(vprintf(format, args), NUL, size),
            returns |-> Len(vprintf(format, args))]
<1>1. PICK text \in Seq(STRING) : text = vprintf(format, args)
  OBVIOUS
<1>2. PICK max \in Nat : max = AtLeast(size - 1, 0)
  BY DEF AtLeast
<1>3. PICK kept \in Nat : kept = AtMost(Len(text), max)
  BY DEF AtMost
<1>4. PICK w : /\ IsWriter(w, text, max)
               /\ vsnprintf(size, format, args)
                  = [buffer |-> IF size > 0 THEN Append(w[Len(text)].buffer, NUL)
                                ELSE w[Len(text)].buffer,
                     returns |-> w[Len(text)].length]
  <2>1. PICK w : Writes(w, size, format, args)
    BY WriterOf, Zenon
  <2>2. /\ IsWriter(w, text, max)
        /\ vsnprintf(size, format, args)
           = [buffer |-> IF size > 0 THEN Append(w[Len(text)].buffer, NUL)
                         ELSE w[Len(text)].buffer,
              returns |-> w[Len(text)].length]
    BY <1>1, <1>2, <2>1, Zenon DEF Writes
  <2> QED
    BY <2>2, Zenon
<1>5. w[Len(text)] = Held(text, max, Len(text))
  BY <1>4, WriterHolds, Zenon
<1>6. w[Len(text)].buffer = SubSeq(text, 1, kept) /\ w[Len(text)].length = Len(text)
  BY <1>3, <1>5 DEF Held
<1>7. Fitting(text, NUL, size)
      = IF size > 0 THEN Append(SubSeq(text, 1, kept), NUL) ELSE SubSeq(text, 1, kept)
  BY <1>2, <1>3, Zenon DEF Fitting
<1> QED
  BY <1>1, <1>4, <1>6, <1>7, Zenon

LEMMA Terminated ==
  ASSUME NEW C, NEW text \in Seq(C), NEW end \in C, NEW size \in Nat
  PROVE  /\ Len(Fitting(text, end, size)) = AtMost(Len(text) + 1, size)
         /\ Fitting(text, end, size) # <<>> =>
              /\ Last(Fitting(text, end, size)) = end
              /\ IsPrefix(Front(Fitting(text, end, size)), text)
<1> PICK b : b = Fitting(text, end, size)
  OBVIOUS
<1> SUFFICES /\ Len(b) = AtMost(Len(text) + 1, size)
             /\ b # <<>> => Last(b) = end /\ IsPrefix(Front(b), text)
  BY Zenon
<1> PICK kept \in Nat : kept = AtMost(Len(text), AtLeast(size - 1, 0))
  BY DEF AtMost, AtLeast
<1>0. b = IF size > 0 THEN Append(SubSeq(text, 1, kept), end) ELSE SubSeq(text, 1, kept)
  BY Zenon DEF Fitting
<1>1. PICK n \in Nat : n = Len(text)
  OBVIOUS
<1>2. kept <= n
  BY <1>1 DEF AtMost, AtLeast
<1>3. PICK t \in Seq(C) : t = SubSeq(text, 1, kept) /\ Len(t) = kept
  <2>1. SubSeq(text, 1, kept) \in Seq(C) /\ Len(SubSeq(text, 1, kept)) = kept
    BY <1>1, <1>2
  <2> QED
    BY <2>1, Zenon
<1>4. CASE size = 0
  <2>1. kept = 0 /\ AtMost(Len(text) + 1, size) = 0
    BY <1>1, <1>4 DEF AtMost, AtLeast
  <2>2. b = t
    BY <1>0, <1>3, <1>4
  <2>3. b = <<>>
    BY <1>3, <2>1, <2>2
  <2> QED
    BY <2>1, <2>3
<1>5. CASE size > 0
  <2>1. kept + 1 = AtMost(n + 1, size)
    BY <1>1, <1>5 DEF AtMost, AtLeast
  <2>2. b = Append(t, end)
    BY <1>0, <1>3, <1>5, Zenon
  <2>3. /\ Len(b) = kept + 1 /\ b[kept + 1] = end /\ b \in Seq(C)
        /\ \A i \in 1 .. kept : b[i] = t[i]
    BY <1>3, <2>2, AppendProperties
  <2>4. Front(b) = t
    <3>1. SubSeq(b, 1, kept) = t
      BY <1>3, <2>2
    <3>2. Len(b) - 1 = kept
      BY <2>3
    <3> QED
      BY <3>1, <3>2, Zenon DEF Front
  <2>5. IsPrefix(t, text)
    <3>1. SubSeq(t, 1, Len(t)) = t
      BY <1>3
    <3> QED
      BY <1>1, <1>2, <1>3, <3>1, Zenon DEF IsPrefix
  <2>6. Last(b) = end
    BY <2>3, Zenon DEF Last
  <2> QED
    BY <1>1, <2>1, <2>3, <2>4, <2>5, <2>6, Zenon
<1> QED
  BY <1>4, <1>5

(* What is stored is the effect of a call that was asked for.               *)
StoredInv ==
  stored = None \/
  \E r \in Requests, size \in BufferSizes :
    stored = [call |-> r, size |-> size, result |-> vsnprintf(size, Framed(r), Arguments(r))]

LEMMA StoredInit == Init => StoredInv
<1> QED
  BY Zenon DEF Init, StoredInv

LEMMA StoredStep == StoredInv /\ [Next]_vars => StoredInv'
<1> SUFFICES ASSUME StoredInv, [Next]_vars PROVE StoredInv'
  OBVIOUS
<1>1. CASE Snprintf
  BY <1>1, Zenon DEF Snprintf, StoredInv
<1>2. CASE SnprintfReturns
  BY <1>2, Zenon DEF SnprintfReturns, StoredInv, None
<1>3. CASE UNCHANGED stored
  BY <1>3, Zenon DEF StoredInv, None
<1>4. Snprintf \/ SnprintfReturns \/ UNCHANGED stored
  BY Zenon DEF Next, Run, ZeroBss, DisableUart, EnableUart, MarkInitialized, BeginPrint,
     PrintFails, SeeRoom, SendChar, Idle, Panic, Transmit, vars
<1> QED
  BY <1>1, <1>2, <1>3, <1>4

LEMMA StoredHolds == StoredInv => BufferHoldsPrefix
<1> SUFFICES ASSUME StoredInv, stored # None PROVE BufferHoldsPrefix
  BY Zenon DEF BufferHoldsPrefix
<1>1. PICK r \in Requests, size \in BufferSizes :
        stored = [call |-> r, size |-> size, result |-> vsnprintf(size, Framed(r), Arguments(r))]
  BY Zenon DEF StoredInv
<1>2. size \in Nat
  BY ConsoleAssumption
<1>3. PICK text \in Seq(STRING) : text = vprintf(Framed(r), Arguments(r))
  BY TextsAssumption, Zenon
<1>4. PICK b : b = Fitting(text, NUL, size)
  OBVIOUS
<1>5. /\ stored.call = r /\ stored.size = size
      /\ stored.result.buffer = b /\ stored.result.returns = Len(text)
  <2>1. stored = [call |-> r, size |-> size, result |-> [buffer |-> b, returns |-> Len(text)]]
    BY <1>1, <1>2, <1>3, <1>4, WhatIsStored, Zenon
  <2> QED
    BY <2>1
<1>6. /\ Len(b) = AtMost(Len(text) + 1, size)
      /\ b # <<>> => Last(b) = NUL /\ IsPrefix(Front(b), text)
  <2>1. text \in Seq(STRING \cup {NUL}) /\ NUL \in STRING \cup {NUL}
    OBVIOUS
  <2> QED
    BY <1>2, <1>4, <2>1, Terminated, Zenon
<1> QED
  BY <1>3, <1>5, <1>6, Zenon DEF BufferHoldsPrefix

(* However long the text and however small the buffer: it gets as much of   *)
(* the text as fits with a terminator, and the caller learns the length.    *)
THEOREM BuffersHoldPrefixes == Spec => []BufferHoldsPrefix
<1> QED
  BY StoredInit, StoredStep, StoredHolds, PTL DEF Spec

=============================================================================
